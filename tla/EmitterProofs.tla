---------------------------- MODULE EmitterProofs ----------------------------
(***************************************************************************)
(* Proofs that the emitter writes only what follows the grammar of events  *)
(* and that it never goes on behind a refusal, whatever a caller sends;    *)
(* and that a caller that keeps to the grammar is never refused.           *)
(*                                                                         *)
(* What a state function writes does not matter for these: a step is       *)
(* followed on the state, the stack of states, the tag directives and the  *)
(* error alone.  The types need all of it: that text is written, whatever  *)
(* the value, and that the indentations follow the nesting.                *)
(***************************************************************************)
EXTENDS EmitterCaller, ProofLemmas

CONSTANTS CallerEvents,    \* the events that the caller may send
          TagDirectives,   \* the tag directives that it may declare
          TagAlphabet,     \* what tags and prefixes are written with
          TextAlphabet     \* the characters of values, anchors and handles

(* An event that starts a document carries an array of tag directives.     *)
CallerIsTyped == \A e \in CallerEvents :
    e.type = "DOCUMENT-START" => e.directives \in Seq(TagDirectives)

EmitterNext == (\E e \in CallerEvents : Emit(e)) \/ Process
EmitterSpec == EmitterInit /\ [][EmitterNext]_emitterVars

Fields == {"state", "states", "indent", "indents", "flowLevel", "context",
           "tagDirectives", "out", "ok", "problem"}

-----------------------------------------------------------------------------
(* The helpers that write or indent touch nothing of the control.          *)
Keeps(new, em) ==
    /\ DOMAIN new = Fields
    /\ new.state = em.state /\ new.states = em.states
    /\ new.tagDirectives = em.tagDirectives
    /\ new.ok = em.ok /\ new.problem = em.problem

(* Another text written so far touches none of it.                         *)
LEMMA OutKeeps ==
    ASSUME NEW em, DOMAIN em = Fields, NEW o
    PROVE  Keeps([em EXCEPT !.out = o], em)
BY DEF Keeps, Fields

(* So does an indicator.                                                   *)
LEMMA IndicatorKeeps ==
    ASSUME NEW em, DOMAIN em = Fields, NEW s, NEW a, NEW b, NEW c
    PROVE  Keeps(Indicator(em, s, a, b, c), em)
BY OutKeeps DEF Indicator

(* So does a line break with its indentation.                              *)
LEMMA NewLineKeeps ==
    ASSUME NEW em, DOMAIN em = Fields
    PROVE  Keeps(NewLine(em), em) /\ Keeps(NewLineIfLong(em), em)
<1>1. Keeps(NewLine(em), em)
  BY OutKeeps DEF NewLine
<1>2. Keeps(em, em)
  BY DEF Keeps
<1>3. QED
  BY <1>1, <1>2 DEF NewLineIfLong

(* A deeper indentation changes only the indentation and its stack.        *)
LEMMA IncreaseIndentKeeps ==
    ASSUME NEW em, DOMAIN em = Fields, NEW flow, NEW indentless
    PROVE  Keeps(IncreaseIndent(em, flow, indentless), em)
BY DEF Keeps, Fields, IncreaseIndent

(* So does going back to the one before.                                   *)
LEMMA DecreaseIndentKeeps ==
    ASSUME NEW em, DOMAIN em = Fields
    PROVE  Keeps(DecreaseIndent(em), em)
BY DEF Keeps, Fields, DecreaseIndent

(* Writing the anchor and the tag leaves the states alone.                 *)
LEMMA WritePropertiesKeeps ==
    ASSUME NEW em, DOMAIN em = Fields, NEW e, NEW tag
    PROVE  Keeps(WriteProperties(em, e, tag), em)
BY OutKeeps DEF WriteProperties

(* What two steps leave alone, they leave alone together.                  *)
LEMMA KeepsTransitive ==
    ASSUME NEW a, NEW b, NEW c, Keeps(b, a), Keeps(c, b)
    PROVE  Keeps(c, a)
BY DEF Keeps

(* The bracket of a flow collection leaves the states alone.               *)
LEMMA OpenFlowKeeps ==
    ASSUME NEW em, DOMAIN em = Fields, NEW bracket
    PROVE  Keeps(OpenFlow(em, bracket), em)
<1> DEFINE marked == Indicator(em, <<bracket>>, TRUE, TRUE, FALSE)
           opened == IncreaseIndent(marked, TRUE, FALSE)
<1>1. Keeps(marked, em)
  BY IndicatorKeeps
<1>2. DOMAIN marked = Fields
  BY <1>1 DEF Keeps
<1> HIDE DEF marked
<1>3. Keeps(opened, marked)
  BY <1>2, IncreaseIndentKeeps
<1>4. Keeps(opened, em)
  BY <1>1, <1>3, KeepsTransitive
<1> HIDE DEF opened
<1>5. Keeps([opened EXCEPT !.flowLevel = @ + 1], opened)
  BY <1>3 DEF Keeps, Fields
<1>6. Keeps([opened EXCEPT !.flowLevel = @ + 1], em)
  BY <1>4, <1>5, KeepsTransitive
<1>7. QED
  BY <1>6 DEF OpenFlow, opened, marked

(* So does the comma in front of an item.                                  *)
LEMMA CommaKeeps ==
    ASSUME NEW em, DOMAIN em = Fields, NEW first
    PROVE  Keeps(Comma(em, first), em)
<1> DEFINE written == IF first THEN em ELSE Indicator(em, <<",">>, FALSE, FALSE, FALSE)
<1>1. Keeps(written, em)
  <2>1. Keeps(em, em)
    BY DEF Keeps
  <2>2. QED
    BY <2>1, IndicatorKeeps
<1>2. DOMAIN written = Fields
  BY <1>1 DEF Keeps
<1> HIDE DEF written
<1>3. Keeps(NewLineIfLong(written), written)
  BY <1>2, NewLineKeeps
<1>4. Keeps(NewLineIfLong(written), em)
  BY <1>1, <1>3, KeepsTransitive
<1>5. QED
  BY <1>4 DEF Comma, written

-----------------------------------------------------------------------------
(* What a state function makes of a node.                                  *)
NodeAccepted(em, e) ==
    \/ e.type \in {"ALIAS", "SEQUENCE-START", "MAPPING-START"}
    \/ /\ e.type = "SCALAR"
       /\ ~(TagDataOf(em, e) = NoTag /\ ~e.plainImplicit /\ ~e.quotedImplicit)

FirstStates(kind) ==
    IF kind = "sequence" THEN {"FLOW-SEQUENCE-FIRST-ITEM", "BLOCK-SEQUENCE-FIRST-ITEM"}
                         ELSE {"FLOW-MAPPING-FIRST-KEY", "BLOCK-MAPPING-FIRST-KEY"}

LeafWritten(new, em, e) ==
    /\ e.type \in {"ALIAS", "SCALAR"}
    /\ new.state = Last(em.states) /\ new.states = Front(em.states)

CollectionOpened(new, em, e) ==
    /\ new.states = em.states
    /\ \/ e.type = "SEQUENCE-START" /\ new.state \in FirstStates("sequence")
       \/ e.type = "MAPPING-START"  /\ new.state \in FirstStates("mapping")

(* The node is accepted, or the state function gives up where it is.       *)
NodeOutcome(new, em, e) ==
    /\ DOMAIN new = Fields
    /\ new.tagDirectives = em.tagDirectives
    /\ new.ok = NodeAccepted(em, e)
    /\ IF new.ok THEN /\ new.problem = em.problem
                      /\ LeafWritten(new, em, e) \/ CollectionOpened(new, em, e)
                 ELSE new.problem = TRUE /\ new.state = em.state

(* A refusal sets the error and nothing else.                              *)
LEMMA RefuseOutcome ==
    ASSUME NEW em, DOMAIN em = Fields
    PROVE  /\ DOMAIN Refuse(em) = Fields
           /\ Refuse(em).ok = FALSE /\ Refuse(em).problem = TRUE
           /\ Refuse(em).state = em.state
           /\ Refuse(em).tagDirectives = em.tagDirectives
BY DEF Refuse, Fields

(* The end of a node takes the state on top.                               *)
LEMMA PopOutcome ==
    ASSUME NEW em, DOMAIN em = Fields
    PROVE  /\ DOMAIN Pop(em) = Fields
           /\ Pop(em).state = Last(em.states) /\ Pop(em).states = Front(em.states)
           /\ Pop(em).tagDirectives = em.tagDirectives
           /\ Pop(em).ok = em.ok /\ Pop(em).problem = em.problem
BY DEF Pop, Fields

(* An alias is refused, or it is written and the state on top is taken.    *)
LEMMA AliasOutcome ==
    ASSUME NEW em, DOMAIN em = Fields, em.ok = TRUE, NEW e, e.type = "ALIAS"
    PROVE  NodeOutcome(EmitAlias(em, e), em, e)
<1> DEFINE named == WriteAnchor(WriteIndicator(em.out, <<"*">>, TRUE, FALSE, FALSE),
                                ValueOf(e.anchor))
           written == [em EXCEPT !.out = IF em.context = "simple_key"
                                         THEN Put(named, " ") ELSE named]
<1>1. Keeps(written, em)
  BY OutKeeps
<1>2. EmitAlias(em, e) = Pop(written)
  BY DEF EmitAlias
<1> HIDE DEF written
<1>3. QED
  BY <1>1, <1>2, PopOutcome, ZenonT(40) DEF NodeOutcome, NodeAccepted, LeafWritten, Keeps

(* So is a scalar.                                                         *)
LEMMA ScalarOutcome ==
    ASSUME NEW em, DOMAIN em = Fields, em.ok = TRUE, NEW e, e.type = "SCALAR"
    PROVE  NodeOutcome(EmitScalar(em, e), em, e)
<1> DEFINE tag   == TagDataOf(em, e)
           refused == tag = NoTag /\ ~e.plainImplicit /\ ~e.quotedImplicit
           style == SelectScalarStyle(em, e, tag)
           shown == IF tag = NoTag /\ ~e.quotedImplicit /\ style # "plain"
                    THEN [handle |-> <<"!">>, suffix |-> <<>>] ELSE tag
           tagged == WriteProperties(em, e, shown)
           begun == IncreaseIndent(tagged, TRUE, FALSE)
           written == [begun EXCEPT !.out = WriteScalar(begun, e.value, style)]
           ended == DecreaseIndent(written)
<1>1. EmitScalar(em, e) = IF refused THEN Refuse(em) ELSE Pop(ended)
  BY DEF EmitScalar
<1>2. NodeAccepted(em, e) = ~refused
  BY DEF NodeAccepted
<1>3. Keeps(tagged, em)
  BY WritePropertiesKeeps
<1> HIDE DEF tagged
<1>4. Keeps(begun, tagged)
  BY <1>3, IncreaseIndentKeeps DEF Keeps
<1> HIDE DEF begun, style
<1>5. Keeps(written, begun)
  BY <1>4, OutKeeps DEF Keeps
<1> HIDE DEF written
<1>6. Keeps(ended, written)
  BY <1>5, DecreaseIndentKeeps DEF Keeps
<1> HIDE DEF ended
<1>7. Keeps(ended, em)
  BY <1>3, <1>4, <1>5, <1>6, KeepsTransitive
<1> HIDE DEF refused
<1>8. CASE refused
  <2>1. EmitScalar(em, e) = Refuse(em)
    BY <1>1, <1>8
  <2>2. ~NodeAccepted(em, e)
    BY <1>2, <1>8
  <2>3. NodeAccepted(em, e) \in BOOLEAN
    BY DEF NodeAccepted
  <2>4. QED
    BY <2>1, <2>2, <2>3, RefuseOutcome DEF NodeOutcome
<1>9. CASE ~refused
  <2>1. EmitScalar(em, e) = Pop(ended)
    BY <1>1, <1>9
  <2>2. NodeAccepted(em, e) = TRUE
    BY <1>2, <1>9 DEF NodeAccepted
  <2>3. QED
    BY <1>7, <2>1, <2>2, PopOutcome, ZenonT(40) DEF NodeOutcome, LeafWritten, Keeps
<1>10. QED
  BY <1>8, <1>9

(* The start of a collection leads to its first state.                     *)
LEMMA CollectionStartOutcome ==
    ASSUME NEW em, DOMAIN em = Fields, em.ok = TRUE, NEW e, NEW empty,
           NEW flowState, NEW blockState
    PROVE  LET new == EmitCollectionStart(em, e, empty, flowState, blockState)
           IN  /\ DOMAIN new = Fields
               /\ new.state \in {flowState, blockState} /\ new.states = em.states
               /\ new.tagDirectives = em.tagDirectives
               /\ new.ok = TRUE /\ new.problem = em.problem
<1> DEFINE written == WriteProperties(em, e, TagDataOf(em, e))
           to == IF em.flowLevel > 0 \/ e.style = "flow" \/ empty THEN flowState
                 ELSE blockState
<1>1. Keeps(written, em)
  BY WritePropertiesKeeps
<1>2. EmitCollectionStart(em, e, empty, flowState, blockState) = Goto(written, to)
  BY DEF EmitCollectionStart
<1>3. to \in {flowState, blockState}
  OBVIOUS
<1> HIDE DEF written, to
<1>4. QED
  BY <1>1, <1>2, <1>3 DEF Goto, Keeps, Fields

(* A node of any kind has one of these outcomes.                           *)
LEMMA EmitNodeOutcome ==
    ASSUME NEW em, DOMAIN em = Fields, em.ok = TRUE, NEW q, NEW context
    PROVE  NodeOutcome(EmitNode(em, q, context), em, q[1])
<1> DEFINE e == q[1]
           at == [em EXCEPT !.context = context]
           new == EmitNode(em, q, context)
<1>1. Keeps(at, em)
  BY DEF Keeps, Fields
<1>2. new = IF e.type = "ALIAS" THEN EmitAlias(at, e)
            ELSE IF e.type = "SCALAR" THEN EmitScalar(at, e)
            ELSE IF e.type = "SEQUENCE-START"
            THEN EmitCollectionStart(at, e, EmptySequence(q),
                    "FLOW-SEQUENCE-FIRST-ITEM", "BLOCK-SEQUENCE-FIRST-ITEM")
            ELSE IF e.type = "MAPPING-START"
            THEN EmitCollectionStart(at, e, EmptyMapping(q),
                    "FLOW-MAPPING-FIRST-KEY", "BLOCK-MAPPING-FIRST-KEY")
            ELSE Refuse(at)
  BY DEF EmitNode
<1> HIDE DEF at, new
<1>3. TagDataOf(at, e) = TagDataOf(em, e)
  BY <1>1 DEF TagDataOf, Keeps
<1>4. NodeAccepted(at, e) = NodeAccepted(em, e) /\ NodeAccepted(em, e) \in BOOLEAN
  BY <1>3 DEF NodeAccepted
<1>5. NodeOutcome(new, at, e)
  <2>1. CASE e.type = "ALIAS"
    BY <1>1, <1>2, <2>1, AliasOutcome DEF Keeps
  <2>2. CASE e.type = "SCALAR"
    BY <1>1, <1>2, <2>2, ScalarOutcome DEF Keeps
  <2>3. CASE e.type = "SEQUENCE-START"
    <3>1. new = EmitCollectionStart(at, e, EmptySequence(q),
                    "FLOW-SEQUENCE-FIRST-ITEM", "BLOCK-SEQUENCE-FIRST-ITEM")
      BY <1>2, <2>3
    <3>2. NodeAccepted(at, e) = TRUE
      BY <2>3 DEF NodeAccepted
    <3>3. QED
      BY <1>1, <2>3, <3>1, <3>2, CollectionStartOutcome
      DEF NodeOutcome, CollectionOpened, FirstStates, Keeps
  <2>4. CASE e.type = "MAPPING-START"
    <3>1. new = EmitCollectionStart(at, e, EmptyMapping(q),
                    "FLOW-MAPPING-FIRST-KEY", "BLOCK-MAPPING-FIRST-KEY")
      BY <1>2, <2>4
    <3>2. NodeAccepted(at, e) = TRUE
      BY <2>4 DEF NodeAccepted
    <3>3. QED
      BY <1>1, <2>4, <3>1, <3>2, CollectionStartOutcome
      DEF NodeOutcome, CollectionOpened, FirstStates, Keeps
  <2>5. CASE e.type \notin {"ALIAS", "SCALAR", "SEQUENCE-START", "MAPPING-START"}
    <3>1. new = Refuse(at)
      BY <1>2, <2>5
    <3>2. NodeAccepted(at, e) = FALSE
      BY <2>5 DEF NodeAccepted
    <3>3. QED
      BY <1>1, <3>1, <3>2, RefuseOutcome DEF NodeOutcome, Keeps
  <2>6. QED
    BY <2>1, <2>2, <2>3, <2>4, <2>5
<1>6. QED
  BY <1>1, <1>4, <1>5
  DEF NodeOutcome, LeafWritten, CollectionOpened, Keeps, new

-----------------------------------------------------------------------------
(* A node in front of which the state to return to is pushed.              *)
Opened(new, em, return, e) ==
    /\ new.states = Append(em.states, return)
    /\ \/ e.type = "SEQUENCE-START" /\ new.state \in FirstStates("sequence")
       \/ e.type = "MAPPING-START"  /\ new.state \in FirstStates("mapping")

OnlyWrites(new, em, return, e) ==
    /\ e.type \in {"ALIAS", "SCALAR"}
    /\ new.state = return /\ new.states = em.states

NodeTurn(new, em, return, e) ==
    /\ DOMAIN new = Fields
    /\ new.tagDirectives = em.tagDirectives
    /\ new.ok = NodeAccepted(em, e)
    /\ IF new.ok THEN /\ new.problem = em.problem
                      /\ em.states \in Seq(States) =>
                            OnlyWrites(new, em, return, e) \/ Opened(new, em, return, e)
                 ELSE new.problem = TRUE /\ new.state = em.state

(* The last element is the one that was appended.                          *)
LEMMA LastAppended ==
    ASSUME NEW s \in Seq(States), NEW x
    PROVE  Last(Append(s, x)) = x /\ Front(Append(s, x)) = s
<1> DEFINE t == Append(s, x)
<1>1. /\ Len(t) = Len(s) + 1 /\ Len(s) \in Nat
      /\ t[Len(s) + 1] = x /\ \A i \in 1..Len(s) : t[i] = s[i]
  OBVIOUS
<1>2. t \in Seq(States \cup {x})
  OBVIOUS
<1> HIDE DEF t
<1>3. /\ SubSeq(t, 1, Len(s)) \in Seq(States \cup {x})
      /\ Len(SubSeq(t, 1, Len(s))) = Len(s)
      /\ \A i \in 1..Len(s) : SubSeq(t, 1, Len(s))[i] = s[i]
  BY <1>1, <1>2
<1>4. SubSeq(t, 1, Len(s)) = s
  BY <1>1, <1>3
<1>5. Len(t) - 1 = Len(s)
  BY <1>1
<1>6. QED
  BY <1>1, <1>4, <1>5 DEF Last, Front, t

(* A node whose way back was pushed first: one more state below it, or     *)
(* none.                                                                   *)
LEMMA PushedNode ==
    ASSUME NEW em, NEW begun, Keeps(begun, em), em.ok = TRUE,
           NEW return, NEW q, NEW context
    PROVE  NodeTurn(EmitNode(Push(begun, return), q, context), em, return, q[1])
<1> DEFINE e == q[1]
           pushed == Push(begun, return)
           new == EmitNode(pushed, q, context)
<1>1. /\ DOMAIN pushed = Fields
      /\ pushed.state = em.state /\ pushed.states = Append(em.states, return)
      /\ pushed.tagDirectives = em.tagDirectives
      /\ pushed.ok = em.ok /\ pushed.problem = em.problem
  BY DEF Push, Keeps, Fields
<1> HIDE DEF pushed
<1>2. NodeOutcome(new, pushed, e)
  BY <1>1, EmitNodeOutcome
<1>3. TagDataOf(pushed, e) = TagDataOf(em, e)
  BY <1>1 DEF TagDataOf
<1>4. NodeAccepted(pushed, e) = NodeAccepted(em, e)
  BY <1>3 DEF NodeAccepted
<1> HIDE DEF new
<1>5. ASSUME new.ok, em.states \in Seq(States)
      PROVE  OnlyWrites(new, em, return, e) \/ Opened(new, em, return, e)
  <2>1. Last(pushed.states) = return /\ Front(pushed.states) = em.states
    BY <1>1, <1>5, LastAppended
  <2>2. LeafWritten(new, pushed, e) \/ CollectionOpened(new, pushed, e)
    BY <1>2, <1>5 DEF NodeOutcome
  <2>3. QED
    BY <1>1, <2>1, <2>2 DEF LeafWritten, CollectionOpened, OnlyWrites, Opened
<1>6. QED
  BY <1>1, <1>2, <1>4, <1>5 DEF NodeOutcome, NodeTurn, new, pushed

-----------------------------------------------------------------------------
(* One turn of the emitter's loop, for an event that the analysis accepts. *)
StartStates == {"FIRST-DOCUMENT-START", "DOCUMENT-START"}

(* The state in which the emitter goes on behind a node.                   *)
Returns(state) ==
    IF state = "DOCUMENT-CONTENT" THEN {"DOCUMENT-END"}
    ELSE IF state \in ItemStates THEN {"FLOW-SEQUENCE-ITEM", "BLOCK-SEQUENCE-ITEM"}
    ELSE IF state \in KeyStates THEN ValueStates
    ELSE {"FLOW-MAPPING-KEY", "BLOCK-MAPPING-KEY"}

NodeStates == {"DOCUMENT-CONTENT"} \cup Collections

(* The end of a collection that may end in this state.                     *)
EndsOf(state) == IF state \in ItemStates THEN {"SEQUENCE-END"}
                 ELSE IF state \in KeyStates THEN {"MAPPING-END"}
                 ELSE {}

Accepts(em, e) ==
    \/ em.state = "STREAM-START" /\ e.type = "STREAM-START"
    \/ /\ em.state \in StartStates
       /\ \/ e.type = "STREAM-END"
          \/ /\ e.type = "DOCUMENT-START"
             /\ ~(Given(e.version) /\ ~ValidVersion(ValueOf(e.version)))
             /\ Refused(em, e.directives) = {}
    \/ em.state = "DOCUMENT-END" /\ e.type = "DOCUMENT-END"
    \/ em.state \in NodeStates /\ NodeAccepted(em, e)
    \/ em.state \in Collections /\ e.type \in EndsOf(em.state)

(* What the turn does to the nesting.                                      *)
Moved(new, em, e) ==
    \/ em.state = "STREAM-START" /\ e.type = "STREAM-START"
       /\ new.state = "FIRST-DOCUMENT-START" /\ new.states = em.states
    \/ em.state \in StartStates /\ e.type = "STREAM-END"
       /\ new.state = "END" /\ new.states = em.states
    \/ em.state \in StartStates /\ e.type = "DOCUMENT-START"
       /\ new.state = "DOCUMENT-CONTENT" /\ new.states = em.states
    \/ em.state = "DOCUMENT-END" /\ e.type = "DOCUMENT-END"
       /\ new.state = "DOCUMENT-START" /\ new.states = em.states
    \/ em.state \in NodeStates
       /\ \E return \in Returns(em.state) :
             OnlyWrites(new, em, return, e) \/ Opened(new, em, return, e)
    \/ em.state \in Collections /\ e.type \in EndsOf(em.state)
       /\ new.state = Last(em.states) /\ new.states = Front(em.states)

(* The turn takes the event for what it is or gives up where it stands.    *)
TurnOutcome(new, em, e) ==
    /\ DOMAIN new = Fields
    /\ new.ok = Accepts(em, e)
    /\ IF new.ok THEN /\ new.problem = em.problem
                      /\ em.states \in Seq(States) => Moved(new, em, e)
                 ELSE new.problem = TRUE /\ new.state = em.state
    /\ em.state \notin StartStates \cup {"STREAM-START", "DOCUMENT-END"} =>
          new.tagDirectives = em.tagDirectives
    /\ em.state = "STREAM-START" => new.tagDirectives = em.tagDirectives
    /\ em.state = "DOCUMENT-END" =>
          new.tagDirectives = IF new.ok THEN <<>> ELSE em.tagDirectives

(* A turn at a node, from its outcome.                                     *)
LEMMA NodeTurnOutcome ==
    ASSUME NEW em, em.ok = TRUE, em.state \in NodeStates, NEW e, NEW new,
           em.state \in Collections => e.type \notin EndsOf(em.state),
           NEW return \in Returns(em.state), NodeTurn(new, em, return, e)
    PROVE  TurnOutcome(new, em, e)
<1>1. em.state \notin StartStates \cup {"STREAM-START", "DOCUMENT-END"}
  BY DEF NodeStates, StartStates, Collections, ItemStates, KeyStates, ValueStates
<1>2. Accepts(em, e) = NodeAccepted(em, e)
  <2>1. NodeAccepted(em, e) \in BOOLEAN
    BY DEF NodeAccepted
  <2>2. Accepts(em, e) <=> NodeAccepted(em, e)
    BY <1>1 DEF Accepts
  <2>3. Accepts(em, e) \in BOOLEAN
    BY DEF Accepts
  <2>4. QED
    BY <2>1, <2>2, <2>3
<1>3. ASSUME new.ok, em.states \in Seq(States) PROVE Moved(new, em, e)
  BY <1>3 DEF NodeTurn, Moved
<1>4. QED
  BY <1>1, <1>2, <1>3 DEF NodeTurn, TurnOutcome

(* A collection ends: the emitter returns to the state on the stack.       *)
LEMMA EndTurnOutcome ==
    ASSUME NEW em, em.ok = TRUE, em.state \in Collections, NEW e,
           e.type \in EndsOf(em.state), NEW closed, Keeps(closed, em)
    PROVE  TurnOutcome(Pop(closed), em, e)
<1>1. em.state \notin StartStates \cup {"STREAM-START", "DOCUMENT-END"}
  BY DEF StartStates, Collections, ItemStates, KeyStates, ValueStates
<1>2. Accepts(em, e) = TRUE
  BY DEF Accepts
<1>3. Moved(Pop(closed), em, e)
  BY PopOutcome DEF Moved, Keeps
<1>4. QED
  BY <1>1, <1>2, <1>3, PopOutcome DEF TurnOutcome, Keeps

-----------------------------------------------------------------------------
(* The two states that a state function is called in.                      *)
FlowItems   == {"FLOW-SEQUENCE-FIRST-ITEM", "FLOW-SEQUENCE-ITEM"}
FlowKeys    == {"FLOW-MAPPING-FIRST-KEY", "FLOW-MAPPING-KEY"}
FlowValues  == {"FLOW-MAPPING-SIMPLE-VALUE", "FLOW-MAPPING-VALUE"}
BlockItems  == {"BLOCK-SEQUENCE-FIRST-ITEM", "BLOCK-SEQUENCE-ITEM"}
BlockKeys   == {"BLOCK-MAPPING-FIRST-KEY", "BLOCK-MAPPING-KEY"}
BlockValues == {"BLOCK-MAPPING-SIMPLE-VALUE", "BLOCK-MAPPING-VALUE"}

(* The state functions, one by one.                                        *)
LEMMA StreamStartTurn ==
    ASSUME NEW em, DOMAIN em = Fields, em.ok = TRUE, em.state = "STREAM-START", NEW q
    PROVE  TurnOutcome(EmitStreamStart(em, q), em, q[1])
<1> DEFINE e == q[1]
           new == EmitStreamStart(em, q)
<1>1. Accepts(em, e) = (e.type = "STREAM-START")
  <2>1. em.state \notin NodeStates /\ em.state \notin Collections
    BY DEF NodeStates, Collections, ItemStates, KeyStates, ValueStates
  <2>2. QED
    BY <2>1 DEF Accepts, StartStates
<1>2. CASE e.type = "STREAM-START"
  <2>1. new = [em EXCEPT !.indent = -1, !.state = "FIRST-DOCUMENT-START",
                         !.out = [EmptyOutput EXCEPT !.text = em.out.text]]
    BY <1>2 DEF EmitStreamStart
  <2>2. /\ DOMAIN new = Fields /\ new.state = "FIRST-DOCUMENT-START"
        /\ new.states = em.states /\ new.tagDirectives = em.tagDirectives
        /\ new.ok = em.ok /\ new.problem = em.problem
    BY <2>1 DEF Fields
  <2> HIDE DEF new
  <2>3. Moved(new, em, e)
    BY <1>2, <2>2 DEF Moved
  <2>4. QED
    BY <1>1, <1>2, <2>2, <2>3 DEF TurnOutcome, StartStates, new
<1>3. CASE e.type # "STREAM-START"
  <2>1. new = Refuse(em)
    BY <1>3 DEF EmitStreamStart
  <2>2. Accepts(em, e) = FALSE
    BY <1>1, <1>3
  <2>3. QED
    BY <2>1, <2>2, RefuseOutcome DEF TurnOutcome, StartStates
<1>4. QED
  BY <1>2, <1>3

(* The root node of a document.                                            *)
LEMMA DocumentContentTurn ==
    ASSUME NEW em, DOMAIN em = Fields, em.ok = TRUE,
           em.state = "DOCUMENT-CONTENT", NEW q
    PROVE  TurnOutcome(EmitDocumentContent(em, q), em, q[1])
<1>1. Keeps(em, em)
  BY DEF Keeps
<1>2. NodeTurn(EmitDocumentContent(em, q), em, "DOCUMENT-END", q[1])
  BY <1>1, PushedNode DEF EmitDocumentContent
<1>3. em.state \in NodeStates /\ em.state \notin Collections
  BY DEF NodeStates, Collections, ItemStates, KeyStates, ValueStates
<1>4. "DOCUMENT-END" \in Returns(em.state)
  BY DEF Returns
<1>5. QED
  BY <1>2, <1>3, <1>4, NodeTurnOutcome

(* The end of a document.                                                  *)
LEMMA DocumentEndTurn ==
    ASSUME NEW em, DOMAIN em = Fields, em.ok = TRUE, em.state = "DOCUMENT-END", NEW q
    PROVE  TurnOutcome(EmitDocumentEnd(em, q), em, q[1])
<1> DEFINE e == q[1]
           new == EmitDocumentEnd(em, q)
           ended == NewLine(em)
           dotted == Indicator(ended, <<".", ".", ".">>, TRUE, FALSE, FALSE)
           marked == IF ~e.implicit THEN NewLine(dotted)
                     ELSE [ended EXCEPT !.out.openEnded = IF @ = 0 THEN 1 ELSE @]
           done == [marked EXCEPT !.state = "DOCUMENT-START", !.tagDirectives = <<>>]
<1>1. new = IF e.type = "DOCUMENT-END" THEN done ELSE Refuse(em)
  BY DEF EmitDocumentEnd
<1>2. Keeps(ended, em)
  BY NewLineKeeps
<1> HIDE DEF ended
<1>3. Keeps(dotted, ended)
  BY <1>2, IndicatorKeeps DEF Keeps
<1> HIDE DEF dotted
<1>4. Keeps(NewLine(dotted), dotted)
  BY <1>3, NewLineKeeps DEF Keeps
<1>5. Keeps([ended EXCEPT !.out.openEnded = IF @ = 0 THEN 1 ELSE @], ended)
  BY <1>2 DEF Keeps, Fields
<1>6. Keeps(marked, em)
  <2>1. CASE e.implicit
    BY <1>2, <1>5, <2>1, KeepsTransitive
  <2>2. CASE ~e.implicit
    <3>1. Keeps(NewLine(dotted), ended)
      BY <1>3, <1>4, KeepsTransitive
    <3>2. QED
      BY <1>2, <2>2, <3>1, KeepsTransitive
  <2>3. QED
    BY <2>1, <2>2
<1> HIDE DEF marked
<1>7. /\ DOMAIN done = Fields /\ done.state = "DOCUMENT-START"
      /\ done.states = em.states /\ done.tagDirectives = <<>>
      /\ done.ok = em.ok /\ done.problem = em.problem
  BY <1>6 DEF Keeps, Fields
<1> HIDE DEF done
<1>8. em.state \notin NodeStates /\ em.state \notin Collections /\ em.state \notin StartStates
  BY DEF NodeStates, Collections, ItemStates, KeyStates, ValueStates, StartStates
<1>9. Accepts(em, e) = (e.type = "DOCUMENT-END")
  BY <1>8 DEF Accepts
<1> HIDE DEF new
<1>10. CASE e.type = "DOCUMENT-END"
  <2>1. new = done /\ Accepts(em, e) = TRUE
    BY <1>1, <1>9, <1>10
  <2>2. Moved(new, em, e)
    BY <1>7, <1>10, <2>1 DEF Moved
  <2>3. QED
    BY <1>7, <2>1, <2>2 DEF TurnOutcome, new
<1>11. CASE e.type # "DOCUMENT-END"
  <2>1. new = Refuse(em) /\ Accepts(em, e) = FALSE
    BY <1>1, <1>9, <1>11
  <2>2. QED
    BY <2>1, RefuseOutcome DEF TurnOutcome, new
<1>12. QED
  BY <1>10, <1>11

(* The end of a flow collection.                                           *)
LEMMA CloseFlowTurn ==
    ASSUME NEW em, em.ok = TRUE, em.state \in Collections, NEW e,
           e.type \in EndsOf(em.state), NEW begun, Keeps(begun, em), NEW bracket
    PROVE  TurnOutcome(CloseFlow(begun, bracket), em, e)
<1> DEFINE outer == DecreaseIndent(begun)
           counted == [outer EXCEPT !.flowLevel = @ - 1]
           closed == Indicator(counted, <<bracket>>, FALSE, FALSE, FALSE)
<1>1. Keeps(outer, begun)
  BY DecreaseIndentKeeps DEF Keeps
<1> HIDE DEF outer
<1>2. Keeps(counted, outer)
  BY <1>1 DEF Keeps, Fields
<1> HIDE DEF counted
<1>3. Keeps(closed, counted)
  BY <1>2, IndicatorKeeps DEF Keeps
<1> HIDE DEF closed
<1>4. Keeps(closed, em)
  BY <1>1, <1>2, <1>3, KeepsTransitive
<1>5. TurnOutcome(Pop(closed), em, e)
  BY <1>4, EndTurnOutcome
<1>6. QED
  BY <1>5 DEF CloseFlow, closed, counted, outer

(* An item of a flow sequence, or its end.                                 *)
LEMMA FlowSequenceItemTurn ==
    ASSUME NEW em, DOMAIN em = Fields, em.ok = TRUE, NEW first, NEW q,
           em.state \in FlowItems
    PROVE  TurnOutcome(EmitFlowSequenceItem(em, q, first), em, q[1])
<1> DEFINE e == q[1]
           begun == IF first THEN OpenFlow(em, "[") ELSE em
           behind == Comma(begun, first)
           return == "FLOW-SEQUENCE-ITEM"
<1>1. EmitFlowSequenceItem(em, q, first) =
        IF e.type = "SEQUENCE-END" THEN CloseFlow(begun, "]")
        ELSE EmitNode(Push(behind, return), q, "sequence")
  BY DEF EmitFlowSequenceItem
<1>2. Keeps(begun, em)
  <2>1. Keeps(em, em)
    BY DEF Keeps
  <2>2. QED
    BY <2>1, OpenFlowKeeps
<1> HIDE DEF begun
<1>3. Keeps(behind, begun)
  BY <1>2, CommaKeeps DEF Keeps
<1> HIDE DEF behind
<1>4. Keeps(behind, em)
  BY <1>2, <1>3, KeepsTransitive
<1>5. /\ em.state \in Collections /\ em.state \in NodeStates
      /\ EndsOf(em.state) = {"SEQUENCE-END"} /\ return \in Returns(em.state)
  BY DEF FlowItems, NodeStates, Collections, ItemStates, EndsOf, Returns
<1>6. CASE e.type = "SEQUENCE-END"
  BY <1>1, <1>2, <1>5, <1>6, CloseFlowTurn
<1>7. CASE e.type # "SEQUENCE-END"
  BY <1>1, <1>4, <1>5, <1>7, PushedNode, NodeTurnOutcome
<1>8. QED
  BY <1>6, <1>7

(* A key of a flow mapping, or its end.                                    *)
LEMMA FlowMappingKeyTurn ==
    ASSUME NEW em, DOMAIN em = Fields, em.ok = TRUE, NEW first, NEW q,
           em.state \in FlowKeys
    PROVE  TurnOutcome(EmitFlowMappingKey(em, q, first), em, q[1])
<1> DEFINE e == q[1]
           begun == IF first THEN OpenFlow(em, "{") ELSE em
           behind == Comma(begun, first)
           simple == SimpleKey(behind, q)
           marked == Indicator(behind, <<"?">>, TRUE, FALSE, FALSE)
<1>1. EmitFlowMappingKey(em, q, first) =
        IF e.type = "MAPPING-END" THEN CloseFlow(begun, "}")
        ELSE IF simple
        THEN EmitNode(Push(behind, "FLOW-MAPPING-SIMPLE-VALUE"), q, "simple_key")
        ELSE EmitNode(Push(marked, "FLOW-MAPPING-VALUE"), q, "mapping")
  BY DEF EmitFlowMappingKey
<1>2. Keeps(begun, em)
  <2>1. Keeps(em, em)
    BY DEF Keeps
  <2>2. QED
    BY <2>1, OpenFlowKeeps
<1> HIDE DEF begun
<1>3. Keeps(behind, begun)
  BY <1>2, CommaKeeps DEF Keeps
<1> HIDE DEF behind, simple
<1>4. Keeps(behind, em)
  BY <1>2, <1>3, KeepsTransitive
<1>5. Keeps(marked, behind)
  BY <1>4, IndicatorKeeps DEF Keeps
<1> HIDE DEF marked
<1>6. Keeps(marked, em)
  BY <1>4, <1>5, KeepsTransitive
<1>7. /\ em.state \in Collections /\ em.state \in NodeStates
      /\ EndsOf(em.state) = {"MAPPING-END"}
      /\ "FLOW-MAPPING-SIMPLE-VALUE" \in Returns(em.state)
      /\ "FLOW-MAPPING-VALUE" \in Returns(em.state)
  BY DEF FlowKeys, NodeStates, Collections, ItemStates, KeyStates, ValueStates, EndsOf, Returns
<1>8. CASE e.type = "MAPPING-END"
  BY <1>1, <1>2, <1>7, <1>8, CloseFlowTurn
<1>9. CASE e.type # "MAPPING-END" /\ simple
  BY <1>1, <1>4, <1>7, <1>9, PushedNode, NodeTurnOutcome
<1>10. CASE e.type # "MAPPING-END" /\ ~simple
  BY <1>1, <1>6, <1>7, <1>10, PushedNode, NodeTurnOutcome
<1>11. QED
  BY <1>8, <1>9, <1>10

(* A value of a flow mapping.                                              *)
LEMMA FlowMappingValueTurn ==
    ASSUME NEW em, DOMAIN em = Fields, em.ok = TRUE, NEW simple, NEW q,
           em.state \in FlowValues
    PROVE  TurnOutcome(EmitFlowMappingValue(em, q, simple), em, q[1])
<1> DEFINE line == NewLineIfLong(em)
           marked == IF simple THEN Indicator(em, <<":">>, FALSE, FALSE, FALSE)
                     ELSE Indicator(line, <<":">>, TRUE, FALSE, FALSE)
<1>1. EmitFlowMappingValue(em, q, simple) =
        EmitNode(Push(marked, "FLOW-MAPPING-KEY"), q, "mapping")
  BY DEF EmitFlowMappingValue
<1>2. Keeps(line, em)
  BY NewLineKeeps
<1> HIDE DEF line
<1>3. Keeps(Indicator(line, <<":">>, TRUE, FALSE, FALSE), em)
  BY <1>2, IndicatorKeeps, KeepsTransitive DEF Keeps
<1>4. Keeps(marked, em)
  BY <1>3, IndicatorKeeps
<1> HIDE DEF marked
<1>5. /\ em.state \in NodeStates /\ EndsOf(em.state) = {}
      /\ "FLOW-MAPPING-KEY" \in Returns(em.state)
  BY DEF FlowValues, NodeStates, Collections, ItemStates, KeyStates, ValueStates, EndsOf, Returns
<1>6. NodeTurn(EmitFlowMappingValue(em, q, simple), em, "FLOW-MAPPING-KEY", q[1])
  BY <1>1, <1>4, PushedNode
<1>7. QED
  BY <1>5, <1>6, NodeTurnOutcome

(* An item of a block sequence, or its end.                                *)
LEMMA BlockSequenceItemTurn ==
    ASSUME NEW em, DOMAIN em = Fields, em.ok = TRUE, NEW first, NEW q,
           em.state \in BlockItems
    PROVE  TurnOutcome(EmitBlockSequenceItem(em, q, first), em, q[1])
<1> DEFINE e == q[1]
           indentless == /\ em.context \in {"mapping", "simple_key"}
                         /\ ~IndentMappingSequence /\ ~em.out.indention
           begun == IF first THEN IncreaseIndent(em, FALSE, indentless) ELSE em
           line == NewLine(begun)
           marked == Indicator(line, <<"-">>, TRUE, FALSE, TRUE)
           ended == DecreaseIndent(begun)
           return == "BLOCK-SEQUENCE-ITEM"
<1>1. EmitBlockSequenceItem(em, q, first) =
        IF e.type = "SEQUENCE-END" THEN Pop(ended)
        ELSE EmitNode(Push(marked, return), q, "sequence")
  BY DEF EmitBlockSequenceItem
<1>2. Keeps(begun, em)
  <2>1. Keeps(em, em)
    BY DEF Keeps
  <2>2. QED
    BY <2>1, IncreaseIndentKeeps
<1> HIDE DEF begun
<1>3. Keeps(line, em) /\ Keeps(ended, em)
  BY <1>2, NewLineKeeps, DecreaseIndentKeeps, KeepsTransitive DEF Keeps
<1> HIDE DEF line, ended
<1>4. Keeps(marked, em)
  BY <1>3, IndicatorKeeps, KeepsTransitive DEF Keeps
<1> HIDE DEF marked
<1>5. /\ em.state \in Collections /\ em.state \in NodeStates
      /\ EndsOf(em.state) = {"SEQUENCE-END"} /\ return \in Returns(em.state)
  BY DEF BlockItems, NodeStates, Collections, ItemStates, EndsOf, Returns
<1>6. CASE e.type = "SEQUENCE-END"
  BY <1>1, <1>3, <1>5, <1>6, EndTurnOutcome
<1>7. CASE e.type # "SEQUENCE-END"
  BY <1>1, <1>4, <1>5, <1>7, PushedNode, NodeTurnOutcome
<1>8. QED
  BY <1>6, <1>7

(* A key of a block mapping, or its end.                                   *)
LEMMA BlockMappingKeyTurn ==
    ASSUME NEW em, DOMAIN em = Fields, em.ok = TRUE, NEW first, NEW q,
           em.state \in BlockKeys
    PROVE  TurnOutcome(EmitBlockMappingKey(em, q, first), em, q[1])
<1> DEFINE e == q[1]
           begun == IF first THEN IncreaseIndent(em, FALSE, FALSE) ELSE em
           line == NewLine(begun)
           simple == SimpleKey(line, q)
           marked == Indicator(line, <<"?">>, TRUE, FALSE, TRUE)
           ended == DecreaseIndent(begun)
<1>1. EmitBlockMappingKey(em, q, first) =
        IF e.type = "MAPPING-END" THEN Pop(ended)
        ELSE IF simple
        THEN EmitNode(Push(line, "BLOCK-MAPPING-SIMPLE-VALUE"), q, "simple_key")
        ELSE EmitNode(Push(marked, "BLOCK-MAPPING-VALUE"), q, "mapping")
  BY DEF EmitBlockMappingKey
<1>2. Keeps(begun, em)
  <2>1. Keeps(em, em)
    BY DEF Keeps
  <2>2. QED
    BY <2>1, IncreaseIndentKeeps
<1> HIDE DEF begun
<1>3. Keeps(line, em) /\ Keeps(ended, em)
  BY <1>2, NewLineKeeps, DecreaseIndentKeeps, KeepsTransitive DEF Keeps
<1> HIDE DEF line, ended, simple
<1>4. Keeps(marked, em)
  BY <1>3, IndicatorKeeps, KeepsTransitive DEF Keeps
<1> HIDE DEF marked
<1>5. /\ em.state \in Collections /\ em.state \in NodeStates
      /\ EndsOf(em.state) = {"MAPPING-END"}
      /\ "BLOCK-MAPPING-SIMPLE-VALUE" \in Returns(em.state)
      /\ "BLOCK-MAPPING-VALUE" \in Returns(em.state)
  BY DEF BlockKeys, NodeStates, Collections, ItemStates, KeyStates, ValueStates, EndsOf, Returns
<1>6. CASE e.type = "MAPPING-END"
  BY <1>1, <1>3, <1>5, <1>6, EndTurnOutcome
<1>7. CASE e.type # "MAPPING-END" /\ simple
  BY <1>1, <1>3, <1>5, <1>7, PushedNode, NodeTurnOutcome
<1>8. CASE e.type # "MAPPING-END" /\ ~simple
  BY <1>1, <1>4, <1>5, <1>8, PushedNode, NodeTurnOutcome
<1>9. QED
  BY <1>6, <1>7, <1>8

(* A value of a block mapping.                                             *)
LEMMA BlockMappingValueTurn ==
    ASSUME NEW em, DOMAIN em = Fields, em.ok = TRUE, NEW simple, NEW q,
           em.state \in BlockValues
    PROVE  TurnOutcome(EmitBlockMappingValue(em, q, simple), em, q[1])
<1> DEFINE line == NewLine(em)
           marked == IF simple THEN Indicator(em, <<":">>, FALSE, FALSE, FALSE)
                     ELSE Indicator(line, <<":">>, TRUE, FALSE, TRUE)
<1>1. EmitBlockMappingValue(em, q, simple) =
        EmitNode(Push(marked, "BLOCK-MAPPING-KEY"), q, "mapping")
  BY DEF EmitBlockMappingValue
<1>2. Keeps(line, em)
  BY NewLineKeeps
<1> HIDE DEF line
<1>3. Keeps(Indicator(line, <<":">>, TRUE, FALSE, TRUE), em)
  BY <1>2, IndicatorKeeps, KeepsTransitive DEF Keeps
<1>4. Keeps(marked, em)
  BY <1>3, IndicatorKeeps
<1> HIDE DEF marked
<1>5. /\ em.state \in NodeStates /\ EndsOf(em.state) = {}
      /\ "BLOCK-MAPPING-KEY" \in Returns(em.state)
  BY DEF BlockValues, NodeStates, Collections, ItemStates, KeyStates, ValueStates, EndsOf, Returns
<1>6. NodeTurn(EmitBlockMappingValue(em, q, simple), em, "BLOCK-MAPPING-KEY", q[1])
  BY <1>1, <1>4, PushedNode
<1>7. QED
  BY <1>5, <1>6, NodeTurnOutcome

-----------------------------------------------------------------------------
(* The start of a document.  A tag directive that was refused is refused   *)
(* again, and so is, after the second attempt, the first one.              *)
AllDirectives == TagDirectives \cup {PrimaryDefault, SecondaryDefault}

DocumentStartOutcome(new, em, e) ==
    em.state \in StartStates =>
        /\ new.tagDirectives \in Seq(AllDirectives)
        /\ ~new.ok => new.tagDirectives \in Seq(TagDirectives) /\ ~Accepts(new, e)

(* The directives of the caller are among all of them.                     *)
LEMMA DirectivesAreAmong == \A ds \in Seq(TagDirectives) : ds \in Seq(AllDirectives)
BY DEF AllDirectives

(* A default leaves everything but the directives alone.                   *)
LEMMA DefaultAdded ==
    ASSUME NEW em, DOMAIN em = Fields, em.tagDirectives \in Seq(AllDirectives),
           NEW d \in AllDirectives
    PROVE  LET new == WithDefault(em, d)
           IN  /\ DOMAIN new = Fields /\ new.states = em.states
               /\ new.ok = em.ok /\ new.problem = em.problem
               /\ new.tagDirectives \in Seq(AllDirectives)
<1> DEFINE added == [em EXCEPT !.tagDirectives = Append(@, d)]
<1>1. /\ DOMAIN added = Fields /\ added.states = em.states
      /\ added.ok = em.ok /\ added.problem = em.problem
      /\ added.tagDirectives = Append(em.tagDirectives, d)
  BY DEF Fields
<1>2. Append(em.tagDirectives, d) \in Seq(AllDirectives)
  OBVIOUS
<1> HIDE DEF added
<1>3. WithDefault(em, d) = IF HandleTaken(em, d) THEN em ELSE added
  BY DEF WithDefault, added
<1>4. QED
  BY <1>1, <1>2, <1>3

(* When a tag directive is refused, there is a first one that is.          *)
LEMMA LeastRefused ==
    ASSUME NEW em, NEW ds \in Seq(TagDirectives), Refused(em, ds) # {}
    PROVE  /\ Min(Refused(em, ds)) \in Refused(em, ds)
           /\ Min(Refused(em, ds)) \in DOMAIN ds
<1>1. Refused(em, ds) \subseteq DOMAIN ds
  BY DEF Refused
<1>2. DOMAIN ds \subseteq Nat
  OBVIOUS
<1>3. PICK i \in Refused(em, ds) : \A j \in Refused(em, ds) : i <= j
  BY <1>1, <1>2, LeastExists
<1>4. Min(Refused(em, ds)) \in Refused(em, ds)
  BY <1>3 DEF Min
<1>5. QED
  BY <1>1, <1>4

(* With the directives in front of it taken, it is still refused.          *)
LEMMA RefusedAgain ==
    ASSUME NEW em, em.tagDirectives \in Seq(TagDirectives),
           NEW ds \in Seq(TagDirectives), Refused(em, ds) # {}, NEW new,
           new.tagDirectives = em.tagDirectives \o SubSeq(ds, 1, Min(Refused(em, ds)) - 1)
    PROVE  /\ new.tagDirectives \in Seq(TagDirectives)
           /\ Refused(new, ds) # {}
<1> DEFINE m == Min(Refused(em, ds))
           t == em.tagDirectives
           added == SubSeq(ds, 1, m - 1)
<1>1. m \in Refused(em, ds) /\ m \in DOMAIN ds
  BY LeastRefused
<1> HIDE DEF m
<1>2. m \in 1..Len(ds) /\ Len(ds) \in Nat /\ 1 \in DOMAIN ds
  BY <1>1
<1>3. added \in Seq(TagDirectives) /\ Len(added) = m - 1
      /\ \A i \in 1..(m - 1) : added[i] = ds[i]
  BY <1>2
<1> HIDE DEF added
<1>4. /\ new.tagDirectives \in Seq(TagDirectives)
      /\ Len(new.tagDirectives) = Len(t) + (m - 1)
      /\ \A i \in 1..Len(t) : new.tagDirectives[i] = t[i]
      /\ \A i \in 1..(m - 1) : new.tagDirectives[Len(t) + i] = added[i]
  <2>1. new.tagDirectives = t \o added
    BY DEF m, added
  <2>2. t \in Seq(TagDirectives)
    OBVIOUS
  <2> HIDE DEF t
  <2>3. /\ t \o added \in Seq(TagDirectives)
        /\ Len(t \o added) = Len(t) + Len(added)
        /\ \A i \in 1..Len(t) : (t \o added)[i] = t[i]
        /\ \A i \in 1..Len(added) : (t \o added)[Len(t) + i] = added[i]
    BY <1>3, <2>2, Concatenation
  <2>4. QED
    BY <1>2, <1>3, <2>1, <2>3
<1>5. Len(t) \in Nat /\ DOMAIN t = 1..Len(t)
      /\ DOMAIN new.tagDirectives = 1..(Len(t) + (m - 1))
  <2>1. Len(t) \in Nat /\ DOMAIN t = 1..Len(t)
    OBVIOUS
  <2>2. DOMAIN new.tagDirectives = 1..Len(new.tagDirectives)
    BY <1>4
  <2>3. QED
    BY <1>4, <2>1, <2>2, Zenon
<1>6. 1 \in Refused(new, ds)
  <2>1. CASE m = 1
    <3>1. ~ValidDirective(ds[1]) \/ HandleTaken(em, ds[1])
      BY <1>1, <2>1 DEF Refused
    <3>2. HandleTaken(em, ds[1]) => HandleTaken(new, ds[1])
      <4>1. \A i \in DOMAIN t : i \in DOMAIN new.tagDirectives /\ new.tagDirectives[i] = t[i]
        BY <1>4, <1>5, <2>1
      <4>2. QED
        BY <4>1 DEF HandleTaken
    <3>3. QED
      BY <1>2, <3>1, <3>2 DEF Refused
  <2>2. CASE m # 1
    <3>1. /\ Len(t) + 1 \in DOMAIN new.tagDirectives
          /\ new.tagDirectives[Len(t) + 1] = ds[1]
      <4>1. 1 \in 1..(m - 1)
        BY <1>2, <2>2
      <4>2. QED
        BY <1>3, <1>4, <1>5, <4>1
    <3>2. HandleTaken(new, ds[1])
      BY <3>1 DEF HandleTaken
    <3>3. QED
      BY <1>2, <3>2 DEF Refused
  <2>3. QED
    BY <2>1, <2>2
<1>7. QED
  BY <1>4, <1>6

(* The directives of a document leave the states alone.                    *)
LEMMA AppendDirectivesOutcome ==
    ASSUME NEW em, DOMAIN em = Fields, em.ok = TRUE, NEW ds
    PROVE  LET new == AppendDirectives(em, ds)
           IN  /\ DOMAIN new = Fields /\ new.state = em.state
               /\ new.states = em.states
               /\ Refused(em, ds) = {} =>
                     /\ new.ok = TRUE /\ new.problem = em.problem
                     /\ new.tagDirectives = em.tagDirectives \o ds
               /\ Refused(em, ds) # {} =>
                     /\ new.ok = FALSE /\ new.problem = TRUE
                     /\ new.tagDirectives = em.tagDirectives
                           \o SubSeq(ds, 1, Min(Refused(em, ds)) - 1)
<1>1. CASE Refused(em, ds) = {}
  BY <1>1 DEF AppendDirectives, Fields
<1>2. CASE Refused(em, ds) # {}
  <2> DEFINE added == [em EXCEPT !.tagDirectives =
                          @ \o SubSeq(ds, 1, Min(Refused(em, ds)) - 1)]
  <2>1. AppendDirectives(em, ds) = Refuse(added)
    BY <1>2 DEF AppendDirectives
  <2>2. /\ DOMAIN added = Fields /\ added.state = em.state /\ added.states = em.states
        /\ added.tagDirectives = em.tagDirectives
              \o SubSeq(ds, 1, Min(Refused(em, ds)) - 1)
    BY DEF Fields
  <2> HIDE DEF added
  <2>3. Refuse(added).states = added.states
    BY <2>2 DEF Refuse, Fields
  <2>4. QED
    BY <1>2, <2>1, <2>2, <2>3, RefuseOutcome
<1>3. QED
  BY <1>1, <1>2

(* The start of a document leads to its content.                           *)
LEMMA DocumentStarted ==
    ASSUME NEW em, DOMAIN em = Fields, em.ok = TRUE, NEW e, NEW first,
           em.tagDirectives \in Seq(AllDirectives)
    PROVE  LET new == WriteDocumentStart(AppendDefaults(em), e, first)
           IN  /\ DOMAIN new = Fields /\ new.state = "DOCUMENT-CONTENT"
               /\ new.states = em.states /\ new.ok = TRUE /\ new.problem = em.problem
               /\ new.tagDirectives \in Seq(AllDirectives)
<1> DEFINE defaults == AppendDefaults(em)
           new == WriteDocumentStart(defaults, e, first)
<1>1. /\ DOMAIN defaults = Fields /\ defaults.states = em.states
      /\ defaults.ok = TRUE /\ defaults.problem = em.problem
      /\ defaults.tagDirectives \in Seq(AllDirectives)
  <2> DEFINE one == WithDefault(em, PrimaryDefault)
  <2>1. PrimaryDefault \in AllDirectives /\ SecondaryDefault \in AllDirectives
    BY DEF AllDirectives
  <2>2. /\ DOMAIN one = Fields /\ one.states = em.states
        /\ one.ok = em.ok /\ one.problem = em.problem
        /\ one.tagDirectives \in Seq(AllDirectives)
    BY <2>1, DefaultAdded
  <2> HIDE DEF one
  <2>3. defaults = WithDefault(one, SecondaryDefault)
    BY DEF AppendDefaults, one
  <2> HIDE DEF defaults
  <2>4. QED
    BY <2>1, <2>2, <2>3, DefaultAdded
<1> HIDE DEF defaults
<1>2. PICK out : new = [defaults EXCEPT !.state = "DOCUMENT-CONTENT", !.out = out]
  BY DEF WriteDocumentStart
<1> HIDE DEF new
<1>3. QED
  BY <1>1, <1>2 DEF Fields, new, defaults

(* The end of the stream leads to the last state.                          *)
LEMMA StreamEnded ==
    ASSUME NEW em, DOMAIN em = Fields
    PROVE  LET new == WriteStreamEnd(em)
           IN  /\ DOMAIN new = Fields /\ new.state = "END"
               /\ new.states = em.states /\ new.ok = em.ok /\ new.problem = em.problem
               /\ new.tagDirectives = em.tagDirectives
<1> DEFINE new == WriteStreamEnd(em)
<1>1. PICK out : new = [em EXCEPT !.state = "END", !.out = out]
  BY DEF WriteStreamEnd
<1> HIDE DEF new
<1>2. QED
  BY <1>1 DEF Fields, new

(* The start of a document, or the end of the stream.                      *)
LEMMA DocumentStartTurn ==
    ASSUME NEW em, DOMAIN em = Fields, em.ok = TRUE, NEW first, NEW q,
           em.state \in StartStates, em.tagDirectives \in Seq(TagDirectives),
           q[1].type = "DOCUMENT-START" => q[1].directives \in Seq(TagDirectives)
    PROVE  LET new == EmitDocumentStart(em, q, first)
           IN  TurnOutcome(new, em, q[1]) /\ DocumentStartOutcome(new, em, q[1])
<1> DEFINE e == q[1]
           new == EmitDocumentStart(em, q, first)
           declared == AppendDirectives(em, e.directives)
           foreign == \/ e.type # "DOCUMENT-START"
                      \/ Given(e.version) /\ ~ValidVersion(ValueOf(e.version))
<1>1. new = IF e.type = "STREAM-END" THEN WriteStreamEnd(em)
            ELSE IF foreign THEN Refuse(em)
            ELSE IF ~declared.ok THEN declared
            ELSE WriteDocumentStart(AppendDefaults(declared), e, first)
  BY DEF EmitDocumentStart
<1>2. /\ em.state \notin NodeStates /\ em.state \notin Collections
      /\ em.state # "STREAM-START" /\ em.state # "DOCUMENT-END"
  BY DEF NodeStates, Collections, ItemStates, KeyStates, ValueStates, StartStates
<1>3. /\ Accepts(em, e) \in BOOLEAN
      /\ Accepts(em, e) <=> \/ e.type = "STREAM-END"
                            \/ ~foreign /\ Refused(em, e.directives) = {}
  <2>1. Accepts(em, e) <=> \/ e.type = "STREAM-END"
                           \/ /\ e.type = "DOCUMENT-START"
                              /\ ~(Given(e.version) /\ ~ValidVersion(ValueOf(e.version)))
                              /\ Refused(em, e.directives) = {}
    BY <1>2, Zenon DEF Accepts
  <2>2. Accepts(em, e) \in BOOLEAN
    BY DEF Accepts
  <2>3. QED
    BY <2>1, <2>2
<1> DEFINE D == /\ DOMAIN declared = Fields /\ declared.state = em.state
                /\ declared.states = em.states
                /\ Refused(em, e.directives) = {} =>
                      /\ declared.ok = TRUE /\ declared.problem = em.problem
                      /\ declared.tagDirectives = em.tagDirectives \o e.directives
                /\ Refused(em, e.directives) # {} =>
                      /\ declared.ok = FALSE /\ declared.problem = TRUE
                      /\ declared.tagDirectives = em.tagDirectives
                           \o SubSeq(e.directives, 1, Min(Refused(em, e.directives)) - 1)
<1>4. D
  BY AppendDirectivesOutcome
<1> HIDE DEF new, declared
<1>5. CASE e.type = "STREAM-END"
  <2>1. new = WriteStreamEnd(em)
    BY <1>1, <1>5
  <2>2. Accepts(em, e) = TRUE
    BY <1>3, <1>5
  <2>3. /\ DOMAIN new = Fields /\ new.state = "END" /\ new.states = em.states
        /\ new.ok = TRUE /\ new.problem = em.problem
        /\ new.tagDirectives = em.tagDirectives
    BY <2>1, StreamEnded
  <2>4. Moved(new, em, e)
    BY <1>5, <2>3 DEF Moved
  <2>5. QED
    BY <1>2, <2>2, <2>3, <2>4, DirectivesAreAmong DEF TurnOutcome, DocumentStartOutcome, new
<1>6. CASE e.type # "STREAM-END" /\ foreign
  <2>1. new = Refuse(em)
    BY <1>1, <1>6
  <2>2. Accepts(em, e) = FALSE
    BY <1>3, <1>6
  <2>3. /\ DOMAIN new = Fields /\ new.ok = FALSE /\ new.problem = TRUE
        /\ new.state = em.state /\ new.tagDirectives = em.tagDirectives
    BY <2>1, RefuseOutcome
  <2>4. ~Accepts(new, e)
    BY <1>2, <1>6, <2>3 DEF Accepts
  <2>5. QED
    BY <1>2, <2>2, <2>3, <2>4, DirectivesAreAmong DEF TurnOutcome, DocumentStartOutcome, new
<1>7. CASE e.type # "STREAM-END" /\ ~foreign /\ Refused(em, e.directives) # {}
  <2>1. new = declared
    BY <1>1, <1>4, <1>7
  <2>2. Accepts(em, e) = FALSE
    BY <1>3, <1>7
  <2>3. /\ new.tagDirectives \in Seq(TagDirectives)
        /\ Refused(new, e.directives) # {}
    BY <1>4, <1>7, <2>1, RefusedAgain
  <2>4. ~Accepts(new, e)
    BY <1>2, <1>4, <1>7, <2>1, <2>3 DEF Accepts
  <2>5. QED
    BY <1>2, <1>4, <1>7, <2>1, <2>2, <2>3, <2>4, DirectivesAreAmong DEF TurnOutcome, DocumentStartOutcome, new
<1>8. CASE e.type # "STREAM-END" /\ ~foreign /\ Refused(em, e.directives) = {}
  <2>1. new = WriteDocumentStart(AppendDefaults(declared), e, first)
    BY <1>1, <1>4, <1>8
  <2>2. Accepts(em, e) = TRUE
    BY <1>3, <1>8
  <2>3. /\ DOMAIN new = Fields /\ new.state = "DOCUMENT-CONTENT"
        /\ new.states = em.states /\ new.ok = TRUE /\ new.problem = em.problem
        /\ new.tagDirectives \in Seq(AllDirectives)
    <3>1. em.tagDirectives \o e.directives \in Seq(TagDirectives)
      BY <1>8
    <3>2. declared.tagDirectives \in Seq(AllDirectives)
      BY <1>4, <1>8, <3>1, DirectivesAreAmong
    <3>3. QED
      BY <1>4, <1>8, <2>1, <3>2, DocumentStarted
  <2>4. e.type = "DOCUMENT-START"
    BY <1>8
  <2>5. Moved(new, em, e)
    BY <2>3, <2>4 DEF Moved
  <2>6. QED
    BY <1>2, <2>2, <2>3, <2>5 DEF TurnOutcome, DocumentStartOutcome, new
<1>9. QED
  BY <1>5, <1>6, <1>7, <1>8 DEF new

-----------------------------------------------------------------------------
(* The nesting that the stack of states stands for, and what a turn does   *)
(* to it.                                                                  *)
Frame(kind) == [kind |-> kind, odd |-> FALSE]
AllFrames == [kind : {"sequence", "mapping"}, odd : BOOLEAN]

CountedOf(open) ==
    IF open = <<>> THEN open
    ELSE [open EXCEPT ![Len(open)].odd =
             open[Len(open)].kind = "mapping" /\ ~open[Len(open)].odd]

PhaseOf(em) ==
    IF em.problem THEN "failed"
    ELSE IF em.state = "STREAM-START" THEN "start"
    ELSE IF em.state \in {"FIRST-DOCUMENT-START", "DOCUMENT-START"} THEN "stream"
    ELSE IF em.state = "DOCUMENT-END" THEN "root"
    ELSE IF em.state = "END" THEN "end"
    ELSE "document"

OpenOf(em) ==
    [i \in 1..(IF em.state \in Collections THEN Len(em.states) ELSE 0) |->
        FrameOf(IF i < Len(em.states) THEN em.states[i + 1] ELSE em.state)]

Structured(em) ==
    /\ em.state \in States
    /\ em.states \in Seq(States)
    /\ IF em.state \in Collections
       THEN /\ em.states # <<>> /\ em.states[1] = "DOCUMENT-END"
            /\ \A i \in 2..Len(em.states) : em.states[i] \in Behind
       ELSE em.states = <<>>

(* The steps of EventGrammar between two nestings.                         *)
Produced(event, p, p2, o, o2) ==
    \/ event = "STREAM-START" /\ p = "start" /\ p2 = "stream" /\ o2 = o
    \/ event = "DOCUMENT-START" /\ p = "stream" /\ p2 = "document" /\ o2 = o
    \/ event \in {"ALIAS", "SCALAR"} /\ p = "document" /\ o2 = CountedOf(o)
       /\ p2 = IF o = <<>> THEN "root" ELSE p
    \/ event = "SEQUENCE-START" /\ p = "document" /\ p2 = p
       /\ o2 = Append(CountedOf(o), Frame("sequence"))
    \/ event = "MAPPING-START" /\ p = "document" /\ p2 = p
       /\ o2 = Append(CountedOf(o), Frame("mapping"))
    \/ \E kind \in {"sequence", "mapping"} :
          /\ event = IF kind = "sequence" THEN "SEQUENCE-END" ELSE "MAPPING-END"
          /\ p = "document" /\ o # <<>>
          /\ o[Len(o)].kind = kind /\ ~o[Len(o)].odd
          /\ o2 = SubSeq(o, 1, Len(o) - 1)
          /\ p2 = IF Len(o) = 1 THEN "root" ELSE p
    \/ event = "DOCUMENT-END" /\ p = "root" /\ p2 = "stream" /\ o2 = o
    \/ event = "STREAM-END" /\ p = "stream" /\ p2 = "end" /\ o2 = o

(* Sequences with the same elements are the same.                          *)
LEMMA SameSequence ==
    ASSUME NEW S, NEW s \in Seq(S), NEW t \in Seq(S), Len(s) = Len(t),
           \A i \in 1..Len(s) : s[i] = t[i]
    PROVE  s = t
OBVIOUS

(* Every state stands for a frame of the grammar.                          *)
LEMMA FramesAreFrames == \A s : FrameOf(s) \in AllFrames
<1>1. \A s : (s \in ValueStates) \in BOOLEAN
  OBVIOUS
<1>2. QED
  BY <1>1 DEF FrameOf, AllFrames

(* Outside a document no collection is open.                               *)
LEMMA OpenOutside ==
    ASSUME NEW em, em.state \notin Collections
    PROVE  OpenOf(em) = <<>>
<1>1. OpenOf(em) = [i \in 1..0 |->
          FrameOf(IF i < Len(em.states) THEN em.states[i + 1] ELSE em.state)]
  BY DEF OpenOf
<1>2. QED
  BY <1>1

(* In a document the open collections are those of the stack and the state.*)
LEMMA OpenInside ==
    ASSUME NEW em, Structured(em), em.state \in Collections
    PROVE  /\ Len(em.states) \in Nat \ {0}
           /\ OpenOf(em) \in Seq(AllFrames) /\ Len(OpenOf(em)) = Len(em.states)
           /\ OpenOf(em) # <<>>
           /\ OpenOf(em)[Len(em.states)] = FrameOf(em.state)
           /\ \A i \in 1..(Len(em.states) - 1) : OpenOf(em)[i] = FrameOf(em.states[i + 1])
<1> DEFINE n == Len(em.states)
           F(i) == FrameOf(IF i < Len(em.states) THEN em.states[i + 1] ELSE em.state)
<1>1. n \in Nat \ {0}
  BY DEF Structured
<1>2. OpenOf(em) = [i \in 1..n |-> F(i)]
  BY DEF OpenOf
<1>3. \A i \in 1..n : F(i) \in AllFrames
  BY FramesAreFrames
<1>4. F(n) = FrameOf(em.state) /\ \A i \in 1..(n - 1) : F(i) = FrameOf(em.states[i + 1])
  BY <1>1
<1> HIDE DEF F, n
<1>5. /\ OpenOf(em) \in Seq(AllFrames) /\ Len(OpenOf(em)) = n
      /\ \A i \in 1..n : OpenOf(em)[i] = F(i)
  BY <1>1, <1>2, <1>3
<1>6. /\ OpenOf(em) # <<>> /\ OpenOf(em)[n] = F(n)
      /\ \A i \in 1..(n - 1) : OpenOf(em)[i] = F(i)
  BY <1>1, <1>5
<1>7. QED
  BY <1>1, <1>4, <1>5, <1>6 DEF n

(* The frame of the state that follows is the one that counts the node.    *)
LEMMA CountedShape ==
    ASSUME NEW o \in Seq(AllFrames), o # <<>>
    PROVE  /\ CountedOf(o) \in Seq(AllFrames) /\ Len(CountedOf(o)) = Len(o)
           /\ \A i \in 1..(Len(o) - 1) : CountedOf(o)[i] = o[i]
           /\ CountedOf(o)[Len(o)].kind = o[Len(o)].kind
           /\ CountedOf(o)[Len(o)].odd = (o[Len(o)].kind = "mapping" /\ ~o[Len(o)].odd)
<1> DEFINE n == Len(o)
           b == o[n].kind = "mapping" /\ ~o[n].odd
           c == CountedOf(o)
<1>1. n \in Nat \ {0} /\ n \in DOMAIN o /\ DOMAIN o = 1..n
  OBVIOUS
<1>2. o[n] \in AllFrames /\ b \in BOOLEAN
  BY <1>1
<1>3. c = [o EXCEPT ![n] = [o[n] EXCEPT !.odd = b]]
  BY DEF CountedOf
<1>4. [o[n] EXCEPT !.odd = b] \in AllFrames
  BY <1>2 DEF AllFrames
<1>5. /\ c \in Seq(AllFrames) /\ Len(c) = n
      /\ \A k \in 1..(n - 1) : c[k] = o[k]
      /\ c[n] = [o[n] EXCEPT !.odd = b]
  BY <1>1, <1>3, <1>4
<1>6. c[n].kind = o[n].kind /\ c[n].odd = b
  BY <1>2, <1>5 DEF AllFrames
<1> HIDE DEF c
<1>7. QED
  BY <1>5, <1>6 DEF c

(* The states within a collection and the frame that they stand for.       *)
LEMMA StateFrames ==
    /\ \A s \in ItemStates : FrameOf(s).kind = "sequence" /\ ~FrameOf(s).odd
    /\ \A s \in KeyStates : FrameOf(s).kind = "mapping" /\ ~FrameOf(s).odd
    /\ \A s \in ValueStates : FrameOf(s).kind = "mapping" /\ FrameOf(s).odd
BY DEF FrameOf, ItemStates, KeyStates, ValueStates

(* The state behind a finished node stands for the frame below.            *)
LEMMA ReturnFrame ==
    ASSUME NEW state \in Collections, NEW return \in Returns(state)
    PROVE  /\ return \in Collections /\ return \in Behind /\ return \in States
           /\ FrameOf(return).kind = FrameOf(state).kind
           /\ FrameOf(return).odd <=> FrameOf(state).kind = "mapping" /\ ~FrameOf(state).odd
<1>1. CASE state \in ItemStates
  <2>1. return \in {"FLOW-SEQUENCE-ITEM", "BLOCK-SEQUENCE-ITEM"}
    BY <1>1 DEF Returns, ItemStates
  <2>2. return \in ItemStates
    BY <2>1 DEF ItemStates
  <2>3. QED
    BY <1>1, <2>1, <2>2, StateFrames DEF Collections, Behind, States
<1>2. CASE state \in KeyStates
  <2>1. return \in ValueStates
    BY <1>2 DEF Returns, ItemStates, KeyStates
  <2>2. QED
    BY <1>2, <2>1, StateFrames DEF Collections, Behind, States
<1>3. CASE state \in ValueStates
  <2>1. return \in {"FLOW-MAPPING-KEY", "BLOCK-MAPPING-KEY"}
    BY <1>3 DEF Returns, ItemStates, KeyStates, ValueStates
  <2>2. return \in KeyStates
    BY <2>1 DEF KeyStates
  <2>3. QED
    BY <1>3, <2>1, <2>2, StateFrames DEF Collections, Behind, States
<1>4. QED
  BY <1>1, <1>2, <1>3 DEF Collections

(* The first state of a collection stands for its new frame.               *)
LEMMA FirstFrame ==
    ASSUME NEW kind \in {"sequence", "mapping"}, NEW state \in FirstStates(kind)
    PROVE  /\ state \in Collections /\ state \in States
           /\ FrameOf(state) = Frame(kind)
<1>1. state \in Collections /\ state \in States
  BY DEF FirstStates, Collections, States, ItemStates, KeyStates
<1>2. FrameOf(state).kind = kind /\ ~FrameOf(state).odd
  BY StateFrames DEF FirstStates, ItemStates, KeyStates
<1>3. FrameOf(state) \in AllFrames /\ Frame(kind) \in AllFrames
  BY FramesAreFrames DEF Frame, AllFrames
<1>4. FrameOf(state).odd = FALSE
  BY <1>2, <1>3 DEF AllFrames
<1>5. QED
  BY <1>1, <1>2, <1>3, <1>4 DEF AllFrames, Frame

(* A scalar or an alias within a collection.                               *)
LEMMA WrittenInside ==
    ASSUME NEW em, Structured(em), em.state \in Collections, ~em.problem,
           NEW new, new.problem = em.problem, NEW e,
           NEW return \in Returns(em.state), OnlyWrites(new, em, return, e)
    PROVE  Structured(new) /\ Produced(e.type, PhaseOf(em), PhaseOf(new), OpenOf(em), OpenOf(new))
<1> DEFINE n == Len(em.states)
           o == OpenOf(em)
           o2 == OpenOf(new)
<1>1. /\ return \in Collections
      /\ FrameOf(return).kind = FrameOf(em.state).kind
      /\ FrameOf(return).odd <=> FrameOf(em.state).kind = "mapping" /\ ~FrameOf(em.state).odd
  BY ReturnFrame
<1>2. new.state = return /\ new.states = em.states /\ new.state \in Collections
  BY <1>1 DEF OnlyWrites
<1>3. Structured(new)
  BY <1>2 DEF Structured, States, Collections
<1>4. /\ n \in Nat \ {0}
      /\ o \in Seq(AllFrames) /\ Len(o) = n /\ o # <<>>
      /\ o[n] = FrameOf(em.state)
      /\ \A i \in 1..(n - 1) : o[i] = FrameOf(em.states[i + 1])
  BY OpenInside
<1>5. /\ o2 \in Seq(AllFrames) /\ Len(o2) = n
      /\ o2[n] = FrameOf(return)
      /\ \A i \in 1..(n - 1) : o2[i] = FrameOf(em.states[i + 1])
  BY <1>2, <1>3, OpenInside
<1> HIDE DEF o, o2, n
<1>6. /\ CountedOf(o) \in Seq(AllFrames) /\ Len(CountedOf(o)) = n
      /\ \A i \in 1..(n - 1) : CountedOf(o)[i] = o[i]
      /\ CountedOf(o)[n].kind = o[n].kind
      /\ CountedOf(o)[n].odd = (o[n].kind = "mapping" /\ ~o[n].odd)
  BY <1>4, CountedShape
<1>7. CountedOf(o)[n] = FrameOf(return)
  <2>1. CountedOf(o)[n] \in AllFrames /\ FrameOf(return) \in AllFrames
    BY <1>4, <1>6, FramesAreFrames
  <2>2. /\ CountedOf(o)[n].kind = FrameOf(return).kind
        /\ CountedOf(o)[n].odd <=> FrameOf(return).odd
    BY <1>1, <1>4, <1>6
  <2>3. QED
    BY <2>1, <2>2 DEF AllFrames
<1>8. o2 = CountedOf(o)
  <2>1. \A i \in 1..n : o2[i] = CountedOf(o)[i]
    <3>1. \A i \in 1..(n - 1) : o2[i] = CountedOf(o)[i]
      BY <1>4, <1>5, <1>6
    <3>2. o2[n] = CountedOf(o)[n]
      BY <1>5, <1>7
    <3>3. QED
      BY <1>4, <3>1, <3>2
  <2>2. QED
    BY <1>5, <1>6, <2>1, SameSequence
<1>9. PhaseOf(em) = "document" /\ PhaseOf(new) = "document"
  BY <1>2 DEF PhaseOf, Collections, ItemStates, KeyStates, ValueStates
<1>10. Produced(e.type, PhaseOf(em), PhaseOf(new), o, o2)
  BY <1>4, <1>8, <1>9 DEF OnlyWrites, Produced
<1>11. QED
  BY <1>3, <1>10 DEF o, o2

(* A collection that begins within another.                                *)
LEMMA OpenedInside ==
    ASSUME NEW em, Structured(em), em.state \in Collections, ~em.problem,
           NEW new, new.problem = em.problem, NEW e,
           NEW return \in Returns(em.state), Opened(new, em, return, e)
    PROVE  Structured(new) /\ Produced(e.type, PhaseOf(em), PhaseOf(new), OpenOf(em), OpenOf(new))
<1> DEFINE n == Len(em.states)
           o == OpenOf(em)
           o2 == OpenOf(new)
           kind == IF e.type = "SEQUENCE-START" THEN "sequence" ELSE "mapping"
<1>1. /\ return \in Behind /\ return \in States
      /\ FrameOf(return).kind = FrameOf(em.state).kind
      /\ FrameOf(return).odd <=> FrameOf(em.state).kind = "mapping" /\ ~FrameOf(em.state).odd
  BY ReturnFrame
<1>2. /\ new.states = Append(em.states, return)
      /\ new.state \in Collections /\ new.state \in States
      /\ FrameOf(new.state) = Frame(kind)
  BY FirstFrame DEF Opened
<1>3. /\ n \in Nat \ {0}
      /\ o \in Seq(AllFrames) /\ Len(o) = n /\ o # <<>>
      /\ o[n] = FrameOf(em.state)
      /\ \A i \in 1..(n - 1) : o[i] = FrameOf(em.states[i + 1])
  BY OpenInside
<1>4. /\ new.states \in Seq(States) /\ Len(new.states) = n + 1
      /\ new.states[n + 1] = return
      /\ \A i \in 1..n : new.states[i] = em.states[i]
  BY <1>1, <1>2 DEF Structured
<1>5. Structured(new)
  <2>1. /\ em.states[1] = "DOCUMENT-END"
        /\ \A i \in 2..n : em.states[i] \in Behind
    BY DEF Structured
  <2>2. new.states[1] = "DOCUMENT-END" /\ new.states # <<>>
    BY <1>3, <1>4, <2>1
  <2>3. \A i \in 2..(n + 1) : new.states[i] \in Behind
    <3>1. ASSUME NEW i \in 2..(n + 1) PROVE new.states[i] \in Behind
      <4>1. CASE i = n + 1
        BY <1>1, <1>4, <4>1
      <4>2. CASE i \in 2..n
        <5>1. i \in 1..n
          BY <1>3, <4>2
        <5>2. QED
          BY <1>4, <2>1, <4>2, <5>1
      <4>3. QED
        BY <1>3, <4>1, <4>2
    <3>2. QED
      BY <3>1
  <2>4. QED
    BY <1>2, <1>4, <2>2, <2>3 DEF Structured
<1>6. /\ o2 \in Seq(AllFrames) /\ Len(o2) = n + 1
      /\ o2[n + 1] = Frame(kind)
      /\ \A i \in 1..n : o2[i] = FrameOf(new.states[i + 1])
  <2>1. /\ o2 \in Seq(AllFrames) /\ Len(o2) = Len(new.states)
        /\ o2[Len(new.states)] = FrameOf(new.state)
        /\ \A i \in 1..(Len(new.states) - 1) : o2[i] = FrameOf(new.states[i + 1])
    BY <1>2, <1>5, OpenInside
  <2>2. (n + 1) - 1 = n
    BY <1>3
  <2>3. QED
    BY <1>2, <1>4, <2>1, <2>2
<1> HIDE DEF o, o2, n
<1> DEFINE c == CountedOf(o)
<1>7. /\ c \in Seq(AllFrames) /\ Len(c) = n
      /\ \A i \in 1..(n - 1) : c[i] = o[i]
      /\ c[n].kind = o[n].kind
      /\ c[n].odd = (o[n].kind = "mapping" /\ ~o[n].odd)
  BY <1>3, CountedShape
<1> HIDE DEF c
<1>8. c[n] = FrameOf(return)
  <2>1. c[n] \in AllFrames /\ FrameOf(return) \in AllFrames
    BY <1>3, <1>7, FramesAreFrames
  <2>2. c[n].kind = FrameOf(return).kind /\ (c[n].odd <=> FrameOf(return).odd)
    BY <1>1, <1>3, <1>7
  <2>3. QED
    BY <2>1, <2>2 DEF AllFrames
<1>9. o2 = Append(c, Frame(kind))
  <2> DEFINE a == Append(c, Frame(kind))
  <2>1. Frame(kind) \in AllFrames
    BY DEF Frame, AllFrames
  <2> HIDE DEF kind
  <2>2. /\ a \in Seq(AllFrames) /\ Len(a) = n + 1 /\ a[n + 1] = Frame(kind)
        /\ \A i \in 1..n : a[i] = c[i]
    BY <1>3, <1>7, <2>1
  <2> HIDE DEF a
  <2>3. \A i \in 1..n : o2[i] = c[i]
    <3>1. \A i \in 1..(n - 1) : o2[i] = c[i]
      <4>1. ASSUME NEW i \in 1..(n - 1) PROVE o2[i] = c[i]
        <5>1. i \in 1..n /\ i + 1 \in 1..n
          BY <1>3
        <5>2. QED
          BY <1>3, <1>4, <1>6, <1>7, <5>1
      <4>2. QED
        BY <4>1
    <3>2. o2[n] = c[n]
      BY <1>3, <1>4, <1>6, <1>8
    <3>3. QED
      BY <1>3, <3>1, <3>2
  <2>4. \A i \in 1..(n + 1) : o2[i] = a[i]
    BY <1>3, <1>6, <2>2, <2>3
  <2>5. QED
    BY <1>6, <2>2, <2>4, SameSequence DEF a
<1>10. PhaseOf(em) = "document" /\ PhaseOf(new) = "document"
  BY <1>2 DEF PhaseOf, Collections, ItemStates, KeyStates, ValueStates
<1>11. Produced(e.type, PhaseOf(em), PhaseOf(new), o, o2)
  BY <1>9, <1>10 DEF Opened, Produced, c
<1>12. QED
  BY <1>5, <1>11 DEF o, o2

(* A collection that ends: the one around it is the innermost again.       *)
LEMMA EndedInside ==
    ASSUME NEW em, Structured(em), em.state \in Collections, ~em.problem,
           NEW new, new.problem = em.problem, NEW e, e.type \in EndsOf(em.state),
           new.state = Last(em.states), new.states = Front(em.states)
    PROVE  Structured(new) /\ Produced(e.type, PhaseOf(em), PhaseOf(new), OpenOf(em), OpenOf(new))
<1> DEFINE n == Len(em.states)
           o == OpenOf(em)
           o2 == OpenOf(new)
           kind == IF e.type = "SEQUENCE-END" THEN "sequence" ELSE "mapping"
<1>1. /\ kind \in {"sequence", "mapping"}
      /\ e.type = IF kind = "sequence" THEN "SEQUENCE-END" ELSE "MAPPING-END"
      /\ FrameOf(em.state).kind = kind /\ ~FrameOf(em.state).odd
  BY StateFrames DEF EndsOf
<1>2. /\ n \in Nat \ {0}
      /\ o \in Seq(AllFrames) /\ Len(o) = n /\ o # <<>>
      /\ o[n] = FrameOf(em.state)
      /\ \A i \in 1..(n - 1) : o[i] = FrameOf(em.states[i + 1])
  BY OpenInside
<1>3. /\ em.states \in Seq(States) /\ em.states[1] = "DOCUMENT-END"
      /\ \A i \in 2..n : em.states[i] \in Behind
      /\ Behind \subseteq Collections /\ Collections \subseteq States
      /\ "DOCUMENT-END" \notin Collections /\ "DOCUMENT-END" \in States
  BY DEF Structured, Behind, Collections, States, ItemStates, KeyStates, ValueStates
<1>4. /\ new.states \in Seq(States) /\ Len(new.states) = n - 1
      /\ \A i \in 1..(n - 1) : new.states[i] = em.states[i]
      /\ new.state = em.states[n] /\ new.state \in States
  BY <1>2, <1>3 DEF Front, Last
<1>5. PhaseOf(em) = "document"
  BY DEF PhaseOf, Collections, ItemStates, KeyStates, ValueStates
<1>6. SubSeq(o, 1, n - 1) \in Seq(AllFrames) /\ Len(SubSeq(o, 1, n - 1)) = n - 1
      /\ \A i \in 1..(n - 1) : SubSeq(o, 1, n - 1)[i] = o[i]
  BY <1>2
<1>7. CASE n = 1
  <2>1. new.state = "DOCUMENT-END" /\ new.states = <<>>
    BY <1>3, <1>4, <1>7
  <2>2. Structured(new)
    BY <1>3, <1>4, <2>1 DEF Structured
  <2>3. o2 = <<>>
    BY <1>3, <2>1, OpenOutside
  <2>4. SubSeq(o, 1, n - 1) = <<>>
    BY <1>6, <1>7
  <2>5. PhaseOf(new) = "root"
    BY <2>1 DEF PhaseOf
  <2> HIDE DEF o, o2, n, kind
  <2>6. Produced(e.type, PhaseOf(em), PhaseOf(new), o, o2)
    BY <1>1, <1>2, <1>5, <1>7, <2>3, <2>4, <2>5 DEF Produced
  <2>7. QED
    BY <2>2, <2>6 DEF o, o2
<1>8. CASE n # 1
  <2> HIDE DEF n
  <2>1. n \in 2..n /\ n - 1 \in Nat \ {0}
    BY <1>2, <1>8
  <2>2. new.state \in Collections /\ new.state \in Behind
    BY <1>3, <1>4, <2>1
  <2>3. Structured(new)
    <3>1. new.states # <<>> /\ new.states[1] = "DOCUMENT-END"
      BY <1>3, <1>4, <2>1
    <3>2. \A i \in 2..(n - 1) : new.states[i] \in Behind
      <4>1. ASSUME NEW i \in 2..(n - 1) PROVE new.states[i] \in Behind
        <5>1. i \in 1..(n - 1) /\ i \in 2..n
          BY <1>2
        <5>2. QED
          BY <1>3, <1>4, <5>1
      <4>2. QED
        BY <4>1
    <3>3. QED
      BY <1>4, <2>2, <3>1, <3>2 DEF Structured
  <2>4. /\ o2 \in Seq(AllFrames) /\ Len(o2) = Len(new.states)
        /\ o2[Len(new.states)] = FrameOf(new.state)
        /\ \A i \in 1..(Len(new.states) - 1) : o2[i] = FrameOf(new.states[i + 1])
    BY <2>2, <2>3, OpenInside
  <2> HIDE DEF o, o2, kind
  <2>5. \A i \in 1..(n - 1) : o2[i] = o[i]
    <3>1. ASSUME NEW i \in 1..(n - 1) PROVE o2[i] = o[i]
      <4>1. o[i] = FrameOf(em.states[i + 1])
        BY <1>2
      <4>2. CASE i = n - 1
        <5>1. i + 1 = n
          BY <1>2, <4>2
        <5>2. QED
          BY <1>4, <2>4, <4>1, <4>2, <5>1
      <4>3. CASE i # n - 1
        <5>1. i + 1 \in 1..(n - 1) /\ i \in 1..((n - 1) - 1)
          BY <1>2, <4>3
        <5>2. o2[i] = FrameOf(new.states[i + 1])
          BY <1>4, <2>4, <5>1
        <5>3. QED
          BY <1>4, <4>1, <5>1, <5>2
      <4>4. QED
        BY <4>2, <4>3
    <3>2. QED
      BY <3>1
  <2>6. o2 = SubSeq(o, 1, n - 1)
    <3> DEFINE t == SubSeq(o, 1, n - 1)
    <3>1. t \in Seq(AllFrames) /\ Len(t) = n - 1 /\ \A i \in 1..(n - 1) : t[i] = o[i]
      BY <1>6
    <3> HIDE DEF t
    <3>2. o2 = t
      BY <1>4, <2>4, <2>5, <3>1, SameSequence
    <3>3. QED
      BY <3>2 DEF t
  <2>7. PhaseOf(new) = "document"
    BY <2>2 DEF PhaseOf, Collections, ItemStates, KeyStates, ValueStates
  <2>8. Produced(e.type, PhaseOf(em), PhaseOf(new), o, o2)
    BY <1>1, <1>2, <1>5, <1>8, <2>6, <2>7 DEF Produced
  <2>9. QED
    BY <2>3, <2>8 DEF o, o2
<1>9. QED
  BY <1>7, <1>8

(* The root node of a document.                                            *)
LEMMA RootNode ==
    ASSUME NEW em, Structured(em), em.state = "DOCUMENT-CONTENT", ~em.problem,
           NEW new, new.problem = em.problem, NEW e,
           NEW return \in Returns(em.state),
           OnlyWrites(new, em, return, e) \/ Opened(new, em, return, e)
    PROVE  Structured(new) /\ Produced(e.type, PhaseOf(em), PhaseOf(new), OpenOf(em), OpenOf(new))
<1>1. /\ "DOCUMENT-CONTENT" \notin Collections /\ "DOCUMENT-END" \notin Collections
      /\ "DOCUMENT-END" \in States
  BY DEF Collections, States, ItemStates, KeyStates, ValueStates
<1>2. em.states = <<>> /\ return = "DOCUMENT-END"
  BY <1>1 DEF Structured, Returns
<1>3. OpenOf(em) = <<>> /\ PhaseOf(em) = "document" /\ CountedOf(OpenOf(em)) = <<>>
  BY <1>1, OpenOutside DEF PhaseOf, CountedOf
<1>4. CASE OnlyWrites(new, em, return, e)
  <2>1. new.state = "DOCUMENT-END" /\ new.states = <<>>
    BY <1>2, <1>4 DEF OnlyWrites
  <2>2. Structured(new)
    BY <1>1, <2>1 DEF Structured
  <2>3. OpenOf(new) = <<>> /\ PhaseOf(new) = "root"
    BY <1>1, <2>1, OpenOutside DEF PhaseOf
  <2>4. QED
    BY <1>3, <1>4, <2>2, <2>3 DEF OnlyWrites, Produced
<1>5. CASE Opened(new, em, return, e)
  <2> DEFINE kind == IF e.type = "SEQUENCE-START" THEN "sequence" ELSE "mapping"
  <2>1. /\ new.states = Append(<<>>, "DOCUMENT-END")
        /\ new.state \in Collections /\ new.state \in States
        /\ FrameOf(new.state) = Frame(kind)
    BY <1>2, <1>5, FirstFrame DEF Opened
  <2> HIDE DEF kind
  <2>2. /\ new.states \in Seq(States) /\ Len(new.states) = 1
        /\ new.states[1] = "DOCUMENT-END" /\ new.states # <<>>
    BY <1>1, <2>1
  <2>3. Structured(new)
    BY <2>1, <2>2 DEF Structured
  <2>4. OpenOf(new) \in Seq(AllFrames) /\ Len(OpenOf(new)) = 1 /\ OpenOf(new)[1] = Frame(kind)
    BY <2>1, <2>2, <2>3, OpenInside
  <2>5. OpenOf(new) = Append(CountedOf(OpenOf(em)), Frame(kind))
    BY <1>3, <2>4
  <2>6. PhaseOf(new) = "document"
    BY <2>1 DEF PhaseOf, Collections, ItemStates, KeyStates, ValueStates
  <2>7. QED
    BY <1>3, <1>5, <2>3, <2>5, <2>6 DEF Opened, Produced, kind
<1>6. QED
  BY <1>4, <1>5

(* Every event that is taken is one that the grammar has there.            *)
LEMMA MovedIsProduced ==
    ASSUME NEW em, Structured(em), ~em.problem,
           NEW new, new.problem = em.problem, NEW e, Moved(new, em, e)
    PROVE  Structured(new) /\ Produced(e.type, PhaseOf(em), PhaseOf(new), OpenOf(em), OpenOf(new))
<1> DEFINE Goal == /\ Structured(new)
                   /\ Produced(e.type, PhaseOf(em), PhaseOf(new), OpenOf(em), OpenOf(new))
           Outside == {"STREAM-START", "FIRST-DOCUMENT-START", "DOCUMENT-START",
                       "DOCUMENT-CONTENT", "DOCUMENT-END", "END"}
<1>1. ASSUME em.state \in Outside, new.state \in Outside, new.states = em.states,
             Produced(e.type, PhaseOf(em), PhaseOf(new), <<>>, <<>>)
      PROVE  Goal
  <2>1. em.state \notin Collections /\ new.state \notin Collections /\ new.state \in States
    BY <1>1 DEF Collections, States, ItemStates, KeyStates, ValueStates
  <2>2. Structured(new)
    BY <1>1, <2>1 DEF Structured
  <2>3. OpenOf(em) = <<>> /\ OpenOf(new) = <<>>
    BY <2>1, OpenOutside
  <2>4. QED
    BY <1>1, <2>2, <2>3
<1>2. CASE em.state = "STREAM-START" /\ e.type = "STREAM-START"
           /\ new.state = "FIRST-DOCUMENT-START" /\ new.states = em.states
  <2>1. Produced(e.type, PhaseOf(em), PhaseOf(new), <<>>, <<>>)
    BY <1>2 DEF PhaseOf, Produced
  <2>2. QED
    BY <1>1, <1>2, <2>1
<1>3. CASE em.state \in StartStates /\ e.type = "STREAM-END"
           /\ new.state = "END" /\ new.states = em.states
  <2>1. Produced(e.type, PhaseOf(em), PhaseOf(new), <<>>, <<>>)
    BY <1>3 DEF PhaseOf, Produced, StartStates
  <2>2. QED
    BY <1>1, <1>3, <2>1 DEF StartStates
<1>4. CASE em.state \in StartStates /\ e.type = "DOCUMENT-START"
           /\ new.state = "DOCUMENT-CONTENT" /\ new.states = em.states
  <2>1. Produced(e.type, PhaseOf(em), PhaseOf(new), <<>>, <<>>)
    BY <1>4 DEF PhaseOf, Produced, StartStates
  <2>2. QED
    BY <1>1, <1>4, <2>1 DEF StartStates
<1>5. CASE em.state = "DOCUMENT-END" /\ e.type = "DOCUMENT-END"
           /\ new.state = "DOCUMENT-START" /\ new.states = em.states
  <2>1. Produced(e.type, PhaseOf(em), PhaseOf(new), <<>>, <<>>)
    BY <1>5 DEF PhaseOf, Produced
  <2>2. QED
    BY <1>1, <1>5, <2>1
<1>6. CASE em.state \in NodeStates
           /\ \E return \in Returns(em.state) :
                 OnlyWrites(new, em, return, e) \/ Opened(new, em, return, e)
  <2>1. PICK return \in Returns(em.state) :
           OnlyWrites(new, em, return, e) \/ Opened(new, em, return, e)
    BY <1>6
  <2>2. CASE em.state = "DOCUMENT-CONTENT"
    BY <2>1, <2>2, RootNode
  <2>3. CASE em.state \in Collections
    BY <2>1, <2>3, WrittenInside, OpenedInside
  <2>4. QED
    BY <1>6, <2>2, <2>3 DEF NodeStates
<1>7. CASE em.state \in Collections /\ e.type \in EndsOf(em.state)
           /\ new.state = Last(em.states) /\ new.states = Front(em.states)
  BY <1>7, EndedInside
<1>8. QED
  BY <1>2, <1>3, <1>4, <1>5, <1>6, <1>7 DEF Moved

-----------------------------------------------------------------------------
(* The loop.  An event that was refused is at the head of the queue for    *)
(* good, and the emitter can see far enough to meet it with every call.    *)
Shapes ==
    /\ DOMAIN emitter = Fields /\ emitter.problem \in BOOLEAN
    /\ queue \in Seq(CallerEvents)
    /\ emitter.state \in {"STREAM-START"} \cup StartStates =>
          emitter.tagDirectives \in Seq(TagDirectives)

Sees == call = "processing" => ~NeedMoreEvents(queue)

Stuck ==
    emitter.problem =>
        /\ ~NeedMoreEvents(queue) /\ call # "returned"
        /\ ~Valid(queue[1]) \/ ~Accepts(emitter, queue[1])

Nested == ~emitter.problem => Structured(emitter)

IInv == Shapes /\ Sees /\ Stuck /\ Nested

(* A queue that needs no more events is not empty.                         *)
LEMMA EnoughIsNotEmpty ==
    ASSUME NEW q \in Seq(CallerEvents), ~NeedMoreEvents(q)
    PROVE  /\ q # <<>> /\ Len(q) \in Nat \ {0} /\ Head(q) = q[1]
           /\ q[1] \in CallerEvents
<1>1. q # <<>>
  BY DEF NeedMoreEvents
<1>2. QED
  BY <1>1

(* More events do not make the emitter see less.                           *)
LEMMA EnoughStays ==
    ASSUME NEW q \in Seq(CallerEvents), NEW e \in CallerEvents, ~NeedMoreEvents(q)
    PROVE  ~NeedMoreEvents(Append(q, e)) /\ Append(q, e)[1] = q[1]
<1> DEFINE t == Append(q, e)
<1>1. Len(q) \in Nat \ {0}
  BY EnoughIsNotEmpty
<1>2. /\ Len(t) = Len(q) + 1 /\ DOMAIN t = 1..(Len(q) + 1) /\ t # <<>>
      /\ \A i \in 1..Len(q) : t[i] = q[i]
      /\ DOMAIN q = 1..Len(q)
  BY <1>1
<1> HIDE DEF t
<1>3. t[1] = q[1]
  BY <1>1, <1>2
<1>4. ASSUME NEW n \in DOMAIN q PROVE Level(t, n) = Level(q, n)
  <2>1. \A i \in 1..n : t[i] = q[i]
    BY <1>1, <1>2
  <2>2. /\ {i \in 1..n : t[i].type \in StartEvents} = {i \in 1..n : q[i].type \in StartEvents}
        /\ {i \in 1..n : t[i].type \in EndEvents} = {i \in 1..n : q[i].type \in EndEvents}
    BY <2>1
  <2>3. QED
    BY <2>2 DEF Level
<1>5. DOMAIN q \subseteq DOMAIN t
  BY <1>1, <1>2
<1> DEFINE a == Accumulated(q[1].type)
<1>6. ~(a > 0) \/ ~(Len(q) <= a) \/ \E n \in DOMAIN q : Level(q, n) = 0
  BY DEF NeedMoreEvents
<1>7. a \in {0, 1, 2, 3}
  BY Zenon DEF Accumulated
<1> HIDE DEF a
<1>8. ~(a > 0) \/ ~(Len(t) <= a) \/ \E n \in DOMAIN t : Level(t, n) = 0
  <2>1. ~(Len(q) <= a) => ~(Len(t) <= a)
    BY <1>1, <1>2, <1>7
  <2>2. QED
    BY <1>4, <1>5, <1>6, <2>1
<1>9. ~NeedMoreEvents(t)
  BY <1>2, <1>3, <1>8 DEF NeedMoreEvents, a
<1>10. QED
  BY <1>3, <1>9 DEF t

(* What is accepted depends on the state and the tag directives only.      *)
LEMMA AcceptsSame ==
    ASSUME NEW a, NEW b, NEW e, a.state = b.state, a.tagDirectives = b.tagDirectives
    PROVE  Accepts(a, e) <=> Accepts(b, e)
<1>1. TagDataOf(a, e) = TagDataOf(b, e)
  BY DEF TagDataOf
<1>2. NodeAccepted(a, e) <=> NodeAccepted(b, e)
  BY <1>1 DEF NodeAccepted
<1>3. Refused(a, e.directives) = Refused(b, e.directives)
  BY DEF Refused, HandleTaken
<1>4. QED
  BY <1>2, <1>3 DEF Accepts

(* The state in front of a document is reached from two states only.       *)
LEMMA WhereDocumentsStart ==
    ASSUME NEW em, Structured(em), NEW new, NEW e, Moved(new, em, e)
    PROVE  /\ new.state # "STREAM-START"
           /\ new.state \in StartStates => em.state \in {"STREAM-START", "DOCUMENT-END"}
<1> DEFINE Inside == Collections \cup {"DOCUMENT-END", "DOCUMENT-CONTENT", "END"}
<1>1. Inside \cap (StartStates \cup {"STREAM-START"}) = {}
  BY DEF Collections, ItemStates, KeyStates, ValueStates, StartStates
<1>2. CASE em.state \in NodeStates
           /\ \E return \in Returns(em.state) :
                 OnlyWrites(new, em, return, e) \/ Opened(new, em, return, e)
  <2>1. PICK return \in Returns(em.state) :
           OnlyWrites(new, em, return, e) \/ Opened(new, em, return, e)
    BY <1>2
  <2>2. return \in Inside
    BY <1>2, ReturnFrame DEF NodeStates, Returns
  <2>3. new.state \in Inside
    BY <2>1, <2>2, FirstFrame DEF OnlyWrites, Opened
  <2>4. QED
    BY <1>1, <2>3
<1>3. CASE em.state \in Collections /\ e.type \in EndsOf(em.state)
           /\ new.state = Last(em.states) /\ new.states = Front(em.states)
  <2>1. Len(em.states) \in Nat \ {0}
    BY <1>3, OpenInside
  <2>2. em.states[1] = "DOCUMENT-END" /\ \A i \in 2..Len(em.states) : em.states[i] \in Behind
    BY <1>3 DEF Structured
  <2>3. em.states[Len(em.states)] = "DOCUMENT-END" \/ em.states[Len(em.states)] \in Behind
    BY <2>1, <2>2
  <2>4. Behind \subseteq Collections
    BY DEF Behind, Collections, ItemStates, KeyStates, ValueStates
  <2>5. new.state \in Inside
    BY <1>3, <2>3, <2>4 DEF Last
  <2>6. QED
    BY <1>1, <2>5
<1>4. QED
  BY <1>2, <1>3 DEF Moved, StartStates

(* A call takes the events off the queue one turn after the other.         *)
LEMMA ProcessTurns ==
    ASSUME CallerIsTyped, Shapes, Sees, Process
    PROVE  /\ call = "processing"
           /\ \/ ~Valid(queue[1]) /\ Concluded(Refuse(emitter))
              \/ \E new : /\ Valid(queue[1])
                          /\ TurnOutcome(new, Fresh, queue[1])
                          /\ DocumentStartOutcome(new, Fresh, queue[1])
                          /\ Concluded(new)
<1> DEFINE e == queue[1]
           Turns(new) == /\ TurnOutcome(new, Fresh, e)
                         /\ DocumentStartOutcome(new, Fresh, e)
<1>1. call = "processing"
  BY DEF Process, RejectEvent, Accepted, InState, StreamStartState, DocumentStartState,
         DocumentContentState, DocumentEndState, FlowSequenceItemState,
         FlowMappingKeyState, FlowMappingValueState, BlockSequenceItemState,
         BlockMappingKeyState, BlockMappingValueState, EndState
<1>2. e = Head(queue) /\ e \in CallerEvents
  BY <1>1, EnoughIsNotEmpty DEF Shapes, Sees
<1>3. /\ DOMAIN Fresh = Fields /\ Fresh.ok = TRUE
      /\ Fresh.state = emitter.state /\ Fresh.tagDirectives = emitter.tagDirectives
  BY DEF Fresh, Shapes, Fields
<1>4. ASSUME NEW new, Fresh.state \notin StartStates
      PROVE  DocumentStartOutcome(new, Fresh, e)
  BY <1>4 DEF DocumentStartOutcome
<1> HIDE DEF e
<1>5. CASE RejectEvent
  BY <1>1, <1>2, <1>5 DEF RejectEvent, e
<1>6. CASE StreamStartState
  <2>1. Fresh.state = "STREAM-START" /\ Concluded(EmitStreamStart(Fresh, queue)) /\ Valid(e)
    BY <1>2, <1>3, <1>6 DEF StreamStartState, Accepted, InState
  <2>2. Turns(EmitStreamStart(Fresh, queue))
    BY <1>3, <1>4, <2>1, StreamStartTurn DEF StartStates, e
  <2>3. QED
    BY <1>1, <2>1, <2>2 DEF e
<1>7. CASE DocumentStartState
  <2> DEFINE new == EmitDocumentStart(Fresh, queue, emitter.state = "FIRST-DOCUMENT-START")
  <2>1. Fresh.state \in StartStates /\ Concluded(new) /\ Valid(e)
    BY <1>2, <1>3, <1>7 DEF DocumentStartState, Accepted, InState, StartStates
  <2>2. Fresh.tagDirectives \in Seq(TagDirectives)
    BY <1>3, <2>1 DEF Shapes
  <2>3. e.type = "DOCUMENT-START" => e.directives \in Seq(TagDirectives)
    BY <1>2 DEF CallerIsTyped
  <2>4. Turns(new)
    BY <1>3, <2>1, <2>2, <2>3, DocumentStartTurn DEF e
  <2>5. QED
    BY <1>1, <2>1, <2>4 DEF e
<1>8. CASE DocumentContentState
  <2>1. Fresh.state = "DOCUMENT-CONTENT" /\ Concluded(EmitDocumentContent(Fresh, queue)) /\ Valid(e)
    BY <1>2, <1>3, <1>8 DEF DocumentContentState, Accepted, InState
  <2>2. Turns(EmitDocumentContent(Fresh, queue))
    BY <1>3, <1>4, <2>1, DocumentContentTurn DEF StartStates, e
  <2>3. QED
    BY <1>1, <2>1, <2>2 DEF e
<1>9. CASE DocumentEndState
  <2>1. Fresh.state = "DOCUMENT-END" /\ Concluded(EmitDocumentEnd(Fresh, queue)) /\ Valid(e)
    BY <1>2, <1>3, <1>9 DEF DocumentEndState, Accepted, InState
  <2>2. Turns(EmitDocumentEnd(Fresh, queue))
    BY <1>3, <1>4, <2>1, DocumentEndTurn DEF StartStates, e
  <2>3. QED
    BY <1>1, <2>1, <2>2 DEF e
<1>10. CASE FlowSequenceItemState
  <2> DEFINE first == emitter.state = "FLOW-SEQUENCE-FIRST-ITEM"
             new == EmitFlowSequenceItem(Fresh, queue, first)
  <2>1. Fresh.state \in FlowItems /\ Concluded(new) /\ Valid(e)
    BY <1>2, <1>3, <1>10 DEF FlowSequenceItemState, Accepted, InState, FlowItems
  <2>2. Fresh.state \notin StartStates
    BY <2>1 DEF StartStates, FlowItems
  <2> HIDE DEF first
  <2>3. TurnOutcome(new, Fresh, e)
    BY <1>3, <2>1, FlowSequenceItemTurn DEF e
  <2> HIDE DEF new
  <2>4. Turns(new)
    BY <1>4, <2>2, <2>3
  <2>5. QED
    BY <1>1, <2>1, <2>4 DEF e
<1>11. CASE FlowMappingKeyState
  <2> DEFINE first == emitter.state = "FLOW-MAPPING-FIRST-KEY"
             new == EmitFlowMappingKey(Fresh, queue, first)
  <2>1. Fresh.state \in FlowKeys /\ Concluded(new) /\ Valid(e)
    BY <1>2, <1>3, <1>11 DEF FlowMappingKeyState, Accepted, InState, FlowKeys
  <2>2. Fresh.state \notin StartStates
    BY <2>1 DEF StartStates, FlowKeys
  <2> HIDE DEF first
  <2>3. TurnOutcome(new, Fresh, e)
    BY <1>3, <2>1, FlowMappingKeyTurn DEF e
  <2> HIDE DEF new
  <2>4. Turns(new)
    BY <1>4, <2>2, <2>3
  <2>5. QED
    BY <1>1, <2>1, <2>4 DEF e
<1>12. CASE FlowMappingValueState
  <2> DEFINE first == emitter.state = "FLOW-MAPPING-SIMPLE-VALUE"
             new == EmitFlowMappingValue(Fresh, queue, first)
  <2>1. Fresh.state \in FlowValues /\ Concluded(new) /\ Valid(e)
    BY <1>2, <1>3, <1>12 DEF FlowMappingValueState, Accepted, InState, FlowValues
  <2>2. Fresh.state \notin StartStates
    BY <2>1 DEF StartStates, FlowValues
  <2> HIDE DEF first
  <2>3. TurnOutcome(new, Fresh, e)
    BY <1>3, <2>1, FlowMappingValueTurn DEF e
  <2> HIDE DEF new
  <2>4. Turns(new)
    BY <1>4, <2>2, <2>3
  <2>5. QED
    BY <1>1, <2>1, <2>4 DEF e
<1>13. CASE BlockSequenceItemState
  <2> DEFINE first == emitter.state = "BLOCK-SEQUENCE-FIRST-ITEM"
             new == EmitBlockSequenceItem(Fresh, queue, first)
  <2>1. Fresh.state \in BlockItems /\ Concluded(new) /\ Valid(e)
    BY <1>2, <1>3, <1>13 DEF BlockSequenceItemState, Accepted, InState, BlockItems
  <2>2. Fresh.state \notin StartStates
    BY <2>1 DEF StartStates, BlockItems
  <2> HIDE DEF first
  <2>3. TurnOutcome(new, Fresh, e)
    BY <1>3, <2>1, BlockSequenceItemTurn DEF e
  <2> HIDE DEF new
  <2>4. Turns(new)
    BY <1>4, <2>2, <2>3
  <2>5. QED
    BY <1>1, <2>1, <2>4 DEF e
<1>14. CASE BlockMappingKeyState
  <2> DEFINE first == emitter.state = "BLOCK-MAPPING-FIRST-KEY"
             new == EmitBlockMappingKey(Fresh, queue, first)
  <2>1. Fresh.state \in BlockKeys /\ Concluded(new) /\ Valid(e)
    BY <1>2, <1>3, <1>14 DEF BlockMappingKeyState, Accepted, InState, BlockKeys
  <2>2. Fresh.state \notin StartStates
    BY <2>1 DEF StartStates, BlockKeys
  <2> HIDE DEF first
  <2>3. TurnOutcome(new, Fresh, e)
    BY <1>3, <2>1, BlockMappingKeyTurn DEF e
  <2> HIDE DEF new
  <2>4. Turns(new)
    BY <1>4, <2>2, <2>3
  <2>5. QED
    BY <1>1, <2>1, <2>4 DEF e
<1>15. CASE BlockMappingValueState
  <2> DEFINE first == emitter.state = "BLOCK-MAPPING-SIMPLE-VALUE"
             new == EmitBlockMappingValue(Fresh, queue, first)
  <2>1. Fresh.state \in BlockValues /\ Concluded(new) /\ Valid(e)
    BY <1>2, <1>3, <1>15 DEF BlockMappingValueState, Accepted, InState, BlockValues
  <2>2. Fresh.state \notin StartStates
    BY <2>1 DEF StartStates, BlockValues
  <2> HIDE DEF first
  <2>3. TurnOutcome(new, Fresh, e)
    BY <1>3, <2>1, BlockMappingValueTurn DEF e
  <2> HIDE DEF new
  <2>4. Turns(new)
    BY <1>4, <2>2, <2>3
  <2>5. QED
    BY <1>1, <2>1, <2>4 DEF e
<1>16. CASE EndState
  <2>1. Fresh.state = "END" /\ Concluded(Refuse(Fresh)) /\ Valid(e)
    BY <1>2, <1>3, <1>16 DEF EndState, Accepted, InState
  <2>2. Accepts(Fresh, e) = FALSE
    <3>1. ~Accepts(Fresh, e)
      BY <2>1 DEF Accepts, StartStates, NodeStates, Collections, ItemStates, KeyStates, ValueStates
    <3>2. Accepts(Fresh, e) \in BOOLEAN
      BY DEF Accepts
    <3>3. QED
      BY <3>1, <3>2
  <2>3. TurnOutcome(Refuse(Fresh), Fresh, e)
    BY <1>3, <2>1, <2>2, RefuseOutcome DEF TurnOutcome, StartStates
  <2>4. Turns(Refuse(Fresh))
    BY <1>4, <2>1, <2>3 DEF StartStates
  <2>5. QED
    BY <1>1, <2>1, <2>4 DEF e
<1>17. QED
  BY <1>5, <1>6, <1>7, <1>8, <1>9, <1>10, <1>11, <1>12, <1>13, <1>14, <1>15, <1>16
  DEF Process

-----------------------------------------------------------------------------
(* What a step of the emitter is to the grammar, and to its caller.        *)
Advanced ==
    \/ UNCHANGED emitter /\ Len(queue') >= Len(queue)
    \/ emitter'.problem /\ queue' = queue
    \/ /\ ~emitter.problem /\ ~emitter'.problem
       /\ queue # <<>> /\ queue' = Tail(queue)
       /\ Produced(Head(queue).type, PhaseOf(emitter), PhaseOf(emitter)',
                   OpenOf(emitter), OpenOf(emitter)')

RefusedStays ==
    emitter.problem => /\ emitter'.problem
                       /\ call' # "returned"
                       /\ Len(queue') >= Len(queue)

(* The invariant holds before the first event.                             *)
LEMMA InitIInv == EmitterInit => IInv
<1> SUFFICES ASSUME EmitterInit PROVE IInv
  OBVIOUS
<1>1. Shapes
  BY DEF EmitterInit, Shapes, Fields
<1>2. Sees /\ Stuck
  BY DEF EmitterInit, Sees, Stuck
<1>3. Nested
  BY DEF EmitterInit, Nested, Structured, States, Collections, ItemStates, KeyStates, ValueStates
<1>4. QED
  BY <1>1, <1>2, <1>3 DEF IInv

(* A call of yaml_emitter_emit keeps the invariant.                        *)
LEMMA EmitStep ==
    ASSUME IInv, NEW e \in CallerEvents, Emit(e)
    PROVE  IInv' /\ Advanced /\ RefusedStays
<1>1. /\ UNCHANGED emitter /\ queue' = Append(queue, e)
      /\ call' = IF NeedMoreEvents(queue') THEN "returned" ELSE "processing"
  BY DEF Emit
<1>2. /\ queue \in Seq(CallerEvents) /\ queue' \in Seq(CallerEvents)
      /\ Len(queue') = Len(queue) + 1 /\ Len(queue) \in Nat
  BY <1>1 DEF IInv, Shapes
<1>3. Shapes'
  BY <1>1, <1>2 DEF IInv, Shapes
<1>4. Sees'
  <2>1. CASE NeedMoreEvents(queue')
    BY <1>1, <2>1 DEF Sees
  <2>2. CASE ~NeedMoreEvents(queue')
    BY <2>2 DEF Sees, NeedMoreEvents, Level
  <2>3. QED
    BY <2>1, <2>2
<1>5. ASSUME emitter.problem
      PROVE  /\ ~NeedMoreEvents(queue') /\ call' = "processing"
             /\ queue'[1] = queue[1]
             /\ ~Valid(queue[1]) \/ ~Accepts(emitter, queue[1])
  <2>1. ~NeedMoreEvents(queue) /\ (~Valid(queue[1]) \/ ~Accepts(emitter, queue[1]))
    BY <1>5 DEF IInv, Stuck
  <2>2. ~NeedMoreEvents(Append(queue, e)) /\ Append(queue, e)[1] = queue[1]
    BY <1>2, <2>1, EnoughStays
  <2>3. QED
    BY <1>1, <2>1, <2>2
<1>6. Stuck'
  <2>1. ASSUME emitter'.problem
        PROVE  /\ ~NeedMoreEvents(queue') /\ call' # "returned"
               /\ ~Valid(queue'[1]) \/ ~Accepts(emitter', queue'[1])
    BY <1>1, <1>5, <2>1
  <2>2. QED
    BY <2>1 DEF Stuck, NeedMoreEvents, Level, Valid, Accepts, NodeAccepted,
                TagDataOf, Refused, HandleTaken
<1>7. Nested'
  BY <1>1 DEF IInv, Nested, Structured
<1>8. Advanced
  BY <1>1, <1>2 DEF Advanced
<1>9. RefusedStays
  BY <1>1, <1>2, <1>5 DEF RefusedStays
<1>10. QED
  BY <1>3, <1>4, <1>6, <1>7, <1>8, <1>9 DEF IInv

(* A step that leaves a refused event where it is.                         *)
LEMMA RefusedStep ==
    ASSUME IInv, call = "processing", NEW new, Concluded(new),
           DOMAIN new = Fields, new.ok = FALSE, new.problem = TRUE,
           new.state = emitter.state,
           emitter.state \in {"STREAM-START"} \cup StartStates =>
              new.tagDirectives \in Seq(TagDirectives),
           ~Valid(queue[1]) \/ ~Accepts(new, queue[1])
    PROVE  IInv' /\ Advanced /\ RefusedStays
<1>1. emitter' = new /\ call' = "refused" /\ queue' = queue
  BY DEF Concluded
<1>2. ~NeedMoreEvents(queue) /\ queue \in Seq(CallerEvents)
  BY DEF IInv, Sees, Shapes
<1>3. Shapes'
  BY <1>1, <1>2 DEF Shapes
<1>4. Sees'
  BY <1>1 DEF Sees
<1>5. Stuck'
  <2>1. /\ ~NeedMoreEvents(queue') /\ call' # "returned"
        /\ ~Valid(queue'[1]) \/ ~Accepts(emitter', queue'[1])
    BY <1>1, <1>2
  <2>2. QED
    BY <2>1 DEF Stuck, NeedMoreEvents, Level, Valid, Accepts, NodeAccepted,
                TagDataOf, Refused, HandleTaken
<1>6. Nested'
  BY <1>1 DEF Nested
<1>7. Advanced
  BY <1>1 DEF Advanced
<1>8. Len(queue) \in Nat
  BY <1>2
<1>9. RefusedStays
  BY <1>1, <1>8 DEF RefusedStays
<1>10. QED
  BY <1>3, <1>4, <1>5, <1>6, <1>7, <1>9 DEF IInv

(* A step that takes the event at the head of the queue.                   *)
LEMMA TakenStep ==
    ASSUME IInv, call = "processing", NEW new, Concluded(new), new.ok = TRUE,
           TurnOutcome(new, Fresh, queue[1]), Valid(queue[1])
    PROVE  IInv' /\ Advanced /\ RefusedStays
<1> DEFINE e == queue[1]
<1>1. /\ emitter' = new /\ queue' = Tail(queue)
      /\ call' = IF NeedMoreEvents(queue') THEN "returned" ELSE "processing"
  BY DEF Concluded
<1>2. /\ queue \in Seq(CallerEvents) /\ queue # <<>> /\ Head(queue) = e
      /\ Tail(queue) \in Seq(CallerEvents)
  BY EnoughIsNotEmpty DEF IInv, Sees, Shapes
<1>3. /\ DOMAIN Fresh = Fields /\ Fresh.state = emitter.state
      /\ Fresh.states = emitter.states /\ Fresh.problem = emitter.problem
      /\ Fresh.tagDirectives = emitter.tagDirectives
  BY DEF Fresh, IInv, Shapes, Fields
<1>4. Accepts(emitter, e)
  <2>1. Accepts(Fresh, e)
    BY DEF TurnOutcome
  <2>2. QED
    BY <1>3, <2>1, AcceptsSame
<1>5. ~emitter.problem
  BY <1>4 DEF IInv, Stuck
<1>6. Structured(Fresh) /\ PhaseOf(Fresh) = PhaseOf(emitter) /\ OpenOf(Fresh) = OpenOf(emitter)
  BY <1>3, <1>5 DEF IInv, Nested, Structured, PhaseOf, OpenOf
<1>7. Moved(new, Fresh, e) /\ new.problem = Fresh.problem /\ DOMAIN new = Fields
  <2>1. Fresh.states \in Seq(States)
    BY <1>6 DEF Structured
  <2>2. QED
    BY <2>1 DEF TurnOutcome
<1>8. /\ Structured(new)
      /\ Produced(e.type, PhaseOf(emitter), PhaseOf(new), OpenOf(emitter), OpenOf(new))
  <2>1. ~Fresh.problem
    BY <1>3, <1>5
  <2>2. QED
    BY <1>6, <1>7, <2>1, MovedIsProduced
<1>9. new.problem = FALSE
  BY <1>3, <1>5, <1>7 DEF IInv, Shapes
<1>10. new.state \in {"STREAM-START"} \cup StartStates =>
          new.tagDirectives \in Seq(TagDirectives)
  <2>1. ASSUME new.state \in {"STREAM-START"} \cup StartStates
        PROVE  Fresh.state \in {"STREAM-START", "DOCUMENT-END"}
    BY <1>6, <1>7, <2>1, WhereDocumentsStart
  <2>2. Fresh.state = "STREAM-START" => new.tagDirectives \in Seq(TagDirectives)
    BY <1>3 DEF TurnOutcome, IInv, Shapes
  <2>3. Fresh.state = "DOCUMENT-END" => new.tagDirectives = <<>>
    BY DEF TurnOutcome
  <2>4. <<>> \in Seq(TagDirectives)
    OBVIOUS
  <2>5. CASE Fresh.state = "STREAM-START"
    BY <2>2, <2>5
  <2>6. CASE Fresh.state = "DOCUMENT-END"
    BY <2>3, <2>4, <2>6
  <2>7. CASE Fresh.state \notin {"STREAM-START", "DOCUMENT-END"}
    BY <2>1, <2>7
  <2>8. QED
    BY <2>5, <2>6, <2>7
<1>11. Shapes'
  BY <1>1, <1>2, <1>7, <1>9, <1>10 DEF Shapes
<1>12. Sees'
  <2>1. CASE NeedMoreEvents(queue')
    BY <1>1, <2>1 DEF Sees
  <2>2. CASE ~NeedMoreEvents(queue')
    BY <2>2 DEF Sees, NeedMoreEvents, Level
  <2>3. QED
    BY <2>1, <2>2
<1>13. Stuck'
  BY <1>1, <1>9 DEF Stuck
<1>14. Nested'
  BY <1>1, <1>8 DEF Nested, Structured
<1>15. Advanced
  <2>1. ~emitter'.problem
    BY <1>1, <1>9
  <2>2. PhaseOf(emitter)' = PhaseOf(new) /\ OpenOf(emitter)' = OpenOf(new)
    BY <1>1 DEF PhaseOf, OpenOf
  <2>3. QED
    BY <1>1, <1>2, <1>5, <1>8, <2>1, <2>2 DEF Advanced
<1>16. RefusedStays
  BY <1>5 DEF RefusedStays
<1>17. QED
  BY <1>11, <1>12, <1>13, <1>14, <1>15, <1>16 DEF IInv

(* So does the processing of the queue.                                    *)
LEMMA ProcessStep ==
    ASSUME CallerIsTyped, IInv, Process
    PROVE  IInv' /\ Advanced /\ RefusedStays
<1>1. /\ call = "processing"
      /\ \/ ~Valid(queue[1]) /\ Concluded(Refuse(emitter))
         \/ \E new : /\ Valid(queue[1])
                     /\ TurnOutcome(new, Fresh, queue[1])
                     /\ DocumentStartOutcome(new, Fresh, queue[1])
                     /\ Concluded(new)
  BY ProcessTurns DEF IInv
<1>2. DOMAIN emitter = Fields
  BY DEF IInv, Shapes
<1>3. CASE ~Valid(queue[1]) /\ Concluded(Refuse(emitter))
  <2> DEFINE new == Refuse(emitter)
  <2>1. /\ DOMAIN new = Fields /\ new.ok = FALSE /\ new.problem = TRUE
        /\ new.state = emitter.state /\ new.tagDirectives = emitter.tagDirectives
    BY <1>2, RefuseOutcome
  <2> HIDE DEF new
  <2>2. emitter.state \in {"STREAM-START"} \cup StartStates =>
           new.tagDirectives \in Seq(TagDirectives)
    BY <2>1 DEF IInv, Shapes
  <2>3. Concluded(new)
    BY <1>3 DEF new
  <2>4. QED
    BY <1>1, <1>3, <2>1, <2>2, <2>3, RefusedStep
<1>4. ASSUME NEW new, Valid(queue[1]), TurnOutcome(new, Fresh, queue[1]),
             DocumentStartOutcome(new, Fresh, queue[1]), Concluded(new)
      PROVE  IInv' /\ Advanced /\ RefusedStays
  <2>1. /\ Fresh.state = emitter.state
        /\ Fresh.tagDirectives = emitter.tagDirectives
    BY <1>2 DEF Fresh, Fields
  <2>2. new.ok \in BOOLEAN /\ DOMAIN new = Fields
    BY <1>4 DEF TurnOutcome, Accepts
  <2>3. CASE new.ok = TRUE
    BY <1>1, <1>4, <2>3, TakenStep
  <2>4. CASE new.ok = FALSE
    <3>1. new.problem = TRUE /\ new.state = emitter.state /\ ~Accepts(Fresh, queue[1])
      BY <1>4, <2>1, <2>4 DEF TurnOutcome
    <3>2. ~Accepts(new, queue[1])
      <4>1. CASE emitter.state \in StartStates
        BY <1>4, <2>1, <2>4, <4>1 DEF DocumentStartOutcome
      <4>2. CASE emitter.state \notin StartStates
        <5>1. new.tagDirectives = Fresh.tagDirectives
          BY <1>4, <2>1, <2>4, <4>2 DEF TurnOutcome
        <5>2. QED
          BY <2>1, <3>1, <5>1, AcceptsSame
      <4>3. QED
        BY <4>1, <4>2
    <3>3. emitter.state \in {"STREAM-START"} \cup StartStates =>
             new.tagDirectives \in Seq(TagDirectives)
      <4>1. emitter.state \in StartStates => new.tagDirectives \in Seq(TagDirectives)
        BY <1>4, <2>1, <2>4 DEF DocumentStartOutcome
      <4>2. emitter.state = "STREAM-START" => new.tagDirectives \in Seq(TagDirectives)
        BY <1>4, <2>1 DEF TurnOutcome, IInv, Shapes
      <4>3. QED
        BY <4>1, <4>2
    <3>4. QED
      BY <1>1, <1>4, <2>2, <2>4, <3>1, <3>2, <3>3, RefusedStep
  <2>5. QED
    BY <2>2, <2>3, <2>4
<1>5. QED
  BY <1>1, <1>3, <1>4

(* The invariant always holds, for callers whose directives are typed.     *)
LEMMA SpecIInv == ASSUME CallerIsTyped PROVE EmitterSpec => []IInv
<1>1. ASSUME IInv, [EmitterNext]_emitterVars PROVE IInv'
  <2>1. CASE UNCHANGED emitterVars
    BY <1>1, <2>1 DEF emitterVars, IInv, Shapes, Sees, Stuck, Nested, Structured,
       NeedMoreEvents, Level, Valid, Accepts, NodeAccepted, TagDataOf, Refused, HandleTaken
  <2>2. QED
    BY <1>1, <2>1, EmitStep, ProcessStep DEF EmitterNext
<1>2. QED
  BY InitIInv, <1>1, PTL DEF EmitterSpec

-----------------------------------------------------------------------------
(* The grammar of events, through the refinement mapping of Emitter.       *)
LEMMA ContractStep ==
    ASSUME NEW event,
           Produced(event, PhaseOf(emitter), PhaseOf(emitter)',
                    OpenOf(emitter), OpenOf(emitter)')
    PROVE  event \in Contract!Events /\ Contract!Produces(event)
<1>1. /\ EmitterPhase = PhaseOf(emitter) /\ EmitterPhase' = PhaseOf(emitter)'
      /\ EmitterOpen = OpenOf(emitter) /\ EmitterOpen' = OpenOf(emitter)'
  BY DEF EmitterPhase, EmitterOpen, PhaseOf, OpenOf
<1>2. Produced(event, EmitterPhase, EmitterPhase', EmitterOpen, EmitterOpen')
  BY <1>1
<1>3. event \in Contract!Events
  BY DEF Produced, Contract!Events
<1>4. /\ Contract!Counted = CountedOf(EmitterOpen)
      /\ \A kind : Contract!Frame(kind) = Frame(kind)
  BY DEF Contract!Counted, CountedOf, Contract!Frame, Frame
<1>5. Contract!Produces(event)
  BY <1>2, <1>4 DEF Produced, Contract!Produces, Contract!StreamStartEvent,
     Contract!DocumentStartEvent, Contract!LeafEvent, Contract!CollectionStartEvent,
     Contract!CollectionEndEvent, Contract!DocumentEndEvent, Contract!StreamEndEvent
<1>6. QED
  BY <1>3, <1>5

(* Every step is a step of the contract, or none.                          *)
LEMMA StepFollows ==
    ASSUME IInv, [EmitterNext]_emitterVars, CallerIsTyped
    PROVE  /\ [Contract!ConsumerNext]_<<EmitterPhase, EmitterOpen>>
           /\ [TakesWhatFits]_emitterVars
           /\ [RefusedStays]_emitterVars
<1>1. CASE UNCHANGED emitterVars
  BY <1>1 DEF emitterVars, EmitterPhase, EmitterOpen
<1>2. CASE EmitterNext
  <2>1. Advanced /\ RefusedStays
    BY <1>2, EmitStep, ProcessStep DEF EmitterNext
  <2>2. Len(queue) \in Nat /\ queue \in Seq(CallerEvents)
    BY DEF IInv, Shapes
  <2>3. CASE UNCHANGED emitter /\ Len(queue') >= Len(queue)
    <3>1. UNCHANGED <<EmitterPhase, EmitterOpen>>
      BY <2>3 DEF EmitterPhase, EmitterOpen
    <3>2. ~(Len(queue') < Len(queue))
      <4>1. CASE \E e \in CallerEvents : Emit(e)
        BY <2>2, <4>1 DEF Emit
      <4>2. CASE Process
        BY <2>3, <2>2, <4>2
      <4>3. QED
        BY <1>2, <4>1, <4>2 DEF EmitterNext
    <3>3. QED
      BY <2>1, <3>1, <3>2 DEF TakesWhatFits
  <2>4. CASE emitter'.problem /\ queue' = queue
    <3>1. EmitterPhase' = "failed"
      BY <2>4 DEF EmitterPhase
    <3>2. ~(Len(queue') < Len(queue))
      BY <2>2, <2>4
    <3>3. QED
      BY <2>1, <3>1, <3>2 DEF TakesWhatFits, Contract!ConsumerNext
  <2>5. CASE /\ ~emitter.problem /\ ~emitter'.problem
             /\ queue # <<>> /\ queue' = Tail(queue)
             /\ Produced(Head(queue).type, PhaseOf(emitter), PhaseOf(emitter)',
                         OpenOf(emitter), OpenOf(emitter)')
    <3>1. Head(queue).type \in Contract!Events /\ Contract!Produces(Head(queue).type)
      BY <2>5, ContractStep
    <3>2. Len(queue') < Len(queue)
      BY <2>2, <2>5
    <3>3. EmitterPhase # "failed"
      BY <2>5 DEF EmitterPhase
    <3>4. Contract!ConsumerNext
      BY <3>1, <3>3 DEF Contract!ConsumerNext
    <3>5. QED
      BY <2>1, <3>1, <3>2, <3>4 DEF TakesWhatFits
  <2>6. QED
    BY <2>1, <2>3, <2>4, <2>5 DEF Advanced
<1>3. QED
  BY <1>1, <1>2

(* The emitter starts where the contract starts.                           *)
LEMMA InitFollows == EmitterInit => Contract!GrammarInit
<1>1. EmitterInit => EmitterPhase = "start" /\ EmitterOpen = <<>>
  BY DEF EmitterInit, EmitterPhase, EmitterOpen, Collections, ItemStates, KeyStates, ValueStates
<1>2. QED
  BY <1>1 DEF Contract!GrammarInit

(* Whatever typed events a caller sends, in whatever order and number, the *)
(* events that yaml_emitter_emit takes from its queue are a stream of the  *)
(* grammar of events, each is taken for what it is, and the first that     *)
(* does not fit is refused and ends the stream.                            *)
THEOREM EmitterImplementsContract ==
    ASSUME CallerIsTyped PROVE EmitterSpec => ImplementsContract
<1>1. IInv /\ [EmitterNext]_emitterVars
         => /\ [Contract!ConsumerNext]_<<EmitterPhase, EmitterOpen>>
            /\ [TakesWhatFits]_emitterVars
  BY StepFollows
<1>2. QED
  BY InitFollows, SpecIInv, <1>1, PTL
  DEF EmitterSpec, ImplementsContract, FollowsContract, Contract!ConsumerSpec

(* A call behind a refusal never returns success, and the refused event is *)
(* never removed: the emitter can always see far enough to meet it again.  *)
THEOREM EmitterRefusalIsFinal ==
    ASSUME CallerIsTyped PROVE EmitterSpec => RefusalIsFinal
<1>1. IInv /\ [EmitterNext]_emitterVars
         => [emitter.problem => /\ emitter'.problem
                                /\ call' # "returned"
                                /\ Len(queue') >= Len(queue)]_emitterVars
  BY StepFollows DEF RefusedStays
<1>2. QED
  BY SpecIInv, <1>1, PTL DEF EmitterSpec, RefusalIsFinal

-----------------------------------------------------------------------------
(* A caller that keeps to the grammar.  What is held back in the queue     *)
(* leads from where the emitter is to where the caller is.                 *)
Leads(q, p, o, p2, o2) ==
    \E ps, os :
        /\ ps[0] = p /\ os[0] = o
        /\ ps[Len(q)] = p2 /\ os[Len(q)] = o2
        /\ \A k \in 1..Len(q) : Produced(q[k].type, ps[k - 1], ps[k], os[k - 1], os[k])

(* Nothing held back: the emitter is where the caller is.                  *)
LEMMA LeadsNowhere ==
    ASSUME NEW p, NEW o, NEW p2, NEW o2
    PROVE  Leads(<<>>, p, o, p2, o2) <=> p = p2 /\ o = o2
<1>1. Leads(<<>>, p, o, p2, o2) => p = p2 /\ o = o2
  BY DEF Leads
<1>2. ASSUME p = p2, o = o2 PROVE Leads(<<>>, p, o, p2, o2)
  <2> DEFINE ps == [k \in 0..0 |-> p]
             os == [k \in 0..0 |-> o]
  <2>1. ps[0] = p /\ os[0] = o /\ 0 = Len(<<>>) /\ 1..0 = {}
    OBVIOUS
  <2> HIDE DEF ps, os
  <2>2. QED
    BY <1>2, <2>1 DEF Leads
<1>3. QED
  BY <1>1, <1>2

(* One more event of the grammar behind the others.                        *)
LEMMA LeadsOn ==
    ASSUME NEW S, NEW q \in Seq(S), NEW e \in S, NEW p, NEW o, NEW p2, NEW o2, NEW p3, NEW o3,
           Leads(q, p, o, p2, o2), Produced(e.type, p2, p3, o2, o3)
    PROVE  Leads(Append(q, e), p, o, p3, o3)
<1> DEFINE n == Len(q)
           t == Append(q, e)
<1>1. PICK ps, os :
        /\ ps[0] = p /\ os[0] = o /\ ps[n] = p2 /\ os[n] = o2
        /\ \A k \in 1..n : Produced(q[k].type, ps[k - 1], ps[k], os[k - 1], os[k])
  BY DEF Leads
<1>2. n \in Nat /\ Len(t) = n + 1 /\ t[n + 1] = e /\ \A k \in 1..n : t[k] = q[k]
  BY Appended
<1> HIDE DEF n, t
<1> DEFINE ps2 == [k \in 0..(n + 1) |-> IF k = n + 1 THEN p3 ELSE ps[k]]
           os2 == [k \in 0..(n + 1) |-> IF k = n + 1 THEN o3 ELSE os[k]]
<1>3. /\ ps2[n + 1] = p3 /\ os2[n + 1] = o3
      /\ \A k \in 0..n : ps2[k] = ps[k] /\ os2[k] = os[k]
  BY <1>2
<1> HIDE DEF ps2, os2
<1>4. ASSUME NEW k \in 1..(n + 1)
      PROVE  Produced(t[k].type, ps2[k - 1], ps2[k], os2[k - 1], os2[k])
  <2>1. CASE k = n + 1
    <3>1. k - 1 = n /\ n \in 0..n
      BY <1>2, <2>1
    <3>2. QED
      BY <1>1, <1>2, <1>3, <2>1, <3>1
  <2>2. CASE k # n + 1
    <3>1. k \in 1..n /\ k \in 0..n /\ k - 1 \in 0..n
      BY <1>2, <2>2
    <3>2. QED
      BY <1>1, <1>2, <1>3, <3>1
  <2>3. QED
    BY <2>1, <2>2
<1>5. ps2[0] = p /\ os2[0] = o
  BY <1>1, <1>2, <1>3
<1>6. QED
  BY <1>2, <1>3, <1>4, <1>5 DEF Leads, t

(* The first event of what is held back, and the rest.                     *)
LEMMA LeadsBehind ==
    ASSUME NEW S, NEW q \in Seq(S), q # <<>>, NEW p, NEW o, NEW p2, NEW o2,
           Leads(q, p, o, p2, o2)
    PROVE  \E p1, o1 : /\ Produced(q[1].type, p, p1, o, o1)
                       /\ Leads(Tail(q), p1, o1, p2, o2)
<1> DEFINE n == Len(q)
           t == Tail(q)
<1>1. PICK ps, os :
        /\ ps[0] = p /\ os[0] = o /\ ps[n] = p2 /\ os[n] = o2
        /\ \A k \in 1..n : Produced(q[k].type, ps[k - 1], ps[k], os[k - 1], os[k])
  BY DEF Leads
<1>2. /\ n \in Nat \ {0} /\ Len(t) = n - 1
      /\ \A k \in 1..(n - 1) : t[k] = q[k + 1]
  OBVIOUS
<1> HIDE DEF n, t
<1>3. Produced(q[1].type, p, ps[1], o, os[1])
  <2>1. 1 \in 1..n /\ 1 - 1 = 0
    BY <1>2
  <2>2. QED
    BY <1>1, <2>1
<1> DEFINE ps2 == [k \in 0..(n - 1) |-> ps[k + 1]]
           os2 == [k \in 0..(n - 1) |-> os[k + 1]]
<1>4. \A k \in 0..(n - 1) : ps2[k] = ps[k + 1] /\ os2[k] = os[k + 1]
  OBVIOUS
<1> HIDE DEF ps2, os2
<1>5. ps2[0] = ps[1] /\ os2[0] = os[1] /\ ps2[n - 1] = p2 /\ os2[n - 1] = o2
  <2>1. 0 \in 0..(n - 1) /\ n - 1 \in 0..(n - 1) /\ (n - 1) + 1 = n /\ 0 + 1 = 1
    BY <1>2
  <2>2. QED
    BY <1>1, <1>4, <2>1
<1>6. ASSUME NEW k \in 1..(n - 1)
      PROVE  Produced(t[k].type, ps2[k - 1], ps2[k], os2[k - 1], os2[k])
  <2>1. /\ k + 1 \in 1..n /\ (k + 1) - 1 = k /\ (k - 1) + 1 = k
        /\ k \in 0..(n - 1) /\ k - 1 \in 0..(n - 1)
    BY <1>2
  <2>2. Produced(q[k + 1].type, ps[k], ps[k + 1], os[k], os[k + 1])
    BY <1>1, <2>1
  <2>3. QED
    BY <1>2, <1>4, <2>1, <2>2
<1>7. Leads(t, ps[1], os[1], p2, o2)
  BY <1>2, <1>5, <1>6 DEF Leads
<1>8. QED
  BY <1>3, <1>7 DEF t

(* The grammar leaves no choice to what an event leads to.                 *)
LEMMA ProducedOnce ==
    ASSUME NEW event, NEW p, NEW o, NEW p2, NEW o2, NEW p3, NEW o3,
           Produced(event, p, p2, o, o2), Produced(event, p, p3, o, o3)
    PROVE  p2 = p3 /\ o2 = o3
BY DEF Produced

-----------------------------------------------------------------------------
(* The text of tags and prefixes is a sequence.                            *)
CallerIsTextual ==
    /\ \A d \in TagDirectives : d.prefix \in Seq(TagAlphabet)
    /\ \A e \in CallerEvents :
          HasProperties(e) /\ Given(e.tag) => ValueOf(e.tag) \in Seq(TagAlphabet)

(* A tag that is not empty is written as something.                        *)
LEMMA TagIsNotNothing ==
    ASSUME NEW A, NEW D, \A d \in D : d.prefix \in Seq(A),
           NEW tag \in Seq(A), tag # <<>>, NEW directives \in Seq(D)
    PROVE  TagData(tag, directives) # NoTag
<1> DEFINE fits == {i \in DOMAIN directives : IsStrictPrefix(directives[i].prefix, tag)}
           first == CHOOSE i \in fits : \A j \in fits : i <= j
<1>1. CASE fits = {}
  BY <1>1 DEF TagData, NoTag
<1>2. CASE fits # {}
  <2>1. first \in fits
    <3>1. fits \subseteq Nat
      OBVIOUS
    <3>2. \E i \in fits : \A j \in fits : i <= j
      <4> HIDE DEF fits
      <4> QED BY <1>2, <3>1, LeastExists
    <3> HIDE DEF fits
    <3>3. QED
      BY <3>2
  <2> DEFINE prefix == directives[first].prefix
  <2>2. prefix \in Seq(A) /\ IsStrictPrefix(prefix, tag)
    BY <2>1
  <2>3. TagData(tag, directives).suffix = SubSeq(tag, Len(prefix) + 1, Len(tag))
    BY <1>2 DEF TagData
  <2> HIDE DEF prefix, first, fits
  <2>4. Len(prefix) < Len(tag)
    <3>1. /\ Len(prefix) <= Len(tag) /\ prefix # tag
          /\ SubSeq(prefix, 1, Len(prefix)) = SubSeq(tag, 1, Len(prefix))
      BY <2>2 DEF IsStrictPrefix, IsPrefix
    <3>2. \A s \in Seq(A) : SubSeq(s, 1, Len(s)) = s /\ Len(s) \in Nat
      OBVIOUS
    <3>3. CASE Len(prefix) = Len(tag)
      BY <2>2, <3>1, <3>2, <3>3
    <3>4. QED
      BY <2>2, <3>1, <3>2, <3>3
  <2>5. Len(SubSeq(tag, Len(prefix) + 1, Len(tag))) # 0
    <3>1. Len(prefix) \in Nat /\ Len(tag) \in Nat
      BY <2>2
    <3>2. QED
      BY <2>4, <3>1
  <2>6. NoTag.suffix = <<>>
    BY DEF NoTag
  <2>7. QED
    BY <2>3, <2>5, <2>6
<1>3. QED
  BY <1>1, <1>2

(* What the grammar has there, the emitter accepts.                        *)
LEMMA GrammarIsAccepted ==
    ASSUME CallerIsTextual, NEW em, Structured(em), ~em.problem,
           em.tagDirectives \in Seq(AllDirectives),
           em.state \in StartStates => em.tagDirectives = <<>>,
           NEW e \in CallerEvents, Good(e), NEW p, NEW o,
           Produced(e.type, PhaseOf(em), p, OpenOf(em), o)
    PROVE  Accepts(em, e)
<1> DEFINE P == PhaseOf(em)
           O == OpenOf(em)
<1>1. /\ P = "start" => em.state = "STREAM-START"
      /\ P = "stream" => em.state \in StartStates
      /\ P = "root" => em.state = "DOCUMENT-END"
      /\ P = "document" => em.state \in NodeStates
  BY DEF PhaseOf, Structured, States, NodeStates, Collections, StartStates
<1>2. CASE e.type = "STREAM-START" /\ P = "start"
  BY <1>1, <1>2 DEF Accepts
<1>3. CASE e.type = "DOCUMENT-START" /\ P = "stream"
  <2>1. em.state \in StartStates /\ em.tagDirectives = <<>>
    BY <1>1, <1>3
  <2>2. ~(Given(e.version) /\ ~ValidVersion(ValueOf(e.version)))
    BY <1>3 DEF Good
  <2>3. Refused(em, e.directives) = {}
    <3>1. \A d : ~HandleTaken(em, d)
      BY <2>1 DEF HandleTaken
    <3>2. ASSUME NEW i \in DOMAIN e.directives
          PROVE  /\ ValidDirective(e.directives[i])
                 /\ \A j \in 1..(i - 1) : e.directives[j].handle # e.directives[i].handle
      BY <1>3 DEF Good
    <3>3. QED
      BY <3>1, <3>2 DEF Refused
  <2>4. QED
    BY <1>3, <2>1, <2>2, <2>3 DEF Accepts
<1>4. CASE e.type \in {"ALIAS", "SCALAR", "SEQUENCE-START", "MAPPING-START"} /\ P = "document"
  <2>1. NodeAccepted(em, e)
    <3>1. CASE e.type \in {"ALIAS", "SEQUENCE-START", "MAPPING-START"}
      BY <3>1 DEF NodeAccepted
    <3>2. CASE e.type = "SCALAR" /\ (e.plainImplicit \/ e.quotedImplicit)
      BY <3>2 DEF NodeAccepted
    <3>3. CASE e.type = "SCALAR" /\ TagIsWritten(e)
      <4>1. HasProperties(e) /\ Given(e.tag)
        BY <3>3 DEF HasProperties, TagIsWritten
      <4> DEFINE A == TagAlphabet \cup {"!", "T"}
      <4>2. ValueOf(e.tag) \in Seq(A) /\ ValueOf(e.tag) # <<>>
        BY <3>3, <4>1 DEF CallerIsTextual, Good, Valid
      <4>3. \A d \in AllDirectives : d.prefix \in Seq(A)
        <5>1. PrimaryDefault.prefix = <<"!">> /\ SecondaryDefault.prefix = <<"T">>
          BY DEF PrimaryDefault, SecondaryDefault
        <5>2. <<"!">> \in Seq(A) /\ <<"T">> \in Seq(A)
          OBVIOUS
        <5>3. \A t \in Seq(TagAlphabet) : t \in Seq(A)
          OBVIOUS
        <5> HIDE DEF A
        <5>4. QED
          BY <5>1, <5>2, <5>3 DEF AllDirectives, CallerIsTextual
      <4>4. TagData(ValueOf(e.tag), em.tagDirectives) # NoTag
        <5> HIDE DEF A
        <5> QED BY <4>2, <4>3, TagIsNotNothing
      <4>5. TagDataOf(em, e) # NoTag
        BY <3>3, <4>4 DEF TagDataOf
      <4>6. QED
        BY <3>3, <4>5 DEF NodeAccepted
    <3>4. QED
      BY <1>4, <3>1, <3>2, <3>3 DEF Good
  <2>2. QED
    BY <1>1, <1>4, <2>1 DEF Accepts
<1>5. ASSUME NEW kind \in {"sequence", "mapping"},
             e.type = IF kind = "sequence" THEN "SEQUENCE-END" ELSE "MAPPING-END",
             O # <<>>, O[Len(O)].kind = kind, ~O[Len(O)].odd
      PROVE  Accepts(em, e)
  <2>1. em.state \in Collections
    BY <1>5, OpenOutside
  <2>2. O[Len(O)] = FrameOf(em.state)
    BY <2>1, OpenInside
  <2>3. FrameOf(em.state).kind = kind /\ ~FrameOf(em.state).odd
    BY <1>5, <2>2
  <2>4. e.type \in EndsOf(em.state)
    <3>1. em.state \notin ValueStates
      BY <2>3, StateFrames
    <3>2. em.state \in ItemStates => kind = "sequence"
      BY <2>3, StateFrames
    <3>3. em.state \in KeyStates => kind = "mapping" /\ em.state \notin ItemStates
      BY <2>3, StateFrames DEF KeyStates, ItemStates
    <3>4. QED
      BY <1>5, <2>1, <3>1, <3>2, <3>3 DEF EndsOf, Collections
  <2>5. QED
    BY <2>1, <2>4 DEF Accepts
<1>6. CASE e.type = "DOCUMENT-END" /\ P = "root"
  BY <1>1, <1>6 DEF Accepts
<1>7. CASE e.type = "STREAM-END" /\ P = "stream"
  BY <1>1, <1>7 DEF Accepts
<1> HIDE DEF P, O
<1>8. Produced(e.type, P, p, O, o)
  BY DEF P, O
<1>9. QED
  BY <1>2, <1>3, <1>4, <1>5, <1>6, <1>7, <1>8 DEF Produced

-----------------------------------------------------------------------------
(* What holds with a caller that has come to the phase p with the          *)
(* collections o open.                                                     *)
Promised(em, q, c, p, o) ==
    /\ ~em.problem
    /\ \A k \in DOMAIN q : Good(q[k])
    /\ em.tagDirectives \in Seq(AllDirectives)
    /\ em.state \in {"STREAM-START"} \cup StartStates => em.tagDirectives = <<>>
    /\ Leads(q, PhaseOf(em), OpenOf(em), p, o)
    /\ c = "returned" => NeedMoreEvents(q)

(* Before the first event.                                                 *)
LEMMA InitPromised == EmitterInit => Promised(emitter, queue, call, "start", <<>>)
<1> SUFFICES ASSUME EmitterInit PROVE Promised(emitter, queue, call, "start", <<>>)
  OBVIOUS
<1>1. /\ queue = <<>> /\ emitter.state = "STREAM-START" /\ emitter.tagDirectives = <<>>
      /\ emitter.problem = FALSE
  BY DEF EmitterInit
<1>2. PhaseOf(emitter) = "start"
  BY <1>1 DEF PhaseOf
<1>3. OpenOf(emitter) = <<>>
  BY <1>1, OpenOutside DEF Collections, ItemStates, KeyStates, ValueStates
<1>4. Leads(queue, PhaseOf(emitter), OpenOf(emitter), "start", <<>>)
  BY <1>1, <1>2, <1>3, LeadsNowhere
<1>5. NeedMoreEvents(queue) /\ DOMAIN queue = {}
  BY <1>1 DEF NeedMoreEvents
<1>6. QED
  BY <1>1, <1>4, <1>5 DEF Promised

(* A good event behind the others.                                         *)
LEMMA EmitPromised ==
    ASSUME IInv, NEW p, NEW o, Promised(emitter, queue, call, p, o),
           NEW e \in CallerEvents, Good(e), Emit(e),
           NEW p2, NEW o2, Produced(e.type, p, p2, o, o2)
    PROVE  Promised(emitter', queue', call', p2, o2)
<1>1. /\ emitter' = emitter /\ queue' = Append(queue, e)
      /\ call' = IF NeedMoreEvents(Append(queue, e)) THEN "returned" ELSE "processing"
  BY DEF Emit, NeedMoreEvents, Level
<1>2. queue \in Seq(CallerEvents)
  BY DEF IInv, Shapes
<1>3. Leads(Append(queue, e), PhaseOf(emitter), OpenOf(emitter), p2, o2)
  BY <1>2, LeadsOn DEF Promised
<1>4. ASSUME NEW k \in DOMAIN Append(queue, e) PROVE Good(Append(queue, e)[k])
  <2>1. k = Len(queue) + 1 \/ k \in DOMAIN queue
    BY <1>2
  <2>2. CASE k = Len(queue) + 1
    BY <1>2, <2>2
  <2>3. CASE k \in DOMAIN queue
    BY <1>2, <2>3 DEF Promised
  <2>4. QED
    BY <2>1, <2>2, <2>3
<1>5. QED
  BY <1>1, <1>3, <1>4 DEF Promised

(* The event at the head is accepted and taken.                            *)
LEMMA ProcessPromised ==
    ASSUME CallerIsTyped, CallerIsTextual, IInv, NEW p, NEW o,
           Promised(emitter, queue, call, p, o), Process
    PROVE  Promised(emitter', queue', call', p, o)
<1> DEFINE e == queue[1]
<1>1. /\ call = "processing"
      /\ \/ ~Valid(e) /\ Concluded(Refuse(emitter))
         \/ \E new : /\ Valid(e) /\ TurnOutcome(new, Fresh, e)
                     /\ DocumentStartOutcome(new, Fresh, e) /\ Concluded(new)
  BY ProcessTurns DEF IInv
<1>2. /\ queue \in Seq(CallerEvents) /\ queue # <<>> /\ 1 \in DOMAIN queue
      /\ e \in CallerEvents /\ Head(queue) = e
  BY <1>1, EnoughIsNotEmpty DEF IInv, Shapes, Sees
<1>3. Good(e) /\ Valid(e)
  BY <1>2 DEF Promised, Good
<1>4. PICK new : /\ TurnOutcome(new, Fresh, e)
                 /\ DocumentStartOutcome(new, Fresh, e) /\ Concluded(new)
  BY <1>1, <1>3
<1>5. /\ DOMAIN Fresh = Fields /\ Fresh.state = emitter.state
      /\ Fresh.states = emitter.states /\ Fresh.problem = emitter.problem
      /\ Fresh.tagDirectives = emitter.tagDirectives
  BY DEF Fresh, IInv, Shapes, Fields
<1>6. PICK p1, o1 : /\ Produced(e.type, PhaseOf(emitter), p1, OpenOf(emitter), o1)
                    /\ Leads(Tail(queue), p1, o1, p, o)
  <2>1. Leads(queue, PhaseOf(emitter), OpenOf(emitter), p, o)
    BY DEF Promised
  <2>2. QED
    BY <1>2, <2>1, LeadsBehind
<1>7. Structured(emitter) /\ ~emitter.problem
  BY DEF IInv, Nested, Promised
<1>8. Accepts(emitter, e)
  BY <1>2, <1>3, <1>6, <1>7, GrammarIsAccepted DEF Promised
<1>9. new.ok = TRUE
  <2>1. Accepts(Fresh, e) <=> Accepts(emitter, e)
    BY <1>5, AcceptsSame
  <2>2. new.ok = Accepts(Fresh, e) /\ Accepts(Fresh, e) \in BOOLEAN
    BY <1>4 DEF TurnOutcome, Accepts
  <2>3. QED
    BY <1>8, <2>1, <2>2
<1>10. /\ emitter' = new /\ queue' = Tail(queue)
       /\ call' = IF NeedMoreEvents(Tail(queue)) THEN "returned" ELSE "processing"
  BY <1>4, <1>9 DEF Concluded, NeedMoreEvents, Level
<1>11. Structured(Fresh) /\ PhaseOf(Fresh) = PhaseOf(emitter) /\ OpenOf(Fresh) = OpenOf(emitter)
  BY <1>5, <1>7 DEF Structured, PhaseOf, OpenOf
<1>12. Moved(new, Fresh, e) /\ new.problem = Fresh.problem
  <2>1. Fresh.states \in Seq(States)
    BY <1>11 DEF Structured
  <2>2. QED
    BY <1>4, <1>9, <2>1 DEF TurnOutcome
<1>13. Produced(e.type, PhaseOf(emitter), PhaseOf(new), OpenOf(emitter), OpenOf(new))
  BY <1>5, <1>7, <1>11, <1>12, MovedIsProduced
<1>14. p1 = PhaseOf(new) /\ o1 = OpenOf(new)
  BY <1>6, <1>13, ProducedOnce
<1>15. ASSUME NEW k \in DOMAIN Tail(queue) PROVE Good(Tail(queue)[k])
  BY <1>2 DEF Promised
<1>16. new.tagDirectives \in Seq(AllDirectives)
  <2>1. CASE Fresh.state \in StartStates
    BY <1>4, <2>1 DEF DocumentStartOutcome
  <2>2. CASE Fresh.state \notin StartStates
    <3>1. new.tagDirectives = Fresh.tagDirectives \/ new.tagDirectives = <<>>
      BY <1>4, <1>9, <2>2 DEF TurnOutcome
    <3>2. <<>> \in Seq(AllDirectives)
      OBVIOUS
    <3>3. QED
      BY <1>5, <3>1, <3>2 DEF Promised
  <2>3. QED
    BY <2>1, <2>2
<1>17. ASSUME new.state \in {"STREAM-START"} \cup StartStates PROVE new.tagDirectives = <<>>
  <2>1. Fresh.state \in {"STREAM-START", "DOCUMENT-END"}
    BY <1>11, <1>12, <1>17, WhereDocumentsStart
  <2>2. Fresh.state = "STREAM-START" => new.tagDirectives = <<>>
    BY <1>4, <1>5 DEF TurnOutcome, Promised
  <2>3. Fresh.state = "DOCUMENT-END" => new.tagDirectives = <<>>
    BY <1>4, <1>9 DEF TurnOutcome
  <2>4. QED
    BY <2>1, <2>2, <2>3
<1>18. ~new.problem
  BY <1>5, <1>7, <1>12
<1>19. QED
  BY <1>6, <1>10, <1>14, <1>15, <1>16, <1>17, <1>18 DEF Promised

(* What is held back cannot reach the end of the stream.                   *)
LEMMA HeldBackIsNoEnd ==
    ASSUME NEW S, NEW q \in Seq(S), q # <<>>, NeedMoreEvents(q),
           NEW p, NEW o, NEW o2, Leads(q, p, o, "end", o2)
    PROVE  FALSE
<1> DEFINE n == Len(q)
           type == q[1].type
<1>1. PICK ps, os :
        /\ ps[0] = p /\ os[0] = o /\ ps[n] = "end" /\ os[n] = o2
        /\ \A k \in 1..n : Produced(q[k].type, ps[k - 1], ps[k], os[k - 1], os[k])
  BY DEF Leads
<1>2. n \in Nat \ {0}
  OBVIOUS
<1>3. \/ type = "DOCUMENT-START" /\ n <= 1
      \/ type = "SEQUENCE-START" /\ n <= 2
      \/ type = "MAPPING-START" /\ n <= 3
  BY <1>2 DEF NeedMoreEvents, Accumulated
<1> HIDE DEF n
<1>4. Produced(type, ps[0], ps[1], os[0], os[1])
  <2>1. 1 \in 1..n /\ 1 - 1 = 0
    BY <1>2
  <2>2. QED
    BY <1>1, <2>1
<1>5. ps[1] = "document"
  BY <1>3, <1>4 DEF Produced
<1>6. n > 1 => ps[2] \in {"document", "root"}
  <2>1. ASSUME n > 1 PROVE Produced(q[2].type, ps[1], ps[2], os[1], os[2])
    <3>1. 2 \in 1..n /\ 2 - 1 = 1
      BY <1>2, <2>1
    <3>2. QED
      BY <1>1, <3>1
  <2>2. QED
    BY <1>5, <2>1 DEF Produced
<1>7. n > 2 => ps[3] \in {"document", "root", "stream"}
  <2>1. ASSUME n > 2 PROVE Produced(q[3].type, ps[2], ps[3], os[2], os[3])
    <3>1. 3 \in 1..n /\ 3 - 1 = 2
      BY <1>2, <2>1
    <3>2. QED
      BY <1>1, <3>1
  <2>2. QED
    BY <1>2, <1>6, <2>1 DEF Produced
<1>8. QED
  BY <1>1, <1>2, <1>3, <1>5, <1>6, <1>7

-----------------------------------------------------------------------------
(* The composition of such a caller with the emitter.                      *)
CallerNext ==
    \/ \E e \in CallerEvents : SendGood(e)
    \/ Process /\ UNCHANGED <<callerPhase, callerOpen>>

CallerSpec == CallerInit /\ [][CallerNext]_<<emitterVars, callerPhase, callerOpen>>

KeepsPromise == Promised(emitter, queue, call, callerPhase, callerOpen)

(* A step of the caller is one that the grammar has, unless it has gone    *)
(* wrong before.                                                           *)
LEMMA CallerFollows ==
    ASSUME NEW e \in CallerEvents, SendGood(e)
    PROVE  Produced(e.type, callerPhase, callerPhase', callerOpen, callerOpen')
<1>1. e.type # "NO-EVENT" /\ Stream!Produces(e.type)
  BY DEF SendGood, Good, Stream!Events
<1>2. /\ Stream!Counted = CountedOf(callerOpen)
      /\ \A kind : Stream!Frame(kind) = Frame(kind)
  BY DEF Stream!Counted, CountedOf, Stream!Frame, Frame
<1>3. QED
  BY <1>1, <1>2 DEF Produced, Stream!Produces, Stream!StreamStartEvent,
     Stream!DocumentStartEvent, Stream!LeafEvent, Stream!CollectionStartEvent,
     Stream!CollectionEndEvent, Stream!DocumentEndEvent, Stream!StreamEndEvent

(* The promise is kept by every step.                                      *)
LEMMA CallerStep ==
    ASSUME CallerIsTyped, CallerIsTextual, IInv, KeepsPromise,
           [CallerNext]_<<emitterVars, callerPhase, callerOpen>>
    PROVE  KeepsPromise'
<1>1. ASSUME NEW p, NEW o, p = callerPhase', o = callerOpen',
             Promised(emitter', queue', call', p, o)
      PROVE  KeepsPromise'
  BY <1>1 DEF KeepsPromise, Promised, NeedMoreEvents, Level, Leads, PhaseOf, OpenOf
<1>2. PICK p, o : p = callerPhase' /\ o = callerOpen'
  OBVIOUS
<1>3. Promised(emitter', queue', call', p, o)
  <2>1. CASE \E e \in CallerEvents : SendGood(e)
    <3>1. PICK e \in CallerEvents : SendGood(e)
      BY <2>1
    <3>2. Produced(e.type, callerPhase, p, callerOpen, o)
      BY <1>2, <3>1, CallerFollows
    <3>3. QED
      BY <3>1, <3>2, EmitPromised DEF SendGood, KeepsPromise
  <2>2. CASE Process /\ UNCHANGED <<callerPhase, callerOpen>>
    BY <1>2, <2>2, ProcessPromised DEF KeepsPromise
  <2>3. CASE UNCHANGED <<emitterVars, callerPhase, callerOpen>>
    <3>1. /\ emitter' = emitter /\ queue' = queue /\ call' = call
          /\ p = callerPhase /\ o = callerOpen
      BY <1>2, <2>3 DEF emitterVars
    <3>2. QED
      BY <3>1 DEF KeepsPromise
  <2>4. QED
    BY <2>1, <2>2, <2>3 DEF CallerNext
<1>4. QED
  BY <1>1, <1>2, <1>3

(* What the promise is good for.                                           *)
LEMMA PromiseIsGood == IInv /\ KeepsPromise => GoodStreamsAreWritten
<1> SUFFICES ASSUME IInv, KeepsPromise PROVE GoodStreamsAreWritten
  OBVIOUS
<1>1. /\ ~emitter.problem
      /\ Leads(queue, PhaseOf(emitter), OpenOf(emitter), callerPhase, callerOpen)
      /\ call = "returned" => NeedMoreEvents(queue)
  BY DEF KeepsPromise, Promised
<1>2. queue = <<>> => EmitterPhase = callerPhase /\ EmitterOpen = callerOpen
  <2>1. EmitterPhase = PhaseOf(emitter) /\ EmitterOpen = OpenOf(emitter)
    BY DEF EmitterPhase, EmitterOpen, PhaseOf, OpenOf
  <2>2. QED
    BY <1>1, <2>1, LeadsNowhere
<1>3. call = "returned" /\ callerPhase = "end" => queue = <<>>
  <2>1. queue \in Seq(CallerEvents)
    BY DEF IInv, Shapes
  <2>2. QED
    BY <1>1, <2>1, HeldBackIsNoEnd
<1>4. QED
  BY <1>1, <1>2, <1>3 DEF GoodStreamsAreWritten

(* A caller that sends a stream of the grammar, of events that are good in *)
(* themselves, is never refused, however deep and long the stream is; when *)
(* it has sent the last event and the call returns, nothing is left in the *)
(* queue.                                                                  *)
THEOREM GoodCallersAreServed ==
    ASSUME CallerIsTyped, CallerIsTextual PROVE CallerSpec => []GoodStreamsAreWritten
<1>1. CallerSpec => EmitterSpec
  <2>1. CallerInit => EmitterInit
    BY DEF CallerInit
  <2>2. [CallerNext]_<<emitterVars, callerPhase, callerOpen>> => [EmitterNext]_emitterVars
    BY DEF CallerNext, EmitterNext, SendGood, emitterVars
  <2>3. QED
    BY <2>1, <2>2, PTL DEF CallerSpec, EmitterSpec
<1>2. CallerInit => KeepsPromise
  BY InitPromised DEF CallerInit, KeepsPromise
<1>3. IInv /\ KeepsPromise /\ [CallerNext]_<<emitterVars, callerPhase, callerOpen>>
         => KeepsPromise'
  BY CallerStep
<1>4. QED
  BY SpecIInv, <1>1, <1>2, <1>3, PromiseIsGood, PTL DEF CallerSpec

-----------------------------------------------------------------------------
(* Types.  What is written is text all along, character by character, and  *)
(* the indentation and the flow level return to what they were.            *)

(* The characters that the emitter writes by itself, and what a tag may be *)
(* written with: what stands for itself or has a code.                     *)
OwnCharacters == Letters \cup Digits
                 \cup {" ", "\n", "!", "<", ">", "%", ".", "-", "[", "]", "{", "}", ",", "?",
                       ":", "&", "*", "'", "\"", "\\", "+", "|"}
TagSymbols == Letters \cup Digits \cup {"_", "-"} \cup TagCharacters \cup DOMAIN Codes

Symbols == TextAlphabet \cup OwnCharacters \cup TagSymbols
Texts == Seq(Symbols)
Outputs == [text : Texts, column : Nat, whitespace : BOOLEAN, indention : BOOLEAN,
            openEnded : 0..2]
Indents == Nat \cup {-1}

(* All of these are there.                                                 *)
LEMMA OwnSymbols ==
    /\ \A c \in {" ", "\n", "!", "<", ">", "%", ".", "-", "[", "]", "{", "}", ",", "?",
               ":", "&", "*", "'", "\"", "\\", "+", "|", "Y", "G", "n", "t", "1", "2"} :
          c \in Symbols
    /\ TagSymbols \subseteq Symbols /\ TextAlphabet \subseteq Symbols
    /\ \A i \in 1..10 : DigitOrder[i] \in Symbols
<1>1. /\ \A c \in {" ", "\n", "!", "<", ">", "%", ".", "-", "[", "]", "{", "}", ",", "?",
               ":", "&", "*", "'", "\"", "\\", "+", "|", "Y", "G", "n", "t", "1", "2"} :
          c \in OwnCharacters
  BY DEF OwnCharacters, Letters, Digits
<1>2. OwnCharacters \subseteq Symbols
  BY DEF Symbols
<1>3. \A i \in 1..10 : DigitOrder[i] \in Digits
  BY DEF DigitOrder, Digits
<1>4. TagSymbols \subseteq Symbols /\ TextAlphabet \subseteq Symbols
  BY DEF Symbols
<1>5. Digits \subseteq Symbols
  BY <1>2 DEF OwnCharacters
<1>6. QED
  BY <1>1, <1>2, <1>3, <1>4, <1>5

(* One character, several, and a line break more.                          *)
LEMMA PutTyped ==
    ASSUME NEW o \in Outputs
    PROVE  /\ \A c \in Symbols : Put(o, c) \in Outputs
           /\ \A s \in Texts : PutAll(o, s) \in Outputs
           /\ PutBreak(o) \in Outputs /\ PutBreak(o).column = 0
<1>1. o.text \in Texts /\ o.column \in Nat
  BY DEF Outputs
<1>2. ASSUME NEW t \in Texts, NEW n \in Nat
      PROVE  [o EXCEPT !.text = t, !.column = n] \in Outputs
  BY Zenon DEF Outputs
<1>3. ASSUME NEW c \in Symbols PROVE Put(o, c) \in Outputs
  <2>1. Append(o.text, c) \in Texts /\ o.column + 1 \in Nat
    BY <1>1, Appended DEF Texts
  <2>2. QED
    BY <1>2, <2>1 DEF Put
<1>4. ASSUME NEW s \in Texts PROVE PutAll(o, s) \in Outputs
  <2>1. o.text \o s \in Texts /\ Len(s) \in Nat
    BY <1>1, Concatenation DEF Texts
  <2>2. o.column + Len(s) \in Nat
    BY <1>1, <2>1
  <2>3. QED
    BY <1>2, <2>1, <2>2 DEF PutAll
<1>5. PutBreak(o) \in Outputs /\ PutBreak(o).column = 0
  <2>1. Append(o.text, "\n") \in Texts /\ 0 \in Nat
    BY <1>1, OwnSymbols, Appended DEF Texts
  <2>2. PutBreak(o) \in Outputs
    BY <1>2, <2>1 DEF PutBreak
  <2>3. PutBreak(o).column = 0
    BY Zenon DEF PutBreak, Outputs
  <2>4. QED
    BY <2>2, <2>3
<1>6. QED
  BY <1>3, <1>4, <1>5

(* The flags, and whether the document is left open.                       *)
LEMMA FlagsTyped ==
    ASSUME NEW o \in Outputs, NEW a \in BOOLEAN, NEW b \in BOOLEAN
    PROVE  /\ [o EXCEPT !.indention = a] \in Outputs
           /\ [o EXCEPT !.indention = a, !.whitespace = b] \in Outputs
           /\ [o EXCEPT !.whitespace = a, !.indention = b] \in Outputs
           /\ [o EXCEPT !.whitespace = a, !.indention = @ /\ b, !.openEnded = 0] \in Outputs
<1>1. [o EXCEPT !.indention = a] \in Outputs
  BY Zenon DEF Outputs
<1>2. ASSUME NEW c \in BOOLEAN, NEW d \in BOOLEAN
      PROVE  /\ [o EXCEPT !.indention = c, !.whitespace = d] \in Outputs
             /\ [o EXCEPT !.whitespace = c, !.indention = d] \in Outputs
  BY Zenon DEF Outputs
<1>3. ASSUME NEW d \in BOOLEAN
      PROVE  [o EXCEPT !.whitespace = a, !.indention = d, !.openEnded = 0] \in Outputs
  <2>1. 0 \in 0..2
    OBVIOUS
  <2>2. QED
    BY <2>1, Zenon DEF Outputs
<1>4. [o EXCEPT !.whitespace = a, !.indention = @ /\ b, !.openEnded = 0] \in Outputs
  <2>1. (o.indention /\ b) \in BOOLEAN
    BY Zenon
  <2>2. QED
    BY <1>3, <2>1, Zenon
<1>5. QED
  BY <1>1, <1>2, <1>4, Zenon

(* Text that is written in a line.                                         *)
LEMMA InlineTyped ==
    ASSUME NEW o \in Outputs
    PROVE  Inline(o) \in Outputs /\ \A n \in 0..2 : [o EXCEPT !.openEnded = n] \in Outputs
<1>1. Inline(o) \in Outputs
  BY Zenon DEF Inline, Outputs
<1>2. ASSUME NEW n \in 0..2 PROVE [o EXCEPT !.openEnded = n] \in Outputs
  BY Zenon DEF Outputs
<1>3. QED
  BY <1>1, <1>2

(* Spaces are text.                                                        *)
LEMMA SpacesTyped == ASSUME NEW n \in Nat PROVE Spaces(n) \in Texts
<1>1. " " \in Symbols
  BY OwnSymbols
<1>2. \A i \in 1..n : Spaces(n)[i] \in Symbols
  BY <1>1 DEF Spaces
<1>3. Spaces(n) = [i \in 1..n |-> Spaces(n)[i]]
  BY DEF Spaces
<1>4. QED
  BY <1>2, <1>3 DEF Texts

(* A new line, with its indentation.                                       *)
LEMMA WriteIndentTyped ==
    ASSUME NEW o \in Outputs, NEW indent \in Indents
    PROVE  WriteIndent(o, indent) \in Outputs
<1> DEFINE column == IF indent >= 0 THEN indent ELSE 0
           lines == \/ ~o.indention
                    \/ o.column > column
                    \/ o.column = column /\ ~o.whitespace
           start == IF lines THEN PutBreak(o) ELSE o
           filled == PutAll(start, Spaces(column - start.column))
<1>1. WriteIndent(o, indent) = [filled EXCEPT !.whitespace = TRUE, !.indention = TRUE]
  BY DEF WriteIndent
<1>2. column \in Nat /\ o.column \in Nat
  BY DEF Indents, Outputs
<1>3. start \in Outputs /\ column - start.column \in Nat
  <2>1. CASE lines
    <3>1. start = PutBreak(o)
      BY <2>1
    <3> HIDE DEF start, column
    <3>2. QED
      BY <1>2, <3>1, PutTyped
  <2>2. CASE ~lines
    <3>1. start = o /\ o.column <= column
      BY <1>2, <2>2
    <3> HIDE DEF start, column
    <3>2. QED
      BY <1>2, <3>1
  <2>3. QED
    BY <2>1, <2>2
<1> HIDE DEF start, column
<1>4. filled \in Outputs
  BY <1>3, SpacesTyped, PutTyped
<1> HIDE DEF filled
<1>5. [filled EXCEPT !.whitespace = TRUE, !.indention = TRUE] \in Outputs
  BY <1>4, FlagsTyped, Zenon
<1>6. QED
  BY <1>1, <1>5

(* A character that is written by itself, and the indicators.              *)
LEMMA WriteIndicatorTyped ==
    ASSUME NEW o \in Outputs, NEW s \in Texts,
           NEW a \in BOOLEAN, NEW b \in BOOLEAN, NEW c \in BOOLEAN
    PROVE  WriteIndicator(o, s, a, b, c) \in Outputs /\ Separated(o) \in Outputs
<1>1. Separated(o) \in Outputs
  BY PutTyped, OwnSymbols DEF Separated
<1> DEFINE start == IF a THEN Separated(o) ELSE o
<1>2. start \in Outputs
  BY <1>1
<1> HIDE DEF start
<1>3. PutAll(start, s) \in Outputs
  BY <1>2, PutTyped
<1> DEFINE put == PutAll(start, s)
<1>4. WriteIndicator(o, s, a, b, c) =
        [put EXCEPT !.whitespace = b, !.indention = @ /\ c, !.openEnded = 0]
  BY DEF WriteIndicator, start
<1> HIDE DEF put
<1>5. [put EXCEPT !.whitespace = b, !.indention = @ /\ c, !.openEnded = 0] \in Outputs
  BY <1>3, FlagsTyped, Zenon DEF put
<1>6. QED
  BY <1>1, <1>4, <1>5

(* What is escaped in a tag has a code.                                    *)
LEMMA CodesTyped == \A c \in DOMAIN Codes : Codes[c] \in Texts
<1> SUFFICES ASSUME NEW c \in DOMAIN Codes PROVE Codes[c] \in Texts
  OBVIOUS
<1>1. \A d \in Digits \cup {"a"} : d \in Symbols
  BY ZenonT(40) DEF Symbols, OwnCharacters, Letters
<1>2. c \in {"!", " ", "%", "#", "\t", "\n"}
  BY ZenonT(40) DEF Codes
<1>3. \E a, b \in Digits \cup {"a"} : Codes[c] = <<a, b>>
  BY <1>2 DEF Codes, Digits
<1>4. QED
  BY <1>1, <1>3 DEF Texts

(* What a tag is written with is text.                                     *)
LEMMA WriteTagContentTyped ==
    ASSUME NEW o \in Outputs, NEW s \in Seq(TagSymbols), NEW a \in BOOLEAN
    PROVE  WriteTagContent(o, s, a) \in Outputs
<1> DEFINE q == [i \in DOMAIN s |->
                    IF IsAlpha(s[i]) \/ s[i] \in TagCharacters THEN <<s[i]>>
                    ELSE <<"%">> \o Codes[s[i]]]
<1>1. q \in Seq(Texts)
  <2>1. ASSUME NEW i \in DOMAIN s PROVE q[i] \in Texts
    <3>1. s[i] \in TagSymbols
      OBVIOUS
    <3>2. CASE IsAlpha(s[i]) \/ s[i] \in TagCharacters
      <4>1. q[i] = <<s[i]>>
        BY <3>2
      <4>2. s[i] \in Symbols
        BY <3>1, OwnSymbols
      <4> HIDE DEF q
      <4>3. QED
        BY <4>1, <4>2 DEF Texts
    <3>3. CASE ~(IsAlpha(s[i]) \/ s[i] \in TagCharacters)
      <4>1. s[i] \in DOMAIN Codes
        BY <3>1, <3>3 DEF TagSymbols, IsAlpha
      <4>2. Codes[s[i]] \in Seq(Symbols)
        BY <4>1, CodesTyped DEF Texts
      <4>3. q[i] = <<"%">> \o Codes[s[i]]
        BY <3>3
      <4>4. <<"%">> \in Seq(Symbols)
        <5>1. "%" \in Symbols
          BY OwnSymbols
        <5>2. QED
          BY <5>1
      <4> HIDE DEF q
      <4>5. QED
        BY <4>2, <4>3, <4>4 DEF Texts
    <3>4. QED
      BY <3>2, <3>3
  <2>2. DOMAIN s = 1..Len(s) /\ Len(s) \in Nat /\ DOMAIN q = DOMAIN s
    OBVIOUS
  <2>3. q = [i \in 1..Len(s) |-> q[i]]
    BY <2>2
  <2> HIDE DEF q
  <2>4. QED
    BY <2>1, <2>2, <2>3
<1>2. TagContent(s) = FlattenSeq(q)
  BY DEF TagContent
<1> HIDE DEF q
<1>3. TagContent(s) \in Texts
  <2>1. <<>> \in Seq(Symbols)
    OBVIOUS
  <2>2. QED
    BY <1>1, <1>2, <2>1, FlattenAppend DEF Texts
<1> DEFINE start == IF a THEN Separated(o) ELSE o
<1>4. start \in Outputs
  BY PutTyped, OwnSymbols DEF Separated
<1> HIDE DEF start
<1> DEFINE put == PutAll(start, TagContent(s))
<1>5. put \in Outputs
  BY <1>3, <1>4, PutTyped
<1>6. WriteTagContent(o, s, a) = Inline(put)
  BY DEF WriteTagContent, start
<1> HIDE DEF put
<1>7. QED
  BY <1>5, <1>6, InlineTyped, Zenon

-----------------------------------------------------------------------------
(* A pass over a value, when its steps stay in A: there is one.            *)
PassesThrough(A, n, a, g, f) ==
    /\ f \in [0..n -> A]
    /\ f[0] = a
    /\ \A i \in 1..n : f[i - 1] \in A /\ f[i] = g[<<f[i - 1], i>>]

(* A pass whose steps keep a set ends in that set.                         *)
LEMMA PassExists ==
    ASSUME NEW A, NEW n \in Nat, NEW a \in A, NEW g \in [A \X (1..n) -> A]
    PROVE  \E f : PassesThrough(A, n, a, g, f)
<1>1. PICK f : LoopFrom(A, n, a, g, f)
  BY LoopExists
<1> DEFINE e == [i \in 0..n |-> IF i = 0 THEN a ELSE g[<<f[i - 1], i>>]]
<1>2. e[0] = a /\ \A i \in 1..n : e[i] = g[<<f[i - 1], i>>]
  OBVIOUS
<1>3. f = e /\ f \in [0..n -> A]
  BY <1>1 DEF LoopFrom
<1> HIDE DEF e
<1>4. ASSUME NEW i \in 1..n PROVE f[i - 1] \in A
  <2>1. i - 1 \in 0..n
    OBVIOUS
  <2>2. QED
    BY <1>3, <2>1
<1>5. f[0] = a /\ \A i \in 1..n : f[i] = g[<<f[i - 1], i>>]
  BY <1>2, <1>3, Zenon
<1>6. QED
  BY <1>3, <1>4, <1>5 DEF PassesThrough

(* The characters of plain and single-quoted scalars.                      *)
FlowPasses == [out : Outputs, spaces : BOOLEAN, breaks : BOOLEAN]

(* One character of a scalar in flow style.                                *)
LEMMA FlowScalarStepTyped ==
    ASSUME NEW s \in FlowPasses, NEW v \in Texts, NEW i \in 1..Len(v), NEW indent \in Indents,
           NEW allowBreaks, NEW quoted
    PROVE  FlowScalarStep(s, v, i, indent, allowBreaks, quoted) \in FlowPasses
<1> DEFINE c == v[i]
           o == s.out
           folds == /\ allowBreaks /\ Folds(o, v, i, s.spaces)
                    /\ ~quoted \/ i \notin {1, Len(v)}
           blank == IF folds THEN WriteIndent(o, indent) ELSE Put(o, c)
           line == [PutBreak(IF s.breaks THEN o ELSE PutBreak(o)) EXCEPT !.indention = TRUE]
           start == IF s.breaks THEN WriteIndent(o, indent) ELSE o
           text == IF quoted /\ c = "'" THEN <<c, c>> ELSE <<c>>
           written == [PutAll(start, text) EXCEPT !.indention = FALSE]
<1>1. /\ o \in Outputs /\ s.spaces \in BOOLEAN /\ s.breaks \in BOOLEAN
  BY Zenon DEF FlowPasses
<1>2. c \in Symbols
  BY DEF Texts
<1>3. FlowScalarStep(s, v, i, indent, allowBreaks, quoted) =
        IF c = " " THEN [out |-> blank, spaces |-> TRUE, breaks |-> s.breaks]
        ELSE IF IsBreak(c) THEN [out |-> line, spaces |-> s.spaces, breaks |-> TRUE]
        ELSE [out |-> written, spaces |-> FALSE, breaks |-> FALSE]
  BY DEF FlowScalarStep
<1>4. text \in Texts
  BY <1>2 DEF Texts
<1> HIDE DEF c, o, folds, text
<1>5. WriteIndent(o, indent) \in Outputs /\ Put(o, c) \in Outputs /\ PutBreak(o) \in Outputs
  BY <1>1, <1>2, WriteIndentTyped, PutTyped
<1>6. blank \in Outputs
  BY <1>5, Zenon
<1>7. line \in Outputs
  <2> DEFINE last == IF s.breaks THEN o ELSE PutBreak(o)
  <2>1. last \in Outputs
    BY <1>1, <1>5, Zenon
  <2> HIDE DEF last
  <2>2. PutBreak(last) \in Outputs
    BY <2>1, PutTyped
  <2>3. QED
    BY <2>2, FlagsTyped, Zenon DEF last
<1>8. written \in Outputs
  <2>1. start \in Outputs
    BY <1>1, <1>5, Zenon
  <2> HIDE DEF start
  <2>2. PutAll(start, text) \in Outputs
    BY <1>4, <2>1, PutTyped
  <2>3. QED
    BY <2>2, FlagsTyped, Zenon
<1> HIDE DEF blank, line, written
<1>9. /\ [out |-> blank, spaces |-> TRUE, breaks |-> s.breaks] \in FlowPasses
      /\ [out |-> line, spaces |-> s.spaces, breaks |-> TRUE] \in FlowPasses
      /\ [out |-> written, spaces |-> FALSE, breaks |-> FALSE] \in FlowPasses
  BY <1>1, <1>6, <1>7, <1>8 DEF FlowPasses
<1>10. QED
  BY <1>3, <1>9, Zenon

(* All of a scalar in flow style.                                          *)
LEMMA FlowScalarTyped ==
    ASSUME NEW o \in Outputs, NEW v \in Texts, NEW indent \in Indents,
           NEW allowBreaks, NEW quoted
    PROVE  FlowScalar(o, v, indent, allowBreaks, quoted) \in FlowPasses
<1> DEFINE n == Len(v)
           a == [out |-> o, spaces |-> FALSE, breaks |-> FALSE]
           A == FlowPasses
           After(s, i) == FlowScalarStep(s, v, i, indent, allowBreaks, quoted)
           g == [x \in A \X (1..n) |-> After(x[1], x[2])]
           Is(f) == f = [i \in 0..n |-> IF i = 0 THEN a ELSE After(f[i - 1], i)]
           c == CHOOSE f : Is(f)
<1>1. FlowScalar(o, v, indent, allowBreaks, quoted) = c[n]
  BY DEF FlowScalar, Pass
<1>2. n \in Nat /\ a \in A
  BY DEF Texts, FlowPasses
<1>3. \A s \in A : \A i \in 1..n : After(s, i) \in A
  BY FlowScalarStepTyped
<1> HIDE DEF A, n, a, After
<1>4. g \in [A \X (1..n) -> A] /\ \A s \in A : \A i \in 1..n : g[<<s, i>>] = After(s, i)
  BY <1>3
<1> HIDE DEF g
<1>5. PICK f : PassesThrough(A, n, a, g, f)
  BY <1>2, <1>4, PassExists
<1>6. Is(f)
  <2>1. \A i \in 1..n : f[i] = After(f[i - 1], i)
    BY <1>4, <1>5 DEF PassesThrough
  <2>2. f = [i \in 0..n |-> f[i]] /\ f[0] = a
    BY <1>5 DEF PassesThrough
  <2>3. ASSUME NEW i \in 0..n PROVE f[i] = IF i = 0 THEN a ELSE After(f[i - 1], i)
    <3>1. CASE i = 0
      BY <2>2, <3>1, Zenon
    <3>2. CASE i # 0
      <4>1. i \in 1..n
        BY <1>2, <3>2
      <4>2. QED
        BY <2>1, <3>2, <4>1, Zenon
    <3>3. QED
      BY <3>1, <3>2
  <2>4. [i \in 0..n |-> f[i]] = [i \in 0..n |-> IF i = 0 THEN a ELSE After(f[i - 1], i)]
    BY <2>3, Zenon
  <2>5. QED
    BY <2>2, <2>4, Zenon
<1>7. Is(c)
  <2> HIDE DEF Is
  <2> QED BY <1>6
<1> HIDE DEF c
<1>8. c[0] = a /\ \A i \in 1..n : c[i] = After(c[i - 1], i)
  <2> DEFINE e == [i \in 0..n |-> IF i = 0 THEN a ELSE After(c[i - 1], i)]
  <2>1. e[0] = a /\ \A i \in 1..n : e[i] = After(c[i - 1], i)
    BY <1>2
  <2>2. QED
    BY <1>7, <2>1, Zenon
<1>9. \A i \in 0..n : c[i] \in A
  BY <1>2, <1>3, <1>8, LoopStays
<1>10. QED
  BY <1>1, <1>2, <1>9 DEF A

-----------------------------------------------------------------------------
(* One character, and two.                                                 *)
LEMMA CharacterTyped == ASSUME NEW c \in Symbols PROVE <<c>> \in Texts
BY DEF Texts
(* So are two.                                                             *)
LEMMA CharactersTyped == ASSUME NEW c \in Symbols, NEW d \in Symbols PROVE <<c, d>> \in Texts
BY DEF Texts

(* The characters of double-quoted scalars.                                *)
DoublePasses == [out : Outputs, spaces : BOOLEAN]

(* One character between double quotes.                                    *)
LEMMA DoubleQuotedStepTyped ==
    ASSUME NEW s \in DoublePasses, NEW v \in Texts, NEW i \in 1..Len(v), NEW indent \in Indents,
           NEW allowBreaks
    PROVE  DoubleQuotedStep(s, v, i, indent, allowBreaks) \in DoublePasses
<1>0. Escaped(v[i]) \in Texts
  <2>1. "\\" \in Symbols /\ "n" \in Symbols /\ "t" \in Symbols /\ v[i] \in Symbols
    <3>1. "\\" \in Symbols /\ "n" \in Symbols /\ "t" \in Symbols
      BY OwnSymbols, Zenon
    <3>2. v[i] \in Symbols
      BY DEF Texts
    <3>3. QED
      BY <3>1, <3>2
  <2>2. /\ <<"\\", "n">> \in Texts /\ <<"\\", "t">> \in Texts
        /\ <<"\\", v[i]>> \in Texts
    BY <2>1, CharactersTyped, Zenon
  <2>3. QED
    BY <2>2, Zenon DEF Escaped
<1> DEFINE c == v[i]
           o == s.out
           folds == /\ allowBreaks /\ ~s.spaces /\ o.column > Width
                    /\ i \notin {1, Len(v)}
           new == WriteIndent(o, indent)
           line == IF v[i + 1] = " " THEN Put(new, "\\") ELSE new
           blank == IF folds THEN line ELSE Put(o, c)
           escaped == PutAll(o, Escaped(c))
<1>1. o \in Outputs
  BY Zenon DEF DoublePasses
<1>2. c \in Symbols
  BY DEF Texts
<1>3. DoubleQuotedStep(s, v, i, indent, allowBreaks) =
        IF c \in {"\n", "\t", "\"", "\\"} THEN [out |-> escaped, spaces |-> FALSE]
        ELSE IF c = " " THEN [out |-> blank, spaces |-> TRUE]
        ELSE [out |-> Put(o, c), spaces |-> FALSE]
  BY DEF DoubleQuotedStep
<1>4. Escaped(c) \in Texts
  BY <1>0
<1> HIDE DEF c, o, folds
<1>5. new \in Outputs /\ Put(o, c) \in Outputs /\ escaped \in Outputs
  BY <1>1, <1>2, <1>4, WriteIndentTyped, PutTyped
<1> HIDE DEF new, escaped
<1>6. line \in Outputs
  BY <1>5, OwnSymbols, PutTyped
<1> HIDE DEF line
<1>7. blank \in Outputs
  BY <1>5, <1>6, Zenon
<1> HIDE DEF blank
<1>8. /\ [out |-> escaped, spaces |-> FALSE] \in DoublePasses
      /\ [out |-> blank, spaces |-> TRUE] \in DoublePasses
      /\ [out |-> Put(o, c), spaces |-> FALSE] \in DoublePasses
  BY <1>5, <1>7 DEF DoublePasses
<1>9. QED
  BY <1>3, <1>8, Zenon

(* All of a double-quoted scalar.                                          *)
LEMMA WriteDoubleQuotedTyped ==
    ASSUME NEW o \in Outputs, NEW v \in Texts, NEW indent \in Indents,
           NEW allowBreaks
    PROVE  WriteDoubleQuoted(o, v, indent, allowBreaks) \in Outputs
<1>Quote. <<"\"">> \in Texts
  BY OwnSymbols, CharacterTyped, Zenon
<1>Quoted. WriteIndicator(o, <<"\"">>, TRUE, FALSE, FALSE) \in Outputs
  BY <1>Quote, WriteIndicatorTyped
<1> DEFINE n == Len(v)
           a == [out |-> WriteIndicator(o, <<"\"">>, TRUE, FALSE, FALSE), spaces |-> FALSE]
           A == DoublePasses
           After(s, i) == DoubleQuotedStep(s, v, i, indent, allowBreaks)
           g == [x \in A \X (1..n) |-> After(x[1], x[2])]
           Is(f) == f = [i \in 0..n |-> IF i = 0 THEN a ELSE After(f[i - 1], i)]
           c == CHOOSE f : Is(f)
<1> DEFINE end == WriteIndicator(c[n].out, <<"\"">>, FALSE, FALSE, FALSE)
<1>1. WriteDoubleQuoted(o, v, indent, allowBreaks) = end
  BY DEF WriteDoubleQuoted, Pass
<1>2. n \in Nat /\ a \in A
  <2>1. n \in Nat
    BY DEF Texts
  <2>2. a \in A
    BY <1>Quoted, Zenon DEF DoublePasses
  <2>3. QED
    BY <2>1, <2>2
<1>3. \A s \in A : \A i \in 1..n : After(s, i) \in A
  BY DoubleQuotedStepTyped
<1> HIDE DEF A, n, a, After
<1>4. g \in [A \X (1..n) -> A] /\ \A s \in A : \A i \in 1..n : g[<<s, i>>] = After(s, i)
  BY <1>3
<1> HIDE DEF g
<1>5. PICK f : PassesThrough(A, n, a, g, f)
  BY <1>2, <1>4, PassExists
<1>6. Is(f)
  <2>1. \A i \in 1..n : f[i] = After(f[i - 1], i)
    BY <1>4, <1>5 DEF PassesThrough
  <2>2. f = [i \in 0..n |-> f[i]] /\ f[0] = a
    BY <1>5 DEF PassesThrough
  <2>3. ASSUME NEW i \in 0..n PROVE f[i] = IF i = 0 THEN a ELSE After(f[i - 1], i)
    <3>1. CASE i = 0
      BY <2>2, <3>1, Zenon
    <3>2. CASE i # 0
      <4>1. i \in 1..n
        BY <1>2, <3>2
      <4>2. QED
        BY <2>1, <3>2, <4>1, Zenon
    <3>3. QED
      BY <3>1, <3>2
  <2>4. [i \in 0..n |-> f[i]] = [i \in 0..n |-> IF i = 0 THEN a ELSE After(f[i - 1], i)]
    BY <2>3, Zenon
  <2>5. QED
    BY <2>2, <2>4, Zenon
<1>7. Is(c)
  <2> HIDE DEF Is
  <2> QED BY <1>6
<1> HIDE DEF c
<1>8. c[0] = a /\ \A i \in 1..n : c[i] = After(c[i - 1], i)
  <2> DEFINE e == [i \in 0..n |-> IF i = 0 THEN a ELSE After(c[i - 1], i)]
  <2>1. e[0] = a /\ \A i \in 1..n : e[i] = After(c[i - 1], i)
    BY <1>2
  <2>2. QED
    BY <1>7, <2>1, Zenon
<1>9. \A i \in 0..n : c[i] \in A
  BY <1>2, <1>3, <1>8, LoopStays
<1>10. c[n] \in A
  BY <1>2, <1>9
<1>11. c[n].out \in Outputs
  BY <1>10, Zenon DEF A, DoublePasses
<1>12. QED
  BY <1>Quote, <1>1, <1>11, WriteIndicatorTyped

(* The header of a block scalar.                                           *)
LEMMA BlockScalarTyped ==
    ASSUME NEW o \in Outputs, NEW indicator \in Symbols, NEW v
    PROVE  BlockScalar(o, <<indicator>>, v) \in Outputs
<1> DEFINE begun == WriteIndicator(o, <<indicator>>, TRUE, FALSE, FALSE)
           digit == Digit(IndentStep)
           indented == IF v[1] \in {" ", "\n"}
                       THEN WriteIndicator(begun, <<digit>>, FALSE, FALSE, FALSE) ELSE begun
           end == IF ChompHint(v) = <<"+">> THEN 2 ELSE 0
           open == [indented EXCEPT !.openEnded = end]
           hinted == IF ChompHint(v) = <<>> THEN open
                     ELSE WriteIndicator(open, ChompHint(v), FALSE, FALSE, FALSE)
<1>1. BlockScalar(o, <<indicator>>, v) =
        [PutBreak(hinted) EXCEPT !.indention = TRUE, !.whitespace = TRUE]
  BY DEF BlockScalar, WriteBlockHints
<1>2. /\ \A s \in Symbols : <<s>> \in Texts
      /\ "-" \in Symbols /\ "+" \in Symbols
  BY OwnSymbols, CharacterTyped, Zenon
<1>3. begun \in Outputs
  BY <1>2, WriteIndicatorTyped
<1>4. digit \in Symbols
  <2>1. IndentStep + 1 \in 1..10
    BY WriterAssumption DEF IndentStep
  <2>2. QED
    BY <2>1, OwnSymbols DEF Digit
<1> HIDE DEF begun, digit
<1>5. indented \in Outputs
  BY <1>2, <1>3, <1>4, WriteIndicatorTyped
<1>6. ChompHint(v) \in {<<>>, <<"-">>, <<"+">>}
  BY Zenon DEF ChompHint
<1>7. end \in 0..2
  OBVIOUS
<1> HIDE DEF indented, end
<1>8. open \in Outputs
  BY <1>5, <1>7, InlineTyped
<1> HIDE DEF open
<1>9. hinted \in Outputs
  BY <1>2, <1>6, <1>8, WriteIndicatorTyped
<1> HIDE DEF hinted
<1>10. PutBreak(hinted) \in Outputs
  BY <1>9, PutTyped
<1>11. QED
  BY <1>1, <1>10, FlagsTyped, Zenon

(* The characters of block scalars.                                        *)
LiteralPasses == [out : Outputs, breaks : BOOLEAN]

(* One character of a literal scalar.                                      *)
LEMMA LiteralStepTyped ==
    ASSUME NEW s \in LiteralPasses, NEW v \in Texts, NEW i \in 1..Len(v), NEW indent \in Indents
    PROVE  LiteralStep(s, v, i, indent) \in LiteralPasses
<1> DEFINE c == v[i]
           o == s.out
           line == [PutBreak(o) EXCEPT !.indention = TRUE]
           start == IF s.breaks THEN WriteIndent(o, indent) ELSE o
           written == [Put(start, c) EXCEPT !.indention = FALSE]
<1>1. o \in Outputs
  BY Zenon DEF LiteralPasses
<1>2. c \in Symbols
  BY DEF Texts
<1>3. LiteralStep(s, v, i, indent) =
        IF IsBreak(c) THEN [out |-> line, breaks |-> TRUE]
        ELSE [out |-> written, breaks |-> FALSE]
  BY DEF LiteralStep
<1> HIDE DEF c, o
<1>4. line \in Outputs
  <2>1. PutBreak(o) \in Outputs
    BY <1>1, PutTyped
  <2>2. QED
    BY <2>1, FlagsTyped, Zenon
<1>5. start \in Outputs
  BY <1>1, WriteIndentTyped
<1> HIDE DEF start
<1>6. written \in Outputs
  <2>1. Put(start, c) \in Outputs
    BY <1>2, <1>5, PutTyped
  <2>2. QED
    BY <2>1, FlagsTyped, Zenon
<1> HIDE DEF line, written
<1>7. /\ [out |-> line, breaks |-> TRUE] \in LiteralPasses
      /\ [out |-> written, breaks |-> FALSE] \in LiteralPasses
  BY <1>4, <1>6 DEF LiteralPasses
<1>8. QED
  BY <1>3, <1>7, Zenon

(* All of a literal scalar.                                                *)
LEMMA WriteLiteralTyped ==
    ASSUME NEW o \in Outputs, NEW v \in Texts, NEW indent \in Indents
    PROVE  WriteLiteral(o, v, indent) \in Outputs
<1> DEFINE n == Len(v)
           a == [out |-> BlockScalar(o, <<"|">>, v), breaks |-> TRUE]
           A == LiteralPasses
           After(s, i) == LiteralStep(s, v, i, indent)
           g == [x \in A \X (1..n) |-> After(x[1], x[2])]
           Is(f) == f = [i \in 0..n |-> IF i = 0 THEN a ELSE After(f[i - 1], i)]
           c == CHOOSE f : Is(f)
<1>1. WriteLiteral(o, v, indent) = c[n].out
  BY DEF WriteLiteral, Pass
<1>2. n \in Nat /\ a \in A
  <2>1. BlockScalar(o, <<"|">>, v) \in Outputs
    BY OwnSymbols, BlockScalarTyped
  <2>2. QED
    BY <2>1 DEF Texts, LiteralPasses
<1>3. \A s \in A : \A i \in 1..n : After(s, i) \in A
  BY LiteralStepTyped
<1> HIDE DEF A, n, a, After
<1>4. g \in [A \X (1..n) -> A] /\ \A s \in A : \A i \in 1..n : g[<<s, i>>] = After(s, i)
  BY <1>3
<1> HIDE DEF g
<1>5. PICK f : PassesThrough(A, n, a, g, f)
  BY <1>2, <1>4, PassExists
<1>6. Is(f)
  <2>1. \A i \in 1..n : f[i] = After(f[i - 1], i)
    BY <1>4, <1>5 DEF PassesThrough
  <2>2. f = [i \in 0..n |-> f[i]] /\ f[0] = a
    BY <1>5 DEF PassesThrough
  <2>3. ASSUME NEW i \in 0..n PROVE f[i] = IF i = 0 THEN a ELSE After(f[i - 1], i)
    <3>1. CASE i = 0
      BY <2>2, <3>1, Zenon
    <3>2. CASE i # 0
      <4>1. i \in 1..n
        BY <1>2, <3>2
      <4>2. QED
        BY <2>1, <3>2, <4>1, Zenon
    <3>3. QED
      BY <3>1, <3>2
  <2>4. [i \in 0..n |-> f[i]] = [i \in 0..n |-> IF i = 0 THEN a ELSE After(f[i - 1], i)]
    BY <2>3, Zenon
  <2>5. QED
    BY <2>2, <2>4, Zenon
<1>7. Is(c)
  <2> HIDE DEF Is
  <2> QED BY <1>6
<1> HIDE DEF c
<1>8. c[0] = a /\ \A i \in 1..n : c[i] = After(c[i - 1], i)
  <2> DEFINE e == [i \in 0..n |-> IF i = 0 THEN a ELSE After(c[i - 1], i)]
  <2>1. e[0] = a /\ \A i \in 1..n : e[i] = After(c[i - 1], i)
    BY <1>2
  <2>2. QED
    BY <1>7, <2>1, Zenon
<1>9. \A i \in 0..n : c[i] \in A
  BY <1>2, <1>3, <1>8, LoopStays
<1>10. c[n] \in A
  BY <1>2, <1>9
<1>11. QED
  BY <1>1, <1>10, Zenon DEF A, LiteralPasses

FoldedPasses == [out : Outputs, breaks : BOOLEAN, leadingSpaces : BOOLEAN]

(* One character of a folded scalar.                                       *)
LEMMA FoldedStepTyped ==
    ASSUME NEW s \in FoldedPasses, NEW v \in Texts, NEW i \in 1..Len(v), NEW indent \in Indents
    PROVE  FoldedStep(s, v, i, indent) \in FoldedPasses
<1> DEFINE c == v[i]
           o == s.out
           doubled == /\ ~s.breaks /\ ~s.leadingSpaces
                      /\ ~IsBlankZ(At(v, BehindBreaks(v, i)))
           before == IF doubled THEN PutBreak(o) ELSE o
           line == [PutBreak(before) EXCEPT !.indention = TRUE]
           start == IF s.breaks THEN WriteIndent(o, indent) ELSE o
           folds == /\ ~s.breaks /\ c = " " /\ At(v, i + 1) # " "
                    /\ o.column > Width
           text == IF folds THEN WriteIndent(start, indent) ELSE Put(start, c)
           written == [text EXCEPT !.indention = FALSE]
           leading == IF s.breaks THEN IsBlank(c) ELSE s.leadingSpaces
<1>1. o \in Outputs /\ s.leadingSpaces \in BOOLEAN
  BY Zenon DEF FoldedPasses
<1>2. c \in Symbols
  BY DEF Texts
<1>3. FoldedStep(s, v, i, indent) =
        IF IsBreak(c) THEN [s EXCEPT !.out = line, !.breaks = TRUE]
        ELSE [out |-> written, breaks |-> FALSE, leadingSpaces |-> leading]
  BY DEF FoldedStep
<1>4. leading \in BOOLEAN
  <2>1. IsBlank(c) \in BOOLEAN
    BY DEF IsBlank
  <2>2. QED
    BY <1>1, <2>1, Zenon
<1> HIDE DEF c, o, doubled, folds, leading
<1>5. before \in Outputs
  BY <1>1, PutTyped
<1> HIDE DEF before
<1>6. line \in Outputs
  <2>1. PutBreak(before) \in Outputs
    BY <1>5, PutTyped
  <2>2. QED
    BY <2>1, FlagsTyped, Zenon
<1>7. start \in Outputs
  BY <1>1, WriteIndentTyped
<1> HIDE DEF start
<1>8. text \in Outputs
  BY <1>2, <1>7, WriteIndentTyped, PutTyped
<1> HIDE DEF text
<1>9. written \in Outputs
  BY <1>8, FlagsTyped, Zenon
<1> HIDE DEF line, written
<1>10. [s EXCEPT !.out = line, !.breaks = TRUE] \in FoldedPasses
  BY <1>6, Zenon DEF FoldedPasses
<1>11. [out |-> written, breaks |-> FALSE, leadingSpaces |-> leading] \in FoldedPasses
  BY <1>4, <1>9 DEF FoldedPasses
<1>12. QED
  BY <1>3, <1>10, <1>11, Zenon

(* All of a folded scalar.                                                 *)
LEMMA WriteFoldedTyped ==
    ASSUME NEW o \in Outputs, NEW v \in Texts, NEW indent \in Indents
    PROVE  WriteFolded(o, v, indent) \in Outputs
<1> DEFINE n == Len(v)
           a == [out |-> BlockScalar(o, <<">">>, v), breaks |-> TRUE, leadingSpaces |-> TRUE]
           A == FoldedPasses
           After(s, i) == FoldedStep(s, v, i, indent)
           g == [x \in A \X (1..n) |-> After(x[1], x[2])]
           Is(f) == f = [i \in 0..n |-> IF i = 0 THEN a ELSE After(f[i - 1], i)]
           c == CHOOSE f : Is(f)
<1>1. WriteFolded(o, v, indent) = c[n].out
  BY DEF WriteFolded, Pass
<1>2. n \in Nat /\ a \in A
  <2>1. BlockScalar(o, <<">">>, v) \in Outputs
    BY OwnSymbols, BlockScalarTyped
  <2>2. QED
    BY <2>1 DEF Texts, FoldedPasses
<1>3. \A s \in A : \A i \in 1..n : After(s, i) \in A
  BY FoldedStepTyped
<1> HIDE DEF A, n, a, After
<1>4. g \in [A \X (1..n) -> A] /\ \A s \in A : \A i \in 1..n : g[<<s, i>>] = After(s, i)
  BY <1>3
<1> HIDE DEF g
<1>5. PICK f : PassesThrough(A, n, a, g, f)
  BY <1>2, <1>4, PassExists
<1>6. Is(f)
  <2>1. \A i \in 1..n : f[i] = After(f[i - 1], i)
    BY <1>4, <1>5 DEF PassesThrough
  <2>2. f = [i \in 0..n |-> f[i]] /\ f[0] = a
    BY <1>5 DEF PassesThrough
  <2>3. ASSUME NEW i \in 0..n PROVE f[i] = IF i = 0 THEN a ELSE After(f[i - 1], i)
    <3>1. CASE i = 0
      BY <2>2, <3>1, Zenon
    <3>2. CASE i # 0
      <4>1. i \in 1..n
        BY <1>2, <3>2
      <4>2. QED
        BY <2>1, <3>2, <4>1, Zenon
    <3>3. QED
      BY <3>1, <3>2
  <2>4. [i \in 0..n |-> f[i]] = [i \in 0..n |-> IF i = 0 THEN a ELSE After(f[i - 1], i)]
    BY <2>3, Zenon
  <2>5. QED
    BY <2>2, <2>4, Zenon
<1>7. Is(c)
  <2> HIDE DEF Is
  <2> QED BY <1>6
<1> HIDE DEF c
<1>8. c[0] = a /\ \A i \in 1..n : c[i] = After(c[i - 1], i)
  <2> DEFINE e == [i \in 0..n |-> IF i = 0 THEN a ELSE After(c[i - 1], i)]
  <2>1. e[0] = a /\ \A i \in 1..n : e[i] = After(c[i - 1], i)
    BY <1>2
  <2>2. QED
    BY <1>7, <2>1, Zenon
<1>9. \A i \in 0..n : c[i] \in A
  BY <1>2, <1>3, <1>8, LoopStays
<1>10. c[n] \in A
  BY <1>2, <1>9
<1>11. QED
  BY <1>1, <1>10, Zenon DEF A, FoldedPasses

(* Plain and single-quoted scalars.                                        *)
LEMMA WritePlainTyped ==
    ASSUME NEW o \in Outputs, NEW v \in Texts, NEW indent \in Indents,
           NEW allowBreaks, NEW flow, NEW root
    PROVE  WritePlain(o, v, indent, allowBreaks, flow, root) \in Outputs
<1> DEFINE start == IF v # <<>> \/ flow THEN Separated(o) ELSE o
           pass == FlowScalar(start, v, indent, allowBreaks, FALSE)
           end == Inline(pass.out)
<1>1. WritePlain(o, v, indent, allowBreaks, flow, root) =
        IF root THEN [end EXCEPT !.openEnded = 1] ELSE end
  BY DEF WritePlain
<1>2. Separated(o) \in Outputs
  BY PutTyped, OwnSymbols DEF Separated
<1>3. start \in Outputs
  BY <1>2, Zenon
<1> HIDE DEF start
<1>4. pass \in FlowPasses
  BY <1>3, FlowScalarTyped
<1> HIDE DEF pass
<1>5. pass.out \in Outputs
  BY <1>4, Zenon DEF FlowPasses
<1>6. end \in Outputs
  BY <1>5, InlineTyped
<1> HIDE DEF end
<1>7. [end EXCEPT !.openEnded = 1] \in Outputs
  <2>1. 1 \in 0..2
    OBVIOUS
  <2>2. QED
    BY <1>6, <2>1, InlineTyped, Zenon
<1>8. QED
  BY <1>1, <1>6, <1>7, Zenon

(* All of a single-quoted scalar.                                          *)
LEMMA WriteSingleQuotedTyped ==
    ASSUME NEW o \in Outputs, NEW v \in Texts, NEW indent \in Indents, NEW allowBreaks
    PROVE  WriteSingleQuoted(o, v, indent, allowBreaks) \in Outputs
<1> DEFINE start == WriteIndicator(o, <<"'">>, TRUE, FALSE, FALSE)
           pass == FlowScalar(start, v, indent, allowBreaks, TRUE)
           last == IF pass.breaks THEN WriteIndent(pass.out, indent) ELSE pass.out
<1>1. WriteSingleQuoted(o, v, indent, allowBreaks) =
        WriteIndicator(last, <<"'">>, FALSE, FALSE, FALSE)
  BY DEF WriteSingleQuoted
<1>2. <<"'">> \in Texts
  <2>1. "'" \in Symbols
    BY OwnSymbols
  <2>2. QED
    BY <2>1 DEF Texts
<1>3. start \in Outputs
  BY <1>2, WriteIndicatorTyped
<1> HIDE DEF start
<1>4. pass \in FlowPasses
  BY <1>3, FlowScalarTyped
<1> HIDE DEF pass
<1>5. pass.out \in Outputs
  BY <1>4, Zenon DEF FlowPasses
<1>6. last \in Outputs
  BY <1>5, WriteIndentTyped
<1> HIDE DEF last
<1>7. QED
  BY <1>1, <1>2, <1>6, WriteIndicatorTyped

-----------------------------------------------------------------------------
(* The caller's side: styles, texts and tags.                              *)
ScalarStyles == {"any", "plain", "single", "double", "literal", "folded"}

(* What the caller gives is text, and what a tag is written with has a     *)
(* form in a tag.                                                          *)
CallerWritesText ==
    /\ TagAlphabet \subseteq TagSymbols
    /\ \A d \in TagDirectives : d.handle \in Seq(TextAlphabet)
    /\ \A e \in CallerEvents :
          /\ e.type = "ALIAS" => ValueOf(e.anchor) \in Seq(TextAlphabet)
          /\ HasProperties(e) /\ Given(e.anchor) => ValueOf(e.anchor) \in Seq(TextAlphabet)
          /\ e.type = "SCALAR" => e.value \in Seq(TextAlphabet) /\ e.style \in ScalarStyles

(* The text of the caller is text.                                         *)
LEMMA TextsOfCaller == \A v \in Seq(TextAlphabet) : v \in Texts
<1>1. TextAlphabet \subseteq Symbols
  BY OwnSymbols, Zenon
<1>2. QED
  BY <1>1 DEF Texts

TagForms == [handle : Texts, suffix : Seq(TagSymbols)]

(* A directive has the same form.                                          *)
LEMMA DirectivesTyped ==
    ASSUME CallerWritesText, CallerIsTextual, NEW d \in AllDirectives
    PROVE  d.handle \in Texts /\ d.prefix \in Seq(TagSymbols)
<1>1. CASE d \in TagDirectives
  <2>1. d.handle \in Seq(TextAlphabet) /\ d.prefix \in Seq(TagAlphabet)
    BY <1>1 DEF CallerWritesText, CallerIsTextual
  <2>2. TagAlphabet \subseteq TagSymbols
    BY DEF CallerWritesText
  <2>3. QED
    BY <2>1, <2>2, TextsOfCaller
<1>2. CASE d \in {PrimaryDefault, SecondaryDefault}
  <2>1. "!" \in TagSymbols /\ "T" \in TagSymbols /\ "!" \in Symbols
    BY OwnSymbols DEF TagSymbols, TagCharacters, Codes
  <2>2. /\ <<"!">> \in Texts /\ <<"!", "!">> \in Texts
    BY <2>1, CharacterTyped, CharactersTyped, Zenon
  <2>3. <<"!">> \in Seq(TagSymbols) /\ <<"T">> \in Seq(TagSymbols)
    BY <2>1
  <2>4. /\ PrimaryDefault.handle = <<"!">> /\ PrimaryDefault.prefix = <<"!">>
        /\ SecondaryDefault.handle = <<"!", "!">> /\ SecondaryDefault.prefix = <<"T">>
    BY DEF PrimaryDefault, SecondaryDefault
  <2>5. CASE d = PrimaryDefault
    BY <2>2, <2>3, <2>4, <2>5, Zenon
  <2>6. CASE d = SecondaryDefault
    BY <2>2, <2>3, <2>4, <2>6, Zenon
  <2>7. QED
    BY <1>2, <2>5, <2>6
<1>3. QED
  BY <1>1, <1>2 DEF AllDirectives

(* A tag is taken apart into a handle and what it is written with.         *)
LEMMA TagDataTyped ==
    ASSUME CallerWritesText, CallerIsTextual, NEW tag \in Seq(TagAlphabet),
           NEW directives \in Seq(AllDirectives)
    PROVE  TagData(tag, directives) \in TagForms
<1> DEFINE fits == {i \in DOMAIN directives : IsStrictPrefix(directives[i].prefix, tag)}
           first == CHOOSE i \in fits : \A j \in fits : i <= j
           d == directives[first]
           rest == SubSeq(tag, Len(d.prefix) + 1, Len(tag))
<1>1. tag \in Seq(TagSymbols)
  BY DEF CallerWritesText
<1>2. TagData(tag, directives) = IF fits = {} THEN [handle |-> <<>>, suffix |-> tag]
                                 ELSE [handle |-> d.handle, suffix |-> rest]
  BY DEF TagData
<1>3. CASE fits = {}
  <2>1. <<>> \in Texts
    BY DEF Texts
  <2>2. [handle |-> <<>>, suffix |-> tag] \in TagForms
    BY <1>1, <2>1 DEF TagForms
  <2>3. QED
    BY <1>2, <1>3, <2>2
<1>4. CASE fits # {}
  <2>1. fits \subseteq DOMAIN directives /\ DOMAIN directives \subseteq Nat
    OBVIOUS
  <2>2. \E i \in fits : \A j \in fits : i <= j
    BY <1>4, <2>1, LeastExists
  <2> HIDE DEF fits
  <2>3. first \in fits
    BY <2>2
  <2>4. d \in AllDirectives
    BY <2>1, <2>3
  <2> HIDE DEF first, d
  <2>5. d.handle \in Texts /\ d.prefix \in Seq(TagSymbols)
    BY <2>4, DirectivesTyped
  <2>6. rest \in Seq(TagSymbols)
    BY <1>1, <2>5
  <2> HIDE DEF rest
  <2>7. [handle |-> d.handle, suffix |-> rest] \in TagForms
    BY <2>5, <2>6 DEF TagForms
  <2>8. QED
    BY <1>2, <1>4, <2>7
<1>5. QED
  BY <1>3, <1>4

-----------------------------------------------------------------------------
(* Anchors and tags.                                                       *)
LEMMA WriteAnchorTyped ==
    ASSUME NEW o \in Outputs, NEW name \in Texts
    PROVE  WriteAnchor(o, name) \in Outputs /\ WriteTagHandle(o, name) \in Outputs
<1>1. Separated(o) \in Outputs
  BY PutTyped, OwnSymbols DEF Separated
<1> DEFINE a == PutAll(o, name)
           b == PutAll(Separated(o), name)
<1>2. a \in Outputs /\ b \in Outputs
  BY <1>1, PutTyped
<1>3. WriteAnchor(o, name) = Inline(a) /\ WriteTagHandle(o, name) = Inline(b)
  BY DEF WriteAnchor, WriteTagHandle
<1> HIDE DEF a, b
<1>4. QED
  BY <1>2, <1>3, InlineTyped

(* A tag is written as text.                                               *)
LEMMA WriteTagTyped ==
    ASSUME NEW o \in Outputs, NEW tag \in TagForms
    PROVE  WriteTag(o, tag) \in Outputs
<1> DEFINE named == WriteTagHandle(o, tag.handle)
           begun == WriteIndicator(o, <<"!", "<">>, TRUE, FALSE, FALSE)
           verbatim == WriteTagContent(begun, tag.suffix, FALSE)
<1>1. tag.handle \in Texts /\ tag.suffix \in Seq(TagSymbols)
  BY DEF TagForms
<1>2. <<"!", "<">> \in Texts /\ <<">">> \in Texts
  BY OwnSymbols, CharacterTyped, CharactersTyped, Zenon
<1>3. WriteTag(o, tag) =
        IF tag = NoTag THEN o
        ELSE IF tag.handle # <<>>
        THEN IF tag.suffix = <<>> THEN named ELSE WriteTagContent(named, tag.suffix, FALSE)
        ELSE WriteIndicator(verbatim, <<">">>, FALSE, FALSE, FALSE)
  BY DEF WriteTag
<1>4. named \in Outputs /\ begun \in Outputs
  BY <1>1, <1>2, WriteAnchorTyped, WriteIndicatorTyped
<1> HIDE DEF named, begun
<1>5. verbatim \in Outputs /\ WriteTagContent(named, tag.suffix, FALSE) \in Outputs
  BY <1>1, <1>4, WriteTagContentTyped
<1> HIDE DEF verbatim
<1>6. WriteIndicator(verbatim, <<">">>, FALSE, FALSE, FALSE) \in Outputs
  BY <1>2, <1>5, WriteIndicatorTyped
<1>7. QED
  BY <1>3, <1>4, <1>5, <1>6, Zenon

-----------------------------------------------------------------------------
(* The lines in front of a document and behind it.                         *)
LEMMA WordsTyped ==
    /\ <<".", ".", ".">> \in Texts /\ <<"-", "-", "-">> \in Texts
    /\ <<"%", "Y">> \in Texts /\ <<"%", "G">> \in Texts
    /\ <<"1", ".", "1">> \in Texts /\ <<"1", ".", "2">> \in Texts
<1>1. /\ "." \in Symbols /\ "-" \in Symbols /\ "1" \in Symbols /\ "2" \in Symbols
      /\ "%" \in Symbols /\ "Y" \in Symbols /\ "G" \in Symbols
  BY OwnSymbols, Zenon
<1>2. ASSUME NEW a \in Symbols, NEW b \in Symbols, NEW c \in Symbols
      PROVE  <<a, b, c>> \in Texts
  BY DEF Texts
<1>3. <<".", ".", ".">> \in Texts /\ <<"-", "-", "-">> \in Texts
  BY <1>1, <1>2, Zenon
<1>4. <<"1", ".", "1">> \in Texts /\ <<"1", ".", "2">> \in Texts
  BY <1>1, <1>2, Zenon
<1>5. QED
  BY <1>1, <1>3, <1>4, CharactersTyped, Zenon

(* What separates a property from what is behind it.                       *)
LEMMA MarginTyped ==
    ASSUME NEW o \in Outputs
    PROVE  /\ WriteIndent(o, -1) \in Outputs
           /\ \A s \in Texts : Marker(o, s) \in Outputs
<1>1. -1 \in Indents
  BY DEF Indents
<1>2. WriteIndent(o, -1) \in Outputs
  BY <1>1, WriteIndentTyped
<1>3. QED
  BY <1>2, WriteIndicatorTyped DEF Marker

(* A version directive is written as text.                                 *)
LEMMA WriteVersionTyped ==
    ASSUME NEW o \in Outputs, NEW version
    PROVE  WriteVersion(o, version) \in Outputs
<1> DEFINE number == IF version = "1.1" THEN <<"1", ".", "1">> ELSE <<"1", ".", "2">>
           named == WriteIndicator(o, <<"%", "Y">>, TRUE, FALSE, FALSE)
           line == WriteIndicator(named, number, TRUE, FALSE, FALSE)
<1>1. WriteVersion(o, version) = WriteIndent(line, -1)
  BY DEF WriteVersion
<1>2. number \in Texts
  BY WordsTyped, Zenon
<1>3. named \in Outputs
  BY WordsTyped, WriteIndicatorTyped
<1> HIDE DEF number, named
<1>4. line \in Outputs
  BY <1>2, <1>3, WriteIndicatorTyped
<1> HIDE DEF line
<1>5. QED
  BY <1>1, <1>4, MarginTyped

(* So is a tag directive.                                                  *)
LEMMA WriteTagDirectiveTyped ==
    ASSUME NEW o \in Outputs, NEW d, d.handle \in Texts, d.prefix \in Seq(TagSymbols)
    PROVE  WriteTagDirective(o, d) \in Outputs
<1> DEFINE named == WriteIndicator(o, <<"%", "G">>, TRUE, FALSE, FALSE)
           handled == WriteTagHandle(named, d.handle)
           line == WriteTagContent(handled, d.prefix, TRUE)
<1>1. WriteTagDirective(o, d) = WriteIndent(line, -1)
  BY DEF WriteTagDirective
<1>2. named \in Outputs
  BY WordsTyped, WriteIndicatorTyped
<1> HIDE DEF named
<1>3. handled \in Outputs
  BY <1>2, WriteAnchorTyped
<1> HIDE DEF handled
<1>4. line \in Outputs
  BY <1>3, WriteTagContentTyped
<1> HIDE DEF line
<1>5. QED
  BY <1>1, <1>4, MarginTyped

(* So is the end of a document that was left open.                         *)
LEMMA CloseOpenDocumentTyped ==
    ASSUME NEW o \in Outputs, NEW directives
    PROVE  CloseOpenDocument(o, directives) \in Outputs
<1> DEFINE marked == Marker(o, <<".", ".", ".">>)
           closed == IF directives /\ o.openEnded > 0 THEN WriteIndent(marked, -1) ELSE o
<1>1. CloseOpenDocument(o, directives) = [closed EXCEPT !.openEnded = 0]
  BY DEF CloseOpenDocument
<1>2. marked \in Outputs
  BY WordsTyped, MarginTyped
<1> HIDE DEF marked
<1>3. WriteIndent(marked, -1) \in Outputs
  BY <1>2, MarginTyped
<1>4. closed \in Outputs
  BY <1>3, Zenon
<1> HIDE DEF closed
<1>5. 0 \in 0..2
  OBVIOUS
<1>6. QED
  BY <1>1, <1>4, <1>5, InlineTyped, Zenon

-----------------------------------------------------------------------------
(* The emitter as a record of typed fields.                                *)
Contexts == {"root", "sequence", "mapping", "simple_key"}
Emitters == [state : States, states : Seq(States), indent : Indents, indents : Seq(Indents),
             flowLevel : Nat, context : Contexts, tagDirectives : Seq(AllDirectives),
             out : Outputs, ok : BOOLEAN, problem : BOOLEAN]

(* The emitter with another value of its type in one field or two.         *)
LEMMA FieldTyped ==
    ASSUME NEW em \in Emitters
    PROVE  /\ \A o \in Outputs : [em EXCEPT !.out = o] \in Emitters
           /\ \A s \in States : [em EXCEPT !.state = s] \in Emitters
           /\ \A ss \in Seq(States) : [em EXCEPT !.states = ss] \in Emitters
           /\ \A s \in States, ss \in Seq(States) :
                 [em EXCEPT !.state = s, !.states = ss] \in Emitters
           /\ \A i \in Indents, is \in Seq(Indents) :
                 /\ [em EXCEPT !.indents = is, !.indent = i] \in Emitters
                 /\ [em EXCEPT !.indent = i, !.indents = is] \in Emitters
           /\ \A n \in Nat : [em EXCEPT !.flowLevel = n] \in Emitters
           /\ \A c \in Contexts : [em EXCEPT !.context = c] \in Emitters
           /\ \A ds \in Seq(AllDirectives) : [em EXCEPT !.tagDirectives = ds] \in Emitters
           /\ \A s \in States, ds \in Seq(AllDirectives) :
                 [em EXCEPT !.state = s, !.tagDirectives = ds] \in Emitters
           /\ \A s \in States, o \in Outputs :
                 [em EXCEPT !.state = s, !.out = o] \in Emitters
           /\ \A i \in Indents, s \in States, o \in Outputs :
                 [em EXCEPT !.indent = i, !.state = s, !.out = o] \in Emitters
           /\ \A b \in BOOLEAN : [em EXCEPT !.ok = b] \in Emitters
           /\ Refuse(em) \in Emitters
<1>1. \A o \in Outputs : [em EXCEPT !.out = o] \in Emitters
  BY Zenon DEF Emitters
<1>2. \A s \in States : [em EXCEPT !.state = s] \in Emitters
  BY Zenon DEF Emitters
<1>3. \A ss \in Seq(States) : [em EXCEPT !.states = ss] \in Emitters
  BY Zenon DEF Emitters
<1>4. \A s \in States, ss \in Seq(States) : [em EXCEPT !.state = s, !.states = ss] \in Emitters
  BY Zenon DEF Emitters
<1>5. \A i \in Indents, is \in Seq(Indents) : [em EXCEPT !.indents = is, !.indent = i] \in Emitters
  BY Zenon DEF Emitters
<1>6. \A i \in Indents, is \in Seq(Indents) : [em EXCEPT !.indent = i, !.indents = is] \in Emitters
  BY Zenon DEF Emitters
<1>7. \A n \in Nat : [em EXCEPT !.flowLevel = n] \in Emitters
  BY Zenon DEF Emitters
<1>8. \A c \in Contexts : [em EXCEPT !.context = c] \in Emitters
  BY Zenon DEF Emitters
<1>9. \A ds \in Seq(AllDirectives) : [em EXCEPT !.tagDirectives = ds] \in Emitters
  BY Zenon DEF Emitters
<1>10. \A s \in States, ds \in Seq(AllDirectives) :
          [em EXCEPT !.state = s, !.tagDirectives = ds] \in Emitters
  BY Zenon DEF Emitters
<1>11. \A s \in States, o \in Outputs : [em EXCEPT !.state = s, !.out = o] \in Emitters
  BY Zenon DEF Emitters
<1>12. \A i \in Indents, s \in States, o \in Outputs :
          [em EXCEPT !.indent = i, !.state = s, !.out = o] \in Emitters
  BY Zenon DEF Emitters
<1>13. Refuse(em) \in Emitters
  BY Zenon DEF Emitters, Refuse
<1>14. \A b \in BOOLEAN : [em EXCEPT !.ok = b] \in Emitters
  BY Zenon DEF Emitters
<1>15. QED
  BY <1>1, <1>2, <1>3, <1>4, <1>5, <1>6, <1>7, <1>8, <1>9, <1>10, <1>11, <1>12, <1>13, <1>14,
     Zenon

(* The fields of an emitter.                                               *)
LEMMA FieldsTyped ==
    ASSUME NEW em \in Emitters
    PROVE  /\ DOMAIN em = Fields
           /\ em.state \in States /\ em.states \in Seq(States)
           /\ em.indent \in Indents /\ em.indents \in Seq(Indents) /\ em.flowLevel \in Nat
           /\ em.context \in Contexts /\ em.tagDirectives \in Seq(AllDirectives)
           /\ em.out \in Outputs /\ em.ok \in BOOLEAN /\ em.problem \in BOOLEAN
BY DEF Emitters, Fields

(* A refused event leaves an emitter of the type, with the error set.       *)
LEMMA RefusedTyped ==
    ASSUME NEW em \in Emitters
    PROVE  Refuse(em) \in Emitters /\ Refuse(em).ok = FALSE
<1>1. Refuse(em) \in Emitters
  BY FieldTyped, Zenon
<1>2. DOMAIN em = Fields
  BY FieldsTyped, Zenon
<1>3. QED
  BY <1>1, <1>2, RefuseOutcome, Zenon

(* What only writes leaves the nesting and the indentation alone.          *)
Writes(new, em) ==
    /\ new \in Emitters /\ Keeps(new, em)
    /\ new.indents = em.indents /\ new.indent = em.indent /\ new.flowLevel = em.flowLevel

(* Another output only writes.                                             *)
LEMMA OutWrites ==
    ASSUME NEW em \in Emitters, NEW o \in Outputs
    PROVE  Writes([em EXCEPT !.out = o], em)
<1>1. [em EXCEPT !.out = o] \in Emitters
  BY FieldTyped, Zenon
<1>2. Keeps([em EXCEPT !.out = o], em)
  BY FieldsTyped, OutKeeps, Zenon
<1>3. /\ [em EXCEPT !.out = o].indents = em.indents /\ [em EXCEPT !.out = o].indent = em.indent
      /\ [em EXCEPT !.out = o].flowLevel = em.flowLevel
  BY FieldsTyped DEF Fields
<1>4. QED
  BY <1>1, <1>2, <1>3 DEF Writes

(* To write twice is to write.                                             *)
LEMMA WritesTransitive ==
    ASSUME NEW a, NEW b, NEW c, Writes(b, a), Writes(c, b)
    PROVE  Writes(c, a)
BY KeepsTransitive DEF Writes

(* To write nothing is to write.                                           *)
LEMMA WritesNothing == ASSUME NEW em \in Emitters PROVE Writes(em, em)
BY FieldsTyped DEF Writes, Keeps

(* An indicator is only written.                                           *)
LEMMA IndicatorWrites ==
    ASSUME NEW em \in Emitters, NEW s \in Symbols,
           NEW a \in BOOLEAN, NEW b \in BOOLEAN, NEW c \in BOOLEAN
    PROVE  Writes(Indicator(em, <<s>>, a, b, c), em)
<1>1. <<s>> \in Texts /\ em.out \in Outputs
  BY FieldsTyped, CharacterTyped
<1>2. WriteIndicator(em.out, <<s>>, a, b, c) \in Outputs
  BY <1>1, WriteIndicatorTyped
<1>3. QED
  BY <1>2, OutWrites DEF Indicator

(* So is a line break.                                                     *)
LEMMA NewLineWrites ==
    ASSUME NEW em \in Emitters
    PROVE  Writes(NewLine(em), em) /\ Writes(NewLineIfLong(em), em)
<1>1. WriteIndent(em.out, em.indent) \in Outputs
  BY FieldsTyped, WriteIndentTyped
<1>2. Writes(NewLine(em), em)
  BY <1>1, OutWrites DEF NewLine
<1>3. QED
  BY <1>2, WritesNothing DEF NewLineIfLong

(* So is a comma.                                                          *)
LEMMA CommaWrites ==
    ASSUME NEW em \in Emitters, NEW first
    PROVE  Writes(Comma(em, first), em)
<1> DEFINE written == IF first THEN em ELSE Indicator(em, <<",">>, FALSE, FALSE, FALSE)
<1>1. "," \in Symbols
  BY OwnSymbols, Zenon
<1>2. Writes(written, em)
  BY <1>1, WritesNothing, IndicatorWrites
<1>3. Comma(em, first) = NewLineIfLong(written)
  BY DEF Comma
<1> HIDE DEF written
<1>4. Writes(NewLineIfLong(written), written)
  BY <1>2, NewLineWrites DEF Writes
<1>5. QED
  BY <1>2, <1>3, <1>4, WritesTransitive

(* So are the properties of a node.                                        *)
LEMMA WritePropertiesWrites ==
    ASSUME CallerWritesText, NEW em \in Emitters, NEW e \in CallerEvents, HasProperties(e),
           NEW tag \in TagForms
    PROVE  Writes(WriteProperties(em, e, tag), em)
<1> DEFINE marked == WriteIndicator(em.out, <<"&">>, TRUE, FALSE, FALSE)
           anchored == IF Given(e.anchor) THEN WriteAnchor(marked, ValueOf(e.anchor))
                       ELSE em.out
<1>1. em.out \in Outputs /\ <<"&">> \in Texts
  BY FieldsTyped, CharacterTyped, OwnSymbols, Zenon
<1>2. marked \in Outputs
  BY <1>1, WriteIndicatorTyped
<1> HIDE DEF marked
<1>3. anchored \in Outputs
  <2>1. Given(e.anchor) => ValueOf(e.anchor) \in Texts
    BY TextsOfCaller DEF CallerWritesText
  <2>2. QED
    BY <1>1, <1>2, <2>1, WriteAnchorTyped
<1>4. WriteProperties(em, e, tag) = [em EXCEPT !.out = WriteTag(anchored, tag)]
  BY DEF WriteProperties, marked
<1> HIDE DEF anchored
<1>5. WriteTag(anchored, tag) \in Outputs
  BY <1>3, WriteTagTyped
<1>6. QED
  BY <1>4, <1>5, OutWrites

(* The indentation of one collection more, and of one less.                *)
Indented(new, em) ==
    /\ new \in Emitters /\ Keeps(new, em)
    /\ new.indents = Append(em.indents, em.indent)

(* An indentation more.                                                    *)
LEMMA IncreaseIndentTyped ==
    ASSUME NEW em \in Emitters, NEW flow, NEW indentless
    PROVE  Indented(IncreaseIndent(em, flow, indentless), em)
           /\ IncreaseIndent(em, flow, indentless).flowLevel = em.flowLevel
<1> DEFINE indent == IF em.indent < 0 THEN IF flow THEN IndentStep ELSE 0
                     ELSE IF indentless THEN em.indent ELSE em.indent + IndentStep
           indents == Append(em.indents, em.indent)
           new == [em EXCEPT !.indents = indents, !.indent = indent]
<1>1. IncreaseIndent(em, flow, indentless) = new
  BY DEF IncreaseIndent
<1>2. IndentStep \in Nat
  BY WriterAssumption DEF IndentStep
<1>3. em.indent \in Indents /\ em.indents \in Seq(Indents)
  BY FieldsTyped
<1>4. indent \in Indents
  BY <1>2, <1>3 DEF Indents
<1>5. indents \in Seq(Indents)
  BY <1>3
<1>6. Keeps(new, em)
  BY <1>1, FieldsTyped, IncreaseIndentKeeps
<1>7. new.indents = indents /\ new.flowLevel = em.flowLevel
  BY FieldsTyped DEF Fields
<1> HIDE DEF indent, indents
<1>8. new \in Emitters
  BY <1>4, <1>5, FieldTyped, Zenon
<1>9. QED
  BY <1>1, <1>6, <1>7, <1>8 DEF Indented, indents

(* An indentation less, where there is one.                                *)
LEMMA DecreaseIndentTyped ==
    ASSUME NEW em \in Emitters, em.indents # <<>>
    PROVE  LET new == DecreaseIndent(em)
           IN  /\ new \in Emitters /\ Keeps(new, em)
               /\ Len(new.indents) = Len(em.indents) - 1 /\ new.flowLevel = em.flowLevel
<1> DEFINE new == [em EXCEPT !.indent = Last(em.indents), !.indents = Front(em.indents)]
<1>1. DecreaseIndent(em) = new
  BY DEF DecreaseIndent
<1>2. em.indents \in Seq(Indents)
  BY FieldsTyped
<1>3. /\ Last(em.indents) \in Indents /\ Front(em.indents) \in Seq(Indents)
      /\ Len(Front(em.indents)) = Len(em.indents) - 1
  BY <1>2 DEF Last, Front
<1>4. Keeps(new, em)
  BY <1>1, FieldsTyped, DecreaseIndentKeeps
<1>5. new.indents = Front(em.indents) /\ new.flowLevel = em.flowLevel
  BY FieldsTyped DEF Fields
<1>6. new \in Emitters
  BY <1>3, FieldTyped, Zenon
<1> HIDE DEF new
<1>7. QED
  BY <1>1, <1>3, <1>4, <1>5, <1>6

(* The state that was pushed is a state.                                   *)
LEMMA PopTyped ==
    ASSUME NEW em \in Emitters, em.states # <<>>
    PROVE  LET new == Pop(em)
           IN  /\ new \in Emitters /\ new.ok = em.ok
               /\ new.state = Last(em.states) /\ new.states = Front(em.states)
               /\ new.indents = em.indents /\ new.flowLevel = em.flowLevel
<1> DEFINE new == [em EXCEPT !.state = Last(em.states), !.states = Front(em.states)]
<1>1. Pop(em) = new
  BY DEF Pop
<1>2. em.states \in Seq(States)
  BY FieldsTyped
<1>3. Last(em.states) \in States /\ Front(em.states) \in Seq(States)
  BY <1>2 DEF Last, Front
<1>4. /\ new.state = Last(em.states) /\ new.states = Front(em.states) /\ new.ok = em.ok
      /\ new.indents = em.indents /\ new.flowLevel = em.flowLevel
  BY FieldsTyped DEF Fields
<1>5. new \in Emitters
  BY <1>3, FieldTyped, Zenon
<1> HIDE DEF new
<1>6. QED
  BY <1>1, <1>4, <1>5

(* A collection in flow style is a level and an indentation more.          *)
LEMMA OpenFlowTyped ==
    ASSUME NEW em \in Emitters, NEW bracket \in Symbols
    PROVE  LET new == OpenFlow(em, bracket)
           IN  /\ new \in Emitters /\ Keeps(new, em)
               /\ Len(new.indents) = Len(em.indents) + 1
               /\ new.flowLevel = em.flowLevel + 1
<1> DEFINE marked == Indicator(em, <<bracket>>, TRUE, TRUE, FALSE)
           opened == IncreaseIndent(marked, TRUE, FALSE)
           new == [opened EXCEPT !.flowLevel = @ + 1]
<1>1. OpenFlow(em, bracket) = new
  BY DEF OpenFlow
<1>2. Writes(marked, em)
  BY IndicatorWrites
<1> HIDE DEF marked
<1>3. Indented(opened, marked) /\ opened.flowLevel = marked.flowLevel
  BY <1>2, IncreaseIndentTyped DEF Writes
<1> HIDE DEF opened
<1>4. opened \in Emitters /\ opened.flowLevel + 1 \in Nat
  <2>1. opened \in Emitters
    BY <1>3 DEF Indented
  <2>2. opened.flowLevel \in Nat
    BY <2>1, FieldsTyped
  <2>3. QED
    BY <2>1, <2>2
<1>5. new \in Emitters
  BY <1>4, FieldTyped, Zenon
<1>6. new.flowLevel = opened.flowLevel + 1 /\ new.indents = opened.indents
  BY <1>4, FieldsTyped DEF Fields
<1>7. Len(opened.indents) = Len(em.indents) + 1
  <2>1. opened.indents = Append(em.indents, marked.indent) /\ marked \in Emitters
    BY <1>2, <1>3 DEF Indented, Writes
  <2>2. em.indents \in Seq(Indents) /\ marked.indent \in Indents
    BY <2>1, FieldsTyped
  <2>3. QED
    BY <2>1, <2>2
<1>8. Keeps(new, em)
  BY <1>1, FieldsTyped, OpenFlowKeeps
<1> HIDE DEF new
<1>9. QED
  BY <1>1, <1>2, <1>3, <1>5, <1>6, <1>7, <1>8 DEF Writes

-----------------------------------------------------------------------------
(* The tag of a node is taken apart with the directives there are.         *)
LEMMA TagDataOfTyped ==
    ASSUME CallerWritesText, CallerIsTextual, NEW em \in Emitters, NEW e \in CallerEvents,
           HasProperties(e)
    PROVE  TagDataOf(em, e) \in TagForms /\ NoTag \in TagForms
<1>1. NoTag \in TagForms
  <2>1. <<>> \in Texts /\ <<>> \in Seq(TagSymbols)
    BY DEF Texts
  <2>2. QED
    BY <2>1, Zenon DEF NoTag, TagForms
<1>2. CASE TagIsWritten(e)
  <2>1. ValueOf(e.tag) \in Seq(TagAlphabet)
    BY <1>2 DEF TagIsWritten, CallerIsTextual
  <2>2. em.tagDirectives \in Seq(AllDirectives)
    BY FieldsTyped
  <2>3. QED
    BY <1>1, <1>2, <2>1, <2>2, TagDataTyped DEF TagDataOf
<1>3. CASE ~TagIsWritten(e)
  BY <1>1, <1>3, Zenon DEF TagDataOf
<1>4. QED
  BY <1>2, <1>3

(* The style of a scalar is one that has a writer.                         *)
LEMMA StyleTyped ==
    ASSUME NEW em, NEW e, e.style \in ScalarStyles, NEW tag
    PROVE  SelectScalarStyle(em, e, tag) \in ScalarStyles \ {"any"}
<1> DEFINE may == Analysis(e.value)
           flow == em.flowLevel > 0
           key == em.context = "simple_key"
           asked == IF key /\ may.multiline THEN "double"
                    ELSE IF e.style = "any" THEN "plain" ELSE e.style
           noPlain == \/ IF flow THEN ~may.flowPlain ELSE ~may.blockPlain
                      \/ e.value = <<>> /\ (flow \/ key)
                      \/ tag = NoTag /\ ~e.plainImplicit
           first == IF asked = "plain" /\ noPlain THEN "single" ELSE asked
           second == IF first = "single" /\ ~may.singleQuoted THEN "double" ELSE first
           block == ~may.block \/ flow \/ key
<1>1. SelectScalarStyle(em, e, tag) =
        IF second \in {"literal", "folded"} /\ block THEN "double" ELSE second
  BY Zenon DEF SelectScalarStyle
<1> DEFINE S == ScalarStyles \ {"any"}
<1>2. "double" \in S /\ "plain" \in S /\ "single" \in S
  BY DEF ScalarStyles
<1>3. e.style # "any" => e.style \in S
  OBVIOUS
<1> HIDE DEF S, may, flow, key
<1>4. asked \in S
  BY <1>2, <1>3, Zenon
<1> HIDE DEF asked, noPlain
<1>5. first \in S
  BY <1>2, <1>4, Zenon
<1> HIDE DEF first
<1>6. second \in S
  BY <1>2, <1>5, Zenon
<1> HIDE DEF second, block
<1>7. QED
  BY <1>1, <1>2, <1>6, Zenon DEF S

(* A scalar is written in its style.                                       *)
LEMMA WriteScalarTyped ==
    ASSUME NEW em \in Emitters, NEW v \in Texts, NEW style \in ScalarStyles \ {"any"}
    PROVE  WriteScalar(em, v, style) \in Outputs
<1> DEFINE breaks == em.context # "simple_key"
           flow == em.flowLevel > 0
           root == em.context = "root"
<1>1. em.out \in Outputs /\ em.indent \in Indents
  BY FieldsTyped
<1>2. /\ WritePlain(em.out, v, em.indent, breaks, flow, root) \in Outputs
      /\ WriteSingleQuoted(em.out, v, em.indent, breaks) \in Outputs
      /\ WriteDoubleQuoted(em.out, v, em.indent, breaks) \in Outputs
      /\ WriteLiteral(em.out, v, em.indent) \in Outputs
      /\ WriteFolded(em.out, v, em.indent) \in Outputs
  BY <1>1, WritePlainTyped, WriteSingleQuotedTyped, WriteDoubleQuotedTyped, WriteLiteralTyped,
     WriteFoldedTyped
<1>3. style \in {"plain", "single", "double", "literal", "folded"}
  BY DEF ScalarStyles
<1>4. /\ style = "plain" => WriteScalar(em, v, style)
                               = WritePlain(em.out, v, em.indent, breaks, flow, root)
      /\ style = "single" => WriteScalar(em, v, style)
                                = WriteSingleQuoted(em.out, v, em.indent, breaks)
      /\ style = "double" => WriteScalar(em, v, style)
                                = WriteDoubleQuoted(em.out, v, em.indent, breaks)
      /\ style = "literal" => WriteScalar(em, v, style) = WriteLiteral(em.out, v, em.indent)
      /\ style = "folded" => WriteScalar(em, v, style) = WriteFolded(em.out, v, em.indent)
  BY DEF WriteScalar
<1> HIDE DEF breaks, flow, root
<1>5. QED
  BY <1>2, <1>3, <1>4, Zenon

-----------------------------------------------------------------------------
(* A node leaves the indentation and the flow level as they were.          *)
NodeLevel(new, em) ==
    /\ new \in Emitters
    /\ new.ok => Len(new.indents) = Len(em.indents) /\ new.flowLevel = em.flowLevel

(* An alias stays at the level.                                            *)
LEMMA EmitAliasTyped ==
    ASSUME CallerWritesText, NEW em \in Emitters, em.states # <<>>,
           NEW e \in CallerEvents, e.type = "ALIAS"
    PROVE  NodeLevel(EmitAlias(em, e), em)
<1> DEFINE star == WriteIndicator(em.out, <<"*">>, TRUE, FALSE, FALSE)
           named == WriteAnchor(star, ValueOf(e.anchor))
           out == IF em.context = "simple_key" THEN Put(named, " ") ELSE named
           written == [em EXCEPT !.out = out]
<1>1. EmitAlias(em, e) = Pop(written)
  BY DEF EmitAlias
<1>2. em.out \in Outputs /\ <<"*">> \in Texts /\ " " \in Symbols
  BY FieldsTyped, CharacterTyped, OwnSymbols, Zenon
<1>3. ValueOf(e.anchor) \in Texts
  BY TextsOfCaller DEF CallerWritesText
<1>4. star \in Outputs
  BY <1>2, WriteIndicatorTyped
<1> HIDE DEF star
<1>5. named \in Outputs
  BY <1>3, <1>4, WriteAnchorTyped
<1> HIDE DEF named
<1>6. Put(named, " ") \in Outputs
  BY <1>2, <1>5, PutTyped
<1>7. out \in Outputs
  BY <1>5, <1>6, Zenon
<1> HIDE DEF out
<1>8. Writes(written, em)
  BY <1>7, OutWrites
<1> HIDE DEF written
<1>9. written \in Emitters /\ written.states # <<>>
  BY <1>8 DEF Writes, Keeps
<1>10. QED
  BY <1>1, <1>8, <1>9, PopTyped DEF NodeLevel, Writes

(* So does a scalar.                                                       *)
LEMMA EmitScalarTyped ==
    ASSUME CallerWritesText, CallerIsTextual, NEW em \in Emitters, em.states # <<>>,
           NEW e \in CallerEvents, e.type = "SCALAR"
    PROVE  NodeLevel(EmitScalar(em, e), em)
<1> DEFINE tag == TagDataOf(em, e)
           style == SelectScalarStyle(em, e, tag)
           quoted == tag = NoTag /\ ~e.quotedImplicit /\ style # "plain"
           shown == IF quoted THEN [handle |-> <<"!">>, suffix |-> <<>>] ELSE tag
           marked == WriteProperties(em, e, shown)
           begun == IncreaseIndent(marked, TRUE, FALSE)
           text == WriteScalar(begun, e.value, style)
           written == [begun EXCEPT !.out = text]
           ended == DecreaseIndent(written)
           no == tag = NoTag /\ ~e.plainImplicit /\ ~e.quotedImplicit
<1>1. EmitScalar(em, e) = IF no THEN Refuse(em) ELSE Pop(ended)
  BY DEF EmitScalar
<1>2. HasProperties(e) /\ e.value \in Texts /\ e.style \in ScalarStyles
  BY TextsOfCaller DEF HasProperties, CallerWritesText
<1>3. tag \in TagForms
  BY <1>2, TagDataOfTyped
<1> HIDE DEF tag
<1>4. style \in ScalarStyles \ {"any"}
  BY <1>2, StyleTyped
<1> HIDE DEF style, quoted
<1>5. shown \in TagForms
  <2>1. <<"!">> \in Texts /\ <<>> \in Seq(TagSymbols)
    <3>1. <<"!">> \in Texts
      BY OwnSymbols, CharacterTyped, Zenon
    <3>2. QED
      BY <3>1
  <2>2. [handle |-> <<"!">>, suffix |-> <<>>] \in TagForms
    BY <2>1, Zenon DEF TagForms
  <2>3. QED
    BY <1>3, <2>2, Zenon
<1> HIDE DEF shown
<1>6. Writes(marked, em)
  BY <1>2, <1>5, WritePropertiesWrites
<1> HIDE DEF marked
<1>7. Indented(begun, marked) /\ begun.flowLevel = marked.flowLevel
  BY <1>6, IncreaseIndentTyped DEF Writes
<1> HIDE DEF begun
<1>8. text \in Outputs
  BY <1>2, <1>4, <1>7, WriteScalarTyped DEF Indented
<1> HIDE DEF text
<1>9. Writes(written, begun)
  BY <1>7, <1>8, OutWrites DEF Indented
<1> HIDE DEF written
<1>10. /\ written \in Emitters /\ written.flowLevel = em.flowLevel /\ written.states = em.states
       /\ written.indents # <<>> /\ Len(written.indents) = Len(em.indents) + 1
       /\ Len(em.indents) \in Nat
  <2>1. written.indents = Append(em.indents, marked.indent) /\ marked \in Emitters
        /\ written \in Emitters
    BY <1>6, <1>7, <1>9 DEF Indented, Writes
  <2>2. em.indents \in Seq(Indents) /\ marked.indent \in Indents
    BY <2>1, FieldsTyped
  <2>3. /\ written.indents # <<>> /\ Len(written.indents) = Len(em.indents) + 1
        /\ Len(em.indents) \in Nat
    <3>1. ASSUME NEW s \in Seq(Indents), NEW x \in Indents
          PROVE  Append(s, x) # <<>> /\ Len(Append(s, x)) = Len(s) + 1 /\ Len(s) \in Nat
      OBVIOUS
    <3>2. QED
      BY <2>1, <2>2, <3>1, Zenon
  <2>4. written.flowLevel = em.flowLevel /\ written.states = em.states
    BY <1>6, <1>7, <1>9 DEF Indented, Writes, Keeps
  <2>5. QED
    BY <2>1, <2>3, <2>4
<1>11. /\ ended \in Emitters /\ ended.states = em.states /\ ended.flowLevel = em.flowLevel
       /\ Len(ended.indents) = Len(em.indents)
  BY <1>10, DecreaseIndentTyped DEF Keeps
<1> HIDE DEF ended
<1>12. NodeLevel(Pop(ended), em)
  BY <1>11, PopTyped DEF NodeLevel
<1>13. NodeLevel(Refuse(em), em)
  <2>1. Refuse(em) \in Emitters /\ Refuse(em).ok = FALSE
    BY RefusedTyped, Zenon
  <2>2. QED
    BY <2>1 DEF NodeLevel
<1>14. QED
  BY <1>1, <1>12, <1>13, Zenon

(* So does the start of a collection, which is in flow style within one.   *)
LEMMA EmitCollectionStartTyped ==
    ASSUME CallerWritesText, CallerIsTextual, NEW em \in Emitters,
           NEW e \in CallerEvents, HasProperties(e),
           NEW empty, NEW flowState \in States, NEW blockState \in States
    PROVE  LET new == EmitCollectionStart(em, e, empty, flowState, blockState)
           IN  NodeLevel(new, em) /\ (em.flowLevel > 0 => new.state = flowState)
<1> DEFINE tag == TagDataOf(em, e)
           marked == WriteProperties(em, e, tag)
           state == IF em.flowLevel > 0 \/ e.style = "flow" \/ empty THEN flowState
                    ELSE blockState
           new == [marked EXCEPT !.state = state]
<1>1. EmitCollectionStart(em, e, empty, flowState, blockState) = new
  BY DEF EmitCollectionStart, Goto
<1>2. tag \in TagForms
  BY TagDataOfTyped
<1> HIDE DEF tag
<1>3. Writes(marked, em)
  BY <1>2, WritePropertiesWrites
<1> HIDE DEF marked
<1>4. state \in States /\ (em.flowLevel > 0 => state = flowState)
  BY Zenon
<1> HIDE DEF state
<1>5. marked \in Emitters
  BY <1>3 DEF Writes
<1>6. new \in Emitters
  BY <1>4, <1>5, FieldTyped, Zenon
<1>7. new.state = state /\ new.indents = marked.indents /\ new.flowLevel = marked.flowLevel
  BY <1>5, FieldsTyped DEF Fields
<1> HIDE DEF new
<1>8. QED
  BY <1>1, <1>3, <1>4, <1>6, <1>7 DEF NodeLevel, Writes

-----------------------------------------------------------------------------
(* The states in which the first turn of a collection is due.              *)
FirstOnes == {"FLOW-SEQUENCE-FIRST-ITEM", "FLOW-MAPPING-FIRST-KEY"} \cup FirstBlocks

(* So does every node.                                                     *)
LEMMA EmitNodeTyped ==
    ASSUME CallerWritesText, CallerIsTextual, NEW em \in Emitters, em.states # <<>>,
           NEW q, q[1] \in CallerEvents, NEW context \in Contexts
    PROVE  LET new == EmitNode(em, q, context)
           IN  /\ NodeLevel(new, em)
               /\ q[1].type \in {"SEQUENCE-START", "MAPPING-START"} /\ em.flowLevel > 0 =>
                     new.state \notin FirstBlocks
<1> DEFINE e == q[1]
           at == [em EXCEPT !.context = context]
           new == EmitNode(em, q, context)
<1>1. /\ at \in Emitters /\ at.states = em.states /\ at.indents = em.indents
      /\ at.flowLevel = em.flowLevel
  <2>1. at \in Emitters
    BY FieldTyped, Zenon
  <2>2. at.states = em.states /\ at.indents = em.indents /\ at.flowLevel = em.flowLevel
    BY FieldsTyped DEF Fields
  <2>3. QED
    BY <2>1, <2>2
<1>2. new = IF e.type = "ALIAS" THEN EmitAlias(at, e)
            ELSE IF e.type = "SCALAR" THEN EmitScalar(at, e)
            ELSE IF e.type = "SEQUENCE-START"
            THEN EmitCollectionStart(at, e, EmptySequence(q),
                    "FLOW-SEQUENCE-FIRST-ITEM", "BLOCK-SEQUENCE-FIRST-ITEM")
            ELSE IF e.type = "MAPPING-START"
            THEN EmitCollectionStart(at, e, EmptyMapping(q),
                    "FLOW-MAPPING-FIRST-KEY", "BLOCK-MAPPING-FIRST-KEY")
            ELSE Refuse(at)
  BY DEF EmitNode
<1>3. e \in CallerEvents
  OBVIOUS
<1>4. /\ "FLOW-SEQUENCE-FIRST-ITEM" \in States \ FirstBlocks
      /\ "FLOW-MAPPING-FIRST-KEY" \in States \ FirstBlocks
      /\ "BLOCK-SEQUENCE-FIRST-ITEM" \in States /\ "BLOCK-MAPPING-FIRST-KEY" \in States
  BY DEF States, ItemStates, KeyStates, FirstBlocks
<1> HIDE DEF at, new, e
<1>5. /\ NodeLevel(new, at)
      /\ e.type \in {"SEQUENCE-START", "MAPPING-START"} /\ at.flowLevel > 0 =>
            new.state \notin FirstBlocks
  <2>1. CASE e.type = "ALIAS"
    <3>1. NodeLevel(EmitAlias(at, e), at)
      BY <1>1, <1>3, <2>1, EmitAliasTyped
    <3>2. QED
      BY <1>2, <2>1, <3>1
  <2>2. CASE e.type = "SCALAR"
    <3>1. NodeLevel(EmitScalar(at, e), at)
      BY <1>1, <1>3, <2>2, EmitScalarTyped
    <3>2. QED
      BY <1>2, <2>2, <3>1
  <2>3. CASE e.type = "SEQUENCE-START"
    <3>1. HasProperties(e)
      BY <2>3 DEF HasProperties
    <3>2. /\ NodeLevel(EmitCollectionStart(at, e, EmptySequence(q),
                "FLOW-SEQUENCE-FIRST-ITEM", "BLOCK-SEQUENCE-FIRST-ITEM"), at)
          /\ at.flowLevel > 0 => EmitCollectionStart(at, e, EmptySequence(q),
                "FLOW-SEQUENCE-FIRST-ITEM", "BLOCK-SEQUENCE-FIRST-ITEM").state
                   = "FLOW-SEQUENCE-FIRST-ITEM"
      BY <1>1, <1>3, <1>4, <3>1, EmitCollectionStartTyped
    <3>3. QED
      BY <1>2, <1>4, <2>3, <3>2
  <2>4. CASE e.type = "MAPPING-START"
    <3>1. HasProperties(e)
      BY <2>4 DEF HasProperties
    <3>2. /\ NodeLevel(EmitCollectionStart(at, e, EmptyMapping(q),
                "FLOW-MAPPING-FIRST-KEY", "BLOCK-MAPPING-FIRST-KEY"), at)
          /\ at.flowLevel > 0 => EmitCollectionStart(at, e, EmptyMapping(q),
                "FLOW-MAPPING-FIRST-KEY", "BLOCK-MAPPING-FIRST-KEY").state
                   = "FLOW-MAPPING-FIRST-KEY"
      BY <1>1, <1>3, <1>4, <3>1, EmitCollectionStartTyped
    <3>3. QED
      BY <1>2, <1>4, <2>4, <3>2
  <2>5. CASE e.type \notin {"ALIAS", "SCALAR", "SEQUENCE-START", "MAPPING-START"}
    <3>1. new = Refuse(at)
      BY <1>2, <2>5
    <3>2. Refuse(at) \in Emitters /\ Refuse(at).ok = FALSE
      BY <1>1, RefusedTyped, Zenon
    <3>3. QED
      BY <2>5, <3>1, <3>2 DEF NodeLevel
  <2>6. QED
    BY <2>1, <2>2, <2>3, <2>4, <2>5
<1>6. QED
  BY <1>1, <1>5 DEF NodeLevel, new, e

(* Behind a node the emitter returns, or it is at the start of a collection*)
(* that will return; within flow style there is only flow style.           *)
Placed(new, em, return) ==
    new.ok =>
        /\ \/ new.state = return /\ new.states = em.states
           \/ new.states = Append(em.states, return) /\ new.state \in FirstOnes
        /\ new.state \in FirstBlocks => new.flowLevel = 0

(* A node in front of which the state to return to was pushed.             *)
LEMMA PushedNodeTyped ==
    ASSUME CallerWritesText, CallerIsTextual, NEW em \in Emitters, em.ok = TRUE,
           NEW return \in States \ FirstBlocks,
           NEW q, q[1] \in CallerEvents, NEW context \in Contexts
    PROVE  LET new == EmitNode(Push(em, return), q, context)
           IN  NodeLevel(new, em) /\ Placed(new, em, return)
<1> DEFINE e == q[1]
           states == Append(em.states, return)
           pushed == [em EXCEPT !.states = states]
           new == EmitNode(pushed, q, context)
<1>1. Push(em, return) = pushed
  BY DEF Push
<1>2. states \in Seq(States) /\ states # <<>>
  BY FieldsTyped, Appended
<1>3. pushed.states = states /\ pushed.indents = em.indents /\ pushed.flowLevel = em.flowLevel
  BY FieldsTyped DEF Fields
<1> HIDE DEF states
<1>4. pushed \in Emitters
  BY <1>2, FieldTyped, Zenon
<1> HIDE DEF pushed
<1>5. /\ NodeLevel(new, pushed)
      /\ q[1].type \in {"SEQUENCE-START", "MAPPING-START"} /\ pushed.flowLevel > 0 =>
            new.state \notin FirstBlocks
  BY <1>2, <1>3, <1>4, EmitNodeTyped
<1>6. NodeLevel(new, em)
  BY <1>3, <1>5 DEF NodeLevel
<1>7. NodeTurn(new, em, return, q[1])
  <2>1. Keeps(em, em)
    BY FieldsTyped DEF Keeps
  <2>2. QED
    BY <1>1, <2>1, PushedNode
<1>8. em.states \in Seq(States) /\ em.flowLevel \in Nat
  BY FieldsTyped
<1> HIDE DEF new
<1>9. ASSUME new.ok
      PROVE  /\ \/ new.state = return /\ new.states = em.states
                \/ new.states = Append(em.states, return) /\ new.state \in FirstOnes
             /\ new.state \in FirstBlocks => new.flowLevel = 0
  <2>1. OnlyWrites(new, em, return, q[1]) \/ Opened(new, em, return, q[1])
    BY <1>7, <1>8, <1>9 DEF NodeTurn
  <2>2. new.flowLevel = em.flowLevel
    BY <1>6, <1>9 DEF NodeLevel
  <2>3. CASE OnlyWrites(new, em, return, q[1])
    BY <2>3 DEF OnlyWrites
  <2>4. CASE Opened(new, em, return, q[1])
    <3>1. q[1].type \in {"SEQUENCE-START", "MAPPING-START"} /\ new.state \in FirstOnes
          /\ new.states = Append(em.states, return)
      BY <2>4 DEF Opened, FirstStates, FirstOnes, FirstBlocks
    <3>2. new.state \in FirstBlocks => ~(em.flowLevel > 0)
      BY <1>3, <1>5, <3>1
    <3>3. new.state \in FirstBlocks => new.flowLevel = 0
      BY <1>8, <2>2, <3>2
    <3>4. QED
      BY <3>1, <3>3
  <2>5. QED
    BY <2>1, <2>3, <2>4
<1>10. Placed(new, em, return)
  BY <1>9, Zenon DEF Placed
<1>11. QED
  BY <1>1, <1>6, <1>10 DEF new

-----------------------------------------------------------------------------
(* A collection that is not begun yet is begun first.                      *)
Begins(b, em) ==
    /\ b \in Emitters /\ Keeps(b, em)
    /\ Len(b.indents) = Len(em.indents) + (IF em.state \in FirstOnes THEN 1 ELSE 0)
    /\ b.flowLevel = em.flowLevel + (IF em.state \in FirstOnes \cap FlowStates THEN 1 ELSE 0)

(* To write behind the beginning is to begin.                              *)
LEMMA BeginsWrites ==
    ASSUME NEW em, NEW b, NEW c, Begins(b, em), Writes(c, b)
    PROVE  Begins(c, em)
BY KeepsTransitive DEF Begins, Writes

(* A collection in flow style is begun at its first item.                  *)
LEMMA BeginsFlow ==
    ASSUME NEW em \in Emitters, em.state \in FlowStates, NEW bracket \in Symbols, NEW first,
           first <=> em.state \in FirstOnes
    PROVE  Begins(IF first THEN OpenFlow(em, bracket) ELSE em, em)
<1>1. Len(em.indents) \in Nat /\ em.flowLevel \in Nat
  BY FieldsTyped
<1>2. CASE first
  BY <1>1, <1>2, OpenFlowTyped DEF Begins
<1>3. CASE ~first
  <2>1. em \in Emitters /\ Keeps(em, em)
    BY WritesNothing DEF Writes
  <2>2. Len(em.indents) = Len(em.indents) + 0 /\ em.flowLevel = em.flowLevel + 0
    BY <1>1
  <2>3. QED
    BY <1>3, <2>1, <2>2, Zenon DEF Begins
<1>4. QED
  BY <1>2, <1>3

(* So is one in block style.                                               *)
LEMMA BeginsBlock ==
    ASSUME NEW em \in Emitters, em.state \notin FlowStates, NEW flow, NEW indentless, NEW first,
           first <=> em.state \in FirstOnes
    PROVE  Begins(IF first THEN IncreaseIndent(em, flow, indentless) ELSE em, em)
<1>1. /\ Len(em.indents) \in Nat /\ em.flowLevel \in Nat
      /\ Len(Append(em.indents, em.indent)) = Len(em.indents) + 1
  <2>1. em.indents \in Seq(Indents) /\ em.indent \in Indents /\ em.flowLevel \in Nat
    BY FieldsTyped
  <2>2. QED
    BY <2>1, Appended
<1>2. CASE first
  <2> DEFINE new == IncreaseIndent(em, flow, indentless)
  <2>1. /\ new \in Emitters /\ Keeps(new, em)
        /\ new.indents = Append(em.indents, em.indent) /\ new.flowLevel = em.flowLevel
    BY IncreaseIndentTyped DEF Indented
  <2> HIDE DEF new
  <2>2. Len(new.indents) = Len(em.indents) + 1 /\ new.flowLevel = em.flowLevel + 0
    BY <1>1, <2>1
  <2>3. Begins(new, em)
    BY <1>2, <2>1, <2>2, Zenon DEF Begins
  <2>4. QED
    BY <1>2, <2>3 DEF new
<1>3. CASE ~first
  <2>1. em \in Emitters /\ Keeps(em, em)
    BY WritesNothing DEF Writes
  <2>2. Len(em.indents) = Len(em.indents) + 0 /\ em.flowLevel = em.flowLevel + 0
    BY <1>1
  <2>3. QED
    BY <1>3, <2>1, <2>2, Zenon DEF Begins
<1>4. QED
  BY <1>2, <1>3

(* A turn at a node, and one at the end of a collection.                   *)
NodeStep(new, em) ==
    /\ em.state \in NodeStates
    /\ \E return \in Behind \cup {"DOCUMENT-END"} :
          /\ return = "DOCUMENT-END" <=> em.state = "DOCUMENT-CONTENT"
          /\ return \in FlowStates <=> em.state \in FlowStates
          /\ \/ new.state = return /\ new.states = em.states
             \/ new.states = Append(em.states, return) /\ new.state \in FirstOnes
    /\ Len(new.indents) = Len(em.indents) + (IF em.state \in FirstOnes THEN 1 ELSE 0)
    /\ new.flowLevel = em.flowLevel + (IF em.state \in FirstOnes \cap FlowStates THEN 1 ELSE 0)
    /\ new.state \in FirstBlocks => new.flowLevel = 0

EndStep(new, em) ==
    /\ em.state \in ItemStates \cup KeyStates
    /\ new.state = Last(em.states) /\ new.states = Front(em.states)
    /\ Len(new.indents) = Len(em.indents) - (IF em.state \in FirstOnes THEN 0 ELSE 1)
    /\ new.flowLevel = em.flowLevel - (IF em.state \in FlowStates \ FirstOnes THEN 1 ELSE 0)

(* Outside of a document's content nothing is indented.                    *)
Outside == {"STREAM-START", "FIRST-DOCUMENT-START", "DOCUMENT-START", "DOCUMENT-CONTENT",
            "DOCUMENT-END", "END"}

OutsideStep(new, em) ==
    /\ em.state \in Outside /\ new.state \in Outside
    /\ new.states = em.states
    /\ new.indents = em.indents /\ new.flowLevel = em.flowLevel

TypedTurn(new, em) ==
    /\ new \in Emitters
    /\ new.ok => NodeStep(new, em) \/ EndStep(new, em) \/ OutsideStep(new, em)

(* A turn at a node.                                                       *)
LEMMA NodeTyped ==
    ASSUME CallerWritesText, CallerIsTextual, NEW em, em.ok = TRUE, em.state \in NodeStates,
           NEW b, Begins(b, em), NEW return \in Behind \cup {"DOCUMENT-END"},
           return = "DOCUMENT-END" <=> em.state = "DOCUMENT-CONTENT",
           return \in FlowStates <=> em.state \in FlowStates,
           NEW q, q[1] \in CallerEvents, NEW context \in Contexts
    PROVE  TypedTurn(EmitNode(Push(b, return), q, context), em)
<1> DEFINE new == EmitNode(Push(b, return), q, context)
<1>1. return \in States \ FirstBlocks
  BY DEF Behind, States, ItemStates, KeyStates, ValueStates, FirstBlocks
<1>2. b \in Emitters /\ b.ok = TRUE /\ b.states = em.states
  BY DEF Begins, Keeps
<1>3. NodeLevel(new, b) /\ Placed(new, b, return)
  <2>1. /\ CallerWritesText /\ CallerIsTextual /\ b \in Emitters /\ b.ok = TRUE
        /\ return \in States \ FirstBlocks /\ q[1] \in CallerEvents /\ context \in Contexts
    BY <1>1, <1>2
  <2>2. NodeLevel(EmitNode(Push(b, return), q, context), b)
    BY ONLY <2>1, PushedNodeTyped
  <2>3. Placed(EmitNode(Push(b, return), q, context), b, return)
    BY ONLY <2>1, PushedNodeTyped
  <2>4. QED
    BY <2>2, <2>3 DEF new
<1> HIDE DEF new
<1>4. ASSUME new.ok PROVE NodeStep(new, em)
  <2>1. Len(new.indents) = Len(b.indents) /\ new.flowLevel = b.flowLevel
    BY <1>3, <1>4 DEF NodeLevel
  <2>2. QED
    BY <1>2, <1>3, <1>4, <2>1 DEF NodeStep, Begins, Placed
<1>5. QED
  BY <1>3, <1>4 DEF TypedTurn, NodeLevel, new

(* A collection may be closed: it has a state to return to, and where it   *)
(* is begun, an indentation and in flow style a level.                     *)
Closable(em) ==
    /\ em.states # <<>>
    /\ em.state \notin FirstOnes =>
          em.indents # <<>> /\ (em.state \in FlowStates => em.flowLevel > 0)

(* What is begun has an indentation to return to.                          *)
LEMMA BegunIsDeep ==
    ASSUME NEW em \in Emitters, Closable(em), NEW b, Begins(b, em)
    PROVE  b.indents # <<>> /\ (em.state \in FlowStates => b.flowLevel > 0)
<1>1. em.indents \in Seq(Indents) /\ em.flowLevel \in Nat /\ b.indents \in Seq(Indents)
  BY FieldsTyped DEF Begins
<1>2. Len(b.indents) > 0
  <2>1. em.indents # <<>> => Len(em.indents) > 0
    BY <1>1
  <2>2. Len(em.indents) \in Nat
    BY <1>1
  <2>3. CASE em.state \in FirstOnes
    <3>1. Len(b.indents) = Len(em.indents) + 1
      BY <2>3, Zenon DEF Begins
    <3>2. QED
      BY <2>2, <3>1
  <2>4. CASE em.state \notin FirstOnes
    <3>1. Len(b.indents) = Len(em.indents) + 0 /\ em.indents # <<>>
      BY <2>4, Zenon DEF Begins, Closable
    <3>2. QED
      BY <2>1, <2>2, <3>1
  <2>5. QED
    BY <2>3, <2>4
<1>3. b.indents # <<>>
  BY <1>1, <1>2
<1>4. em.state \in FlowStates => b.flowLevel > 0
  BY <1>1 DEF Begins, Closable
<1>5. QED
  BY <1>3, <1>4

(* A turn at the end of a collection in block style.                       *)
LEMMA EndBlockTyped ==
    ASSUME NEW em \in Emitters, em.state \in ItemStates \cup KeyStates,
           em.state \notin FlowStates, Closable(em), NEW b, Begins(b, em)
    PROVE  TypedTurn(Pop(DecreaseIndent(b)), em)
<1> DEFINE outer == DecreaseIndent(b)
           new == Pop(outer)
<1>1. b \in Emitters /\ b.indents # <<>> /\ b.states = em.states /\ em.states # <<>>
  BY BegunIsDeep DEF Begins, Keeps, Closable
<1>2. /\ outer \in Emitters /\ Keeps(outer, b)
      /\ Len(outer.indents) = Len(b.indents) - 1 /\ outer.flowLevel = b.flowLevel
  BY <1>1, DecreaseIndentTyped
<1> HIDE DEF outer
<1>3. outer.states = em.states
  BY <1>1, <1>2 DEF Keeps
<1>4. /\ new \in Emitters
      /\ new.state = Last(em.states) /\ new.states = Front(em.states)
      /\ new.indents = outer.indents /\ new.flowLevel = outer.flowLevel
  BY <1>1, <1>2, <1>3, PopTyped
<1> HIDE DEF new
<1>5. Len(em.indents) \in Nat /\ em.flowLevel \in Nat
  BY FieldsTyped
<1>6. EndStep(new, em)
  <2>1. CASE em.state \in FirstOnes
    <3>1. Len(b.indents) = Len(em.indents) + 1 /\ b.flowLevel = em.flowLevel + 0
      BY <2>1, Zenon DEF Begins
    <3>2. Len(new.indents) = Len(em.indents) - 0 /\ new.flowLevel = em.flowLevel - 0
      BY <1>2, <1>4, <1>5, <3>1
    <3>3. QED
      BY <1>4, <2>1, <3>2, Zenon DEF EndStep
  <2>2. CASE em.state \notin FirstOnes
    <3>1. Len(b.indents) = Len(em.indents) + 0 /\ b.flowLevel = em.flowLevel + 0
      BY <2>2, Zenon DEF Begins
    <3>2. Len(new.indents) = Len(em.indents) - 1 /\ new.flowLevel = em.flowLevel - 0
      BY <1>2, <1>4, <1>5, <3>1
    <3>3. QED
      BY <1>4, <2>2, <3>2, Zenon DEF EndStep
  <2>3. QED
    BY <2>1, <2>2
<1>7. QED
  BY <1>4, <1>6 DEF TypedTurn, new, outer

(* A turn at the end of one in flow style.                                 *)
LEMMA CloseFlowTyped ==
    ASSUME NEW em \in Emitters, em.state \in ItemStates \cup KeyStates,
           em.state \in FlowStates, Closable(em), NEW b, Begins(b, em), NEW bracket \in Symbols
    PROVE  TypedTurn(CloseFlow(b, bracket), em)
<1> DEFINE outer == DecreaseIndent(b)
           counted == [outer EXCEPT !.flowLevel = @ - 1]
           marked == Indicator(counted, <<bracket>>, FALSE, FALSE, FALSE)
           new == Pop(marked)
<1>1. /\ b \in Emitters /\ b.indents # <<>> /\ b.states = em.states /\ em.states # <<>>
      /\ b.flowLevel > 0
  BY BegunIsDeep DEF Begins, Keeps, Closable
<1>2. CloseFlow(b, bracket) = new
  BY DEF CloseFlow
<1>3. /\ outer \in Emitters /\ Keeps(outer, b)
      /\ Len(outer.indents) = Len(b.indents) - 1 /\ outer.flowLevel = b.flowLevel
  BY <1>1, DecreaseIndentTyped
<1> HIDE DEF outer
<1>4. outer.states = em.states /\ outer.flowLevel - 1 \in Nat
  <2>1. b.flowLevel \in Nat
    BY <1>1, FieldsTyped
  <2> HIDE DEF counted, marked, new
  <2>2. outer.flowLevel - 1 \in Nat
    BY <1>1, <1>3, <2>1
  <2>3. QED
    BY <1>1, <1>3, <2>2 DEF Keeps
<1>5. /\ counted.states = outer.states /\ counted.indents = outer.indents
      /\ counted.flowLevel = outer.flowLevel - 1
  BY <1>3, FieldsTyped DEF Fields
<1>6. counted \in Emitters
  BY <1>3, <1>4, FieldTyped, Zenon
<1> HIDE DEF counted
<1>7. Writes(marked, counted)
  BY <1>6, IndicatorWrites
<1> HIDE DEF marked
<1>8. /\ marked \in Emitters /\ marked.states = em.states
      /\ marked.indents = outer.indents /\ marked.flowLevel = outer.flowLevel - 1
  BY <1>4, <1>5, <1>7 DEF Writes, Keeps
<1>9. /\ new \in Emitters
      /\ new.state = Last(em.states) /\ new.states = Front(em.states)
      /\ new.indents = marked.indents /\ new.flowLevel = marked.flowLevel
  BY <1>1, <1>8, PopTyped
<1> HIDE DEF new
<1>10. Len(em.indents) \in Nat /\ em.flowLevel \in Nat
  BY FieldsTyped
<1>11. EndStep(new, em)
  <2>1. CASE em.state \in FirstOnes
    <3>1. Len(b.indents) = Len(em.indents) + 1 /\ b.flowLevel = em.flowLevel + 1
      BY <2>1, Zenon DEF Begins
    <3>2. Len(new.indents) = Len(em.indents) - 0 /\ new.flowLevel = em.flowLevel - 0
      BY <1>3, <1>8, <1>9, <1>10, <3>1
    <3>3. QED
      BY <1>9, <2>1, <3>2, Zenon DEF EndStep
  <2>2. CASE em.state \notin FirstOnes
    <3>1. Len(b.indents) = Len(em.indents) + 0 /\ b.flowLevel = em.flowLevel + 0
      BY <2>2, Zenon DEF Begins
    <3>2. Len(new.indents) = Len(em.indents) - 1 /\ new.flowLevel = em.flowLevel - 1
      BY <1>3, <1>8, <1>9, <1>10, <3>1
    <3>3. QED
      BY <1>9, <2>2, <3>2, Zenon DEF EndStep
  <2>3. QED
    BY <2>1, <2>2
<1>12. QED
  BY <1>2, <1>9, <1>11 DEF TypedTurn

(* A refusal needs no more.                                                *)
LEMMA RefuseTyped ==
    ASSUME NEW em \in Emitters, NEW old
    PROVE  TypedTurn(Refuse(em), old)
<1>1. Refuse(em) \in Emitters /\ Refuse(em).ok = FALSE
  BY RefusedTyped, Zenon
<1>2. QED
  BY <1>1 DEF TypedTurn

-----------------------------------------------------------------------------
(* The state functions at a node.                                          *)
LEMMA DocumentContentTyped ==
    ASSUME CallerWritesText, CallerIsTextual, NEW em \in Emitters, em.ok = TRUE,
           em.state = "DOCUMENT-CONTENT", NEW q, q[1] \in CallerEvents
    PROVE  TypedTurn(EmitDocumentContent(em, q), em)
<1>1. /\ em.state \notin FirstOnes /\ em.state \notin FlowStates /\ em.state \in NodeStates
      /\ "DOCUMENT-END" \notin FlowStates /\ "root" \in Contexts
  BY DEF FirstOnes, FirstBlocks, FlowStates, NodeStates, Contexts
<1>2. Begins(em, em)
  <2>1. em \in Emitters /\ Keeps(em, em)
    BY WritesNothing DEF Writes
  <2>2. em.indents \in Seq(Indents) /\ em.flowLevel \in Nat
    BY FieldsTyped
  <2>3. Len(em.indents) = Len(em.indents) + 0 /\ em.flowLevel = em.flowLevel + 0
    BY <2>2
  <2>4. QED
    BY <1>1, <2>1, <2>3, Zenon DEF Begins
<1>3. TypedTurn(EmitNode(Push(em, "DOCUMENT-END"), q, "root"), em)
  BY <1>1, <1>2, NodeTyped
<1>4. QED
  BY <1>3 DEF EmitDocumentContent

(* An item of a flow sequence, or its end.                                 *)
LEMMA FlowSequenceItemTyped ==
    ASSUME CallerWritesText, CallerIsTextual, NEW em \in Emitters, em.ok = TRUE,
           em.state \in FlowItems, NEW first, first <=> em.state \in FirstOnes,
           NEW q, q[1] \in CallerEvents, q[1].type \in EndsOf(em.state) => Closable(em)
    PROVE  TypedTurn(EmitFlowSequenceItem(em, q, first), em)
<1> DEFINE e == q[1]
           begun == IF first THEN OpenFlow(em, "[") ELSE em
           behind == Comma(begun, first)
           return == "FLOW-SEQUENCE-ITEM"
<1>1. EmitFlowSequenceItem(em, q, first) =
        IF e.type = "SEQUENCE-END" THEN CloseFlow(begun, "]")
        ELSE EmitNode(Push(behind, return), q, "sequence")
  BY DEF EmitFlowSequenceItem
<1>2. /\ em.state \in ItemStates /\ em.state \in NodeStates
      /\ em.state # "DOCUMENT-CONTENT" /\ em.state \in FlowStates
      /\ return \in Behind \cup {"DOCUMENT-END"} /\ return # "DOCUMENT-END"
      /\ return \in FlowStates /\ EndsOf(em.state) = {"SEQUENCE-END"} /\ "sequence" \in Contexts
  BY DEF FlowItems, NodeStates, Collections, ItemStates, FlowStates, Behind, EndsOf, Contexts
<1>3. "[" \in Symbols /\ "]" \in Symbols
  BY OwnSymbols, Zenon
<1>4. Begins(begun, em)
  BY <1>2, <1>3, BeginsFlow, Zenon
<1> HIDE DEF begun
<1>5. Begins(behind, em)
  <2>1. Writes(behind, begun)
    BY <1>4, CommaWrites DEF Begins
  <2>2. QED
    BY <1>4, <2>1, BeginsWrites, Zenon
<1> HIDE DEF behind
<1>6. CASE e.type = "SEQUENCE-END"
  <2>1. TypedTurn(CloseFlow(begun, "]"), em)
    BY <1>2, <1>3, <1>4, <1>6, CloseFlowTyped, Zenon
  <2>2. QED
    BY <1>1, <1>6, <2>1
<1>7. CASE e.type # "SEQUENCE-END"
  <2>1. TypedTurn(EmitNode(Push(behind, return), q, "sequence"), em)
    BY <1>2, <1>5, NodeTyped, Zenon
  <2>2. QED
    BY <1>1, <1>7, <2>1
<1>8. QED
  BY <1>6, <1>7

(* A key of a flow mapping, or its end.                                    *)
LEMMA FlowMappingKeyTyped ==
    ASSUME CallerWritesText, CallerIsTextual, NEW em \in Emitters, em.ok = TRUE,
           em.state \in FlowKeys, NEW first, first <=> em.state \in FirstOnes,
           NEW q, q[1] \in CallerEvents, q[1].type \in EndsOf(em.state) => Closable(em)
    PROVE  TypedTurn(EmitFlowMappingKey(em, q, first), em)
<1> DEFINE e == q[1]
           begun == IF first THEN OpenFlow(em, "{") ELSE em
           behind == Comma(begun, first)
           simple == SimpleKey(behind, q)
           marked == Indicator(behind, <<"?">>, TRUE, FALSE, FALSE)
           one == "FLOW-MAPPING-SIMPLE-VALUE"
           other == "FLOW-MAPPING-VALUE"
<1>1. EmitFlowMappingKey(em, q, first) =
        IF e.type = "MAPPING-END" THEN CloseFlow(begun, "}")
        ELSE IF simple THEN EmitNode(Push(behind, one), q, "simple_key")
        ELSE EmitNode(Push(marked, other), q, "mapping")
  BY DEF EmitFlowMappingKey
<1>2. /\ em.state \in KeyStates /\ em.state \in NodeStates
      /\ em.state # "DOCUMENT-CONTENT" /\ em.state \in FlowStates
      /\ one \in Behind \cup {"DOCUMENT-END"} /\ one # "DOCUMENT-END" /\ one \in FlowStates
      /\ other \in Behind \cup {"DOCUMENT-END"} /\ other # "DOCUMENT-END" /\ other \in FlowStates
      /\ EndsOf(em.state) = {"MAPPING-END"}
      /\ "mapping" \in Contexts /\ "simple_key" \in Contexts
  BY DEF FlowKeys, NodeStates, Collections, ItemStates, KeyStates, ValueStates, FlowStates,
         Behind, EndsOf, Contexts
<1>3. "{" \in Symbols /\ "}" \in Symbols /\ "?" \in Symbols
  BY OwnSymbols, Zenon
<1>4. Begins(begun, em)
  BY <1>2, <1>3, BeginsFlow, Zenon
<1> HIDE DEF begun
<1>5. Begins(behind, em)
  <2>1. Writes(behind, begun)
    BY <1>4, CommaWrites DEF Begins
  <2>2. QED
    BY <1>4, <2>1, BeginsWrites, Zenon
<1> HIDE DEF behind, simple
<1>6. Begins(marked, em)
  <2>1. behind \in Emitters
    BY <1>5 DEF Begins
  <2>2. Writes(marked, behind)
    BY <1>3, <2>1, IndicatorWrites
  <2>3. QED
    BY <1>5, <2>2, BeginsWrites, Zenon
<1> HIDE DEF marked
<1>7. CASE e.type = "MAPPING-END"
  <2>1. TypedTurn(CloseFlow(begun, "}"), em)
    BY <1>2, <1>3, <1>4, <1>7, CloseFlowTyped, Zenon
  <2>2. QED
    BY <1>1, <1>7, <2>1
<1>8. CASE e.type # "MAPPING-END"
  <2>1. TypedTurn(EmitNode(Push(behind, one), q, "simple_key"), em)
    BY <1>2, <1>5, NodeTyped, Zenon
  <2>2. TypedTurn(EmitNode(Push(marked, other), q, "mapping"), em)
    BY <1>2, <1>6, NodeTyped, Zenon
  <2>3. QED
    BY <1>1, <1>8, <2>1, <2>2, Zenon
<1>9. QED
  BY <1>7, <1>8

(* A value of a flow mapping.                                              *)
LEMMA FlowMappingValueTyped ==
    ASSUME CallerWritesText, CallerIsTextual, NEW em \in Emitters, em.ok = TRUE,
           em.state \in FlowValues, NEW simple, NEW q, q[1] \in CallerEvents
    PROVE  TypedTurn(EmitFlowMappingValue(em, q, simple), em)
<1> DEFINE line == NewLineIfLong(em)
           colon == Indicator(em, <<":">>, FALSE, FALSE, FALSE)
           below == Indicator(line, <<":">>, TRUE, FALSE, FALSE)
           marked == IF simple THEN colon ELSE below
           return == "FLOW-MAPPING-KEY"
<1>1. EmitFlowMappingValue(em, q, simple) = EmitNode(Push(marked, return), q, "mapping")
  BY DEF EmitFlowMappingValue
<1>2. /\ em.state \in NodeStates /\ em.state # "DOCUMENT-CONTENT" /\ em.state \in FlowStates
      /\ em.state \notin FirstOnes
      /\ return \in Behind \cup {"DOCUMENT-END"} /\ return # "DOCUMENT-END"
      /\ return \in FlowStates /\ "mapping" \in Contexts
  BY DEF FlowValues, NodeStates, Collections, ValueStates, FlowStates, FirstOnes, FirstBlocks,
         Behind, Contexts
<1>3. ":" \in Symbols
  BY OwnSymbols, Zenon
<1>4. Writes(line, em)
  BY NewLineWrites
<1> HIDE DEF line
<1>5. Writes(below, em)
  <2>1. Writes(below, line)
    BY <1>3, <1>4, IndicatorWrites DEF Writes
  <2>2. QED
    BY <1>4, <2>1, WritesTransitive, Zenon
<1>6. Writes(colon, em)
  BY <1>3, IndicatorWrites
<1> HIDE DEF colon, below
<1>7. Writes(marked, em)
  BY <1>5, <1>6, Zenon
<1> HIDE DEF marked
<1>8. Begins(marked, em)
  <2>1. em.indents \in Seq(Indents) /\ em.flowLevel \in Nat
    BY FieldsTyped
  <2>2. Len(marked.indents) = Len(em.indents) + 0 /\ marked.flowLevel = em.flowLevel + 0
    BY <1>7, <2>1 DEF Writes
  <2>3. QED
    BY <1>2, <1>7, <2>2, Zenon DEF Writes, Begins
<1>9. TypedTurn(EmitNode(Push(marked, return), q, "mapping"), em)
  BY <1>2, <1>8, NodeTyped, Zenon
<1>10. QED
  BY <1>1, <1>9

(* An item of a block sequence, or its end.                                *)
LEMMA BlockSequenceItemTyped ==
    ASSUME CallerWritesText, CallerIsTextual, NEW em \in Emitters, em.ok = TRUE,
           em.state \in BlockItems, NEW first, first <=> em.state \in FirstOnes,
           NEW q, q[1] \in CallerEvents, q[1].type \in EndsOf(em.state) => Closable(em)
    PROVE  TypedTurn(EmitBlockSequenceItem(em, q, first), em)
<1> DEFINE e == q[1]
           indentless == /\ em.context \in {"mapping", "simple_key"}
                         /\ ~IndentMappingSequence /\ ~em.out.indention
           begun == IF first THEN IncreaseIndent(em, FALSE, indentless) ELSE em
           line == NewLine(begun)
           marked == Indicator(line, <<"-">>, TRUE, FALSE, TRUE)
           return == "BLOCK-SEQUENCE-ITEM"
<1>1. EmitBlockSequenceItem(em, q, first) =
        IF e.type = "SEQUENCE-END" THEN Pop(DecreaseIndent(begun))
        ELSE EmitNode(Push(marked, return), q, "sequence")
  BY DEF EmitBlockSequenceItem
<1>2. /\ em.state \in ItemStates /\ em.state \in NodeStates
      /\ em.state # "DOCUMENT-CONTENT" /\ em.state \notin FlowStates
      /\ return \in Behind \cup {"DOCUMENT-END"} /\ return # "DOCUMENT-END"
      /\ return \notin FlowStates /\ EndsOf(em.state) = {"SEQUENCE-END"} /\ "sequence" \in Contexts
  BY DEF BlockItems, NodeStates, Collections, ItemStates, FlowStates, Behind, EndsOf, Contexts
<1> HIDE DEF indentless
<1>3. Begins(begun, em)
  BY <1>2, BeginsBlock, Zenon
<1> HIDE DEF begun
<1>4. Begins(line, em) /\ line \in Emitters
  <2>1. Writes(line, begun)
    BY <1>3, NewLineWrites DEF Begins
  <2>2. QED
    BY <1>3, <2>1, BeginsWrites, Zenon DEF Writes
<1> HIDE DEF line
<1>5. Begins(marked, em)
  <2>1. "-" \in Symbols
    BY OwnSymbols, Zenon
  <2>2. Writes(marked, line)
    BY <1>4, <2>1, IndicatorWrites
  <2>3. QED
    BY <1>4, <2>2, BeginsWrites, Zenon
<1> HIDE DEF marked
<1>6. CASE e.type = "SEQUENCE-END"
  <2>1. TypedTurn(Pop(DecreaseIndent(begun)), em)
    BY <1>2, <1>3, <1>6, EndBlockTyped, Zenon
  <2>2. QED
    BY <1>1, <1>6, <2>1
<1>7. CASE e.type # "SEQUENCE-END"
  <2>1. TypedTurn(EmitNode(Push(marked, return), q, "sequence"), em)
    BY <1>2, <1>5, NodeTyped, Zenon
  <2>2. QED
    BY <1>1, <1>7, <2>1
<1>8. QED
  BY <1>6, <1>7

(* A key of a block mapping, or its end.                                   *)
LEMMA BlockMappingKeyTyped ==
    ASSUME CallerWritesText, CallerIsTextual, NEW em \in Emitters, em.ok = TRUE,
           em.state \in BlockKeys, NEW first, first <=> em.state \in FirstOnes,
           NEW q, q[1] \in CallerEvents, q[1].type \in EndsOf(em.state) => Closable(em)
    PROVE  TypedTurn(EmitBlockMappingKey(em, q, first), em)
<1> DEFINE e == q[1]
           begun == IF first THEN IncreaseIndent(em, FALSE, FALSE) ELSE em
           line == NewLine(begun)
           simple == SimpleKey(line, q)
           marked == Indicator(line, <<"?">>, TRUE, FALSE, TRUE)
           one == "BLOCK-MAPPING-SIMPLE-VALUE"
           other == "BLOCK-MAPPING-VALUE"
<1>1. EmitBlockMappingKey(em, q, first) =
        IF e.type = "MAPPING-END" THEN Pop(DecreaseIndent(begun))
        ELSE IF simple THEN EmitNode(Push(line, one), q, "simple_key")
        ELSE EmitNode(Push(marked, other), q, "mapping")
  BY DEF EmitBlockMappingKey
<1>2. /\ em.state \in KeyStates /\ em.state \in NodeStates
      /\ em.state # "DOCUMENT-CONTENT" /\ em.state \notin FlowStates
      /\ one \in Behind \cup {"DOCUMENT-END"} /\ one # "DOCUMENT-END" /\ one \notin FlowStates
      /\ other \in Behind \cup {"DOCUMENT-END"} /\ other # "DOCUMENT-END"
      /\ other \notin FlowStates /\ EndsOf(em.state) = {"MAPPING-END"}
      /\ "mapping" \in Contexts /\ "simple_key" \in Contexts
  BY DEF BlockKeys, NodeStates, Collections, ItemStates, KeyStates, ValueStates, FlowStates,
         Behind, EndsOf, Contexts
<1>3. Begins(begun, em)
  BY <1>2, BeginsBlock, Zenon
<1> HIDE DEF begun
<1>4. Begins(line, em) /\ line \in Emitters
  <2>1. Writes(line, begun)
    BY <1>3, NewLineWrites DEF Begins
  <2>2. QED
    BY <1>3, <2>1, BeginsWrites, Zenon DEF Writes
<1> HIDE DEF line, simple
<1>5. Begins(marked, em)
  <2>1. "?" \in Symbols
    BY OwnSymbols, Zenon
  <2>2. Writes(marked, line)
    BY <1>4, <2>1, IndicatorWrites
  <2>3. QED
    BY <1>4, <2>2, BeginsWrites, Zenon
<1> HIDE DEF marked
<1>6. CASE e.type = "MAPPING-END"
  <2>1. TypedTurn(Pop(DecreaseIndent(begun)), em)
    BY <1>2, <1>3, <1>6, EndBlockTyped, Zenon
  <2>2. QED
    BY <1>1, <1>6, <2>1
<1>7. CASE e.type # "MAPPING-END"
  <2>1. TypedTurn(EmitNode(Push(line, one), q, "simple_key"), em)
    BY <1>2, <1>4, NodeTyped, Zenon
  <2>2. TypedTurn(EmitNode(Push(marked, other), q, "mapping"), em)
    BY <1>2, <1>5, NodeTyped, Zenon
  <2>3. QED
    BY <1>1, <1>7, <2>1, <2>2, Zenon
<1>8. QED
  BY <1>6, <1>7

(* A value of a block mapping.                                             *)
LEMMA BlockMappingValueTyped ==
    ASSUME CallerWritesText, CallerIsTextual, NEW em \in Emitters, em.ok = TRUE,
           em.state \in BlockValues, NEW simple, NEW q, q[1] \in CallerEvents
    PROVE  TypedTurn(EmitBlockMappingValue(em, q, simple), em)
<1> DEFINE line == NewLine(em)
           colon == Indicator(em, <<":">>, FALSE, FALSE, FALSE)
           below == Indicator(line, <<":">>, TRUE, FALSE, TRUE)
           marked == IF simple THEN colon ELSE below
           return == "BLOCK-MAPPING-KEY"
<1>1. EmitBlockMappingValue(em, q, simple) = EmitNode(Push(marked, return), q, "mapping")
  BY DEF EmitBlockMappingValue
<1>2. /\ em.state \in NodeStates /\ em.state # "DOCUMENT-CONTENT" /\ em.state \notin FlowStates
      /\ em.state \notin FirstOnes
      /\ return \in Behind \cup {"DOCUMENT-END"} /\ return # "DOCUMENT-END"
      /\ return \notin FlowStates /\ "mapping" \in Contexts
  BY DEF BlockValues, NodeStates, Collections, ValueStates, FlowStates, FirstOnes, FirstBlocks,
         Behind, Contexts
<1>3. ":" \in Symbols
  BY OwnSymbols, Zenon
<1>4. Writes(line, em)
  BY NewLineWrites
<1> HIDE DEF line
<1>5. Writes(below, em)
  <2>1. Writes(below, line)
    BY <1>3, <1>4, IndicatorWrites DEF Writes
  <2>2. QED
    BY <1>4, <2>1, WritesTransitive, Zenon
<1>6. Writes(colon, em)
  BY <1>3, IndicatorWrites
<1> HIDE DEF colon, below
<1>7. Writes(marked, em)
  BY <1>5, <1>6, Zenon
<1> HIDE DEF marked
<1>8. Begins(marked, em)
  <2>1. em.indents \in Seq(Indents) /\ em.flowLevel \in Nat
    BY FieldsTyped
  <2>2. Len(marked.indents) = Len(em.indents) + 0 /\ marked.flowLevel = em.flowLevel + 0
    BY <1>7, <2>1 DEF Writes
  <2>3. QED
    BY <1>2, <1>7, <2>2, Zenon DEF Writes, Begins
<1>9. TypedTurn(EmitNode(Push(marked, return), q, "mapping"), em)
  BY <1>2, <1>8, NodeTyped, Zenon
<1>10. QED
  BY <1>1, <1>9

-----------------------------------------------------------------------------
(* The stream starts with the output and the indentation set up.           *)
LEMMA StreamStartTyped ==
    ASSUME NEW em \in Emitters, em.state = "STREAM-START", NEW q
    PROVE  TypedTurn(EmitStreamStart(em, q), em)
<1> DEFINE out == [EmptyOutput EXCEPT !.text = em.out.text]
           new == [em EXCEPT !.indent = -1, !.state = "FIRST-DOCUMENT-START", !.out = out]
<1>1. EmitStreamStart(em, q) = IF q[1].type = "STREAM-START" THEN new ELSE Refuse(em)
  BY DEF EmitStreamStart
<1>2. out \in Outputs
  <2>1. em.out \in Outputs
    BY FieldsTyped
  <2>2. em.out.text \in Texts
    BY <2>1 DEF Outputs
  <2>3. <<>> \in Texts /\ 0 \in Nat /\ 0 \in 0..2
    BY DEF Texts
  <2>4. EmptyOutput \in Outputs
    BY <2>3, Zenon DEF EmptyOutput, Outputs
  <2>5. QED
    BY <2>2, <2>4, Zenon DEF Outputs
<1> HIDE DEF out
<1>3. -1 \in Indents /\ "FIRST-DOCUMENT-START" \in States
  BY DEF Indents, States
<1>4. new \in Emitters
  BY <1>2, <1>3, FieldTyped, Zenon
<1>5. /\ new.state = "FIRST-DOCUMENT-START" /\ new.states = em.states
      /\ new.indents = em.indents /\ new.flowLevel = em.flowLevel
  BY FieldsTyped DEF Fields
<1> HIDE DEF new
<1>6. TypedTurn(new, em)
  BY <1>4, <1>5 DEF TypedTurn, OutsideStep, Outside
<1>7. QED
  BY <1>1, <1>6, RefuseTyped

(* A document ends outside of every collection.                            *)
LEMMA DocumentEndTyped ==
    ASSUME NEW em \in Emitters, em.state = "DOCUMENT-END", NEW q
    PROVE  TypedTurn(EmitDocumentEnd(em, q), em)
<1> DEFINE ended == NewLine(em)
           dotted == Indicator(ended, <<".", ".", ".">>, TRUE, FALSE, FALSE)
           open == IF ended.out.openEnded = 0 THEN 1 ELSE ended.out.openEnded
           out == [ended.out EXCEPT !.openEnded = open]
           left == [ended EXCEPT !.out = out]
           marked == IF ~q[1].implicit THEN NewLine(dotted) ELSE left
           new == [marked EXCEPT !.state = "DOCUMENT-START", !.tagDirectives = <<>>]
<1>1. EmitDocumentEnd(em, q) = IF q[1].type = "DOCUMENT-END" THEN new ELSE Refuse(em)
  BY DEF EmitDocumentEnd
<1>2. Writes(ended, em)
  BY NewLineWrites
<1> HIDE DEF ended
<1>3. ended \in Emitters /\ ended.out \in Outputs
  BY <1>2, FieldsTyped DEF Writes
<1>4. Writes(left, ended)
  <2>1. ended.out.openEnded \in 0..2
    BY <1>3 DEF Outputs
  <2>2. 1 \in 0..2
    OBVIOUS
  <2>3. open \in 0..2
    BY <2>1, <2>2, Zenon
  <2> HIDE DEF open
  <2>4. out \in Outputs
    BY <1>3, <2>3, InlineTyped, Zenon
  <2> HIDE DEF out
  <2>5. QED
    BY <1>3, <2>4, OutWrites
<1>5. Writes(dotted, ended)
  <2>1. WriteIndicator(ended.out, <<".", ".", ".">>, TRUE, FALSE, FALSE) \in Outputs
    BY <1>3, WordsTyped, WriteIndicatorTyped
  <2>2. QED
    BY <1>3, <2>1, OutWrites DEF Indicator
<1> HIDE DEF dotted, left
<1>6. Writes(NewLine(dotted), dotted)
  BY <1>5, NewLineWrites DEF Writes
<1>7. Writes(NewLine(dotted), em) /\ Writes(left, em)
  BY <1>2, <1>4, <1>5, <1>6, WritesTransitive, Zenon
<1>8. Writes(marked, em)
  BY <1>7, Zenon
<1> HIDE DEF marked
<1>9. /\ marked \in Emitters /\ marked.states = em.states
      /\ marked.indents = em.indents /\ marked.flowLevel = em.flowLevel
  BY <1>8 DEF Writes, Keeps
<1>10. "DOCUMENT-START" \in States /\ <<>> \in Seq(AllDirectives)
  BY DEF States
<1>11. new \in Emitters
  BY <1>9, <1>10, FieldTyped, Zenon
<1>12. /\ new.state = "DOCUMENT-START" /\ new.states = marked.states
       /\ new.indents = marked.indents /\ new.flowLevel = marked.flowLevel
  BY <1>9, FieldsTyped DEF Fields
<1> HIDE DEF new
<1>13. TypedTurn(new, em)
  BY <1>9, <1>11, <1>12 DEF TypedTurn, OutsideStep, Outside
<1>14. QED
  BY <1>1, <1>13, RefuseTyped

(* The tag directives of a document, one line after the other.             *)
LEMMA TagDirectivesWritten ==
    ASSUME CallerWritesText, CallerIsTextual, NEW o \in Outputs, NEW ds \in Seq(TagDirectives)
    PROVE  Pass(ds, o, LAMBDA out, i : WriteTagDirective(out, ds[i])) \in Outputs
<1> DEFINE n == Len(ds)
           A == Outputs
           After(s, i) == WriteTagDirective(s, ds[i])
           g == [x \in A \X (1..n) |-> After(x[1], x[2])]
           Is(f) == f = [i \in 0..n |-> IF i = 0 THEN o ELSE After(f[i - 1], i)]
           c == CHOOSE f : Is(f)
<1>1. Pass(ds, o, LAMBDA out, i : WriteTagDirective(out, ds[i])) = c[n]
  BY DEF Pass
<1>2. n \in Nat /\ o \in A
  OBVIOUS
<1>3. \A s \in A : \A i \in 1..n : After(s, i) \in A
  <2>1. ASSUME NEW s \in A, NEW i \in 1..n PROVE After(s, i) \in A
    <3>1. ds[i] \in AllDirectives
      BY DEF AllDirectives
    <3>2. ds[i].handle \in Texts /\ ds[i].prefix \in Seq(TagSymbols)
      BY <3>1, DirectivesTyped
    <3>3. QED
      BY <3>2, WriteTagDirectiveTyped, Zenon
  <2>2. QED
    BY <2>1
<1> HIDE DEF A, n, After
<1>4. g \in [A \X (1..n) -> A] /\ \A s \in A : \A i \in 1..n : g[<<s, i>>] = After(s, i)
  BY <1>3
<1> HIDE DEF g
<1>5. PICK f : PassesThrough(A, n, o, g, f)
  BY <1>2, <1>4, PassExists
<1>6. Is(f)
  <2>1. \A i \in 1..n : f[i] = After(f[i - 1], i)
    BY <1>4, <1>5 DEF PassesThrough
  <2>2. f = [i \in 0..n |-> f[i]] /\ f[0] = o
    BY <1>5 DEF PassesThrough
  <2>3. ASSUME NEW i \in 0..n PROVE f[i] = IF i = 0 THEN o ELSE After(f[i - 1], i)
    <3>1. CASE i = 0
      BY <2>2, <3>1, Zenon
    <3>2. CASE i # 0
      <4>1. i \in 1..n
        BY <1>2, <3>2
      <4>2. QED
        BY <2>1, <3>2, <4>1, Zenon
    <3>3. QED
      BY <3>1, <3>2
  <2>4. [i \in 0..n |-> f[i]] = [i \in 0..n |-> IF i = 0 THEN o ELSE After(f[i - 1], i)]
    BY <2>3, Zenon
  <2>5. QED
    BY <2>2, <2>4, Zenon
<1>7. Is(c)
  <2> HIDE DEF Is
  <2> QED BY <1>6
<1> HIDE DEF c
<1>8. c[0] = o /\ \A i \in 1..n : c[i] = After(c[i - 1], i)
  <2> DEFINE e == [i \in 0..n |-> IF i = 0 THEN o ELSE After(c[i - 1], i)]
  <2>1. e[0] = o /\ \A i \in 1..n : e[i] = After(c[i - 1], i)
    BY <1>2
  <2>2. QED
    BY <1>7, <2>1, Zenon
<1>9. \A i \in 0..n : c[i] \in A
  BY <1>2, <1>3, <1>8, LoopStays
<1>10. c[n] \in A
  BY <1>2, <1>9
<1>11. QED
  BY <1>1, <1>10 DEF A

(* The start of a document.                                                *)
LEMMA AppendDirectivesTyped ==
    ASSUME NEW em \in Emitters, NEW ds \in Seq(TagDirectives)
    PROVE  LET new == AppendDirectives(em, ds)
           IN  /\ new \in Emitters
               /\ new.states = em.states
               /\ new.indents = em.indents /\ new.flowLevel = em.flowLevel
<1> DEFINE refused == Refused(em, ds)
           rest == SubSeq(ds, 1, Min(refused) - 1)
<1>1. em.tagDirectives \in Seq(AllDirectives) /\ ds \in Seq(AllDirectives)
  BY FieldsTyped, DirectivesAreAmong
<1>2. CASE refused = {}
  <2> DEFINE all == em.tagDirectives \o ds
             new == [em EXCEPT !.tagDirectives = all]
  <2>1. AppendDirectives(em, ds) = new
    BY <1>2 DEF AppendDirectives
  <2>2. all \in Seq(AllDirectives)
    BY <1>1, Concatenation
  <2> HIDE DEF all
  <2>3. new \in Emitters
    BY <2>2, FieldTyped, Zenon
  <2>4. /\ new.states = em.states
        /\ new.indents = em.indents /\ new.flowLevel = em.flowLevel
    BY FieldsTyped DEF Fields
  <2> HIDE DEF new
  <2>5. QED
    BY <2>1, <2>3, <2>4
<1>3. CASE refused # {}
  <2> DEFINE some == em.tagDirectives \o rest
             new == [em EXCEPT !.tagDirectives = some]
  <2>1. AppendDirectives(em, ds) = Refuse(new)
    BY <1>3, Zenon DEF AppendDirectives
  <2>2. Min(refused) \in DOMAIN ds
    BY <1>3, LeastRefused
  <2> HIDE DEF refused
  <2>3. rest \in Seq(AllDirectives)
    BY <1>1, <2>2
  <2> HIDE DEF rest
  <2>4. some \in Seq(AllDirectives)
    BY <1>1, <2>3, Concatenation
  <2> HIDE DEF some
  <2>5. new \in Emitters
    BY <2>4, FieldTyped, Zenon
  <2>6. /\ new.states = em.states
        /\ new.indents = em.indents /\ new.flowLevel = em.flowLevel
    BY FieldsTyped DEF Fields
  <2> HIDE DEF new
  <2>7. Refuse(new) \in Emitters
    BY <2>5, FieldTyped, Zenon
  <2>8. /\ Refuse(new).states = new.states
        /\ Refuse(new).indents = new.indents /\ Refuse(new).flowLevel = new.flowLevel
    BY <2>5, FieldsTyped DEF Fields, Refuse
  <2>9. QED
    BY <2>1, <2>6, <2>7, <2>8
<1>4. QED
  BY <1>2, <1>3

(* A default directive is one of those that there are.                     *)
LEMMA WithDefaultTyped ==
    ASSUME NEW em \in Emitters, NEW d \in AllDirectives
    PROVE  LET new == WithDefault(em, d)
           IN  /\ new \in Emitters
               /\ new.states = em.states
               /\ new.indents = em.indents /\ new.flowLevel = em.flowLevel
<1> DEFINE more == Append(em.tagDirectives, d)
           new == [em EXCEPT !.tagDirectives = more]
<1>1. WithDefault(em, d) = IF HandleTaken(em, d) THEN em ELSE new
  BY DEF WithDefault
<1>2. more \in Seq(AllDirectives)
  BY FieldsTyped, Appended
<1> HIDE DEF more
<1>3. new \in Emitters
  BY <1>2, FieldTyped, Zenon
<1>4. /\ new.states = em.states
      /\ new.indents = em.indents /\ new.flowLevel = em.flowLevel
  BY FieldsTyped DEF Fields
<1> HIDE DEF new
<1>5. QED
  BY <1>1, <1>3, <1>4

(* What is written in front of a document is text.                         *)
LEMMA WriteDocumentStartTyped ==
    ASSUME CallerWritesText, CallerIsTextual, NEW em \in Emitters, NEW e,
           e.directives \in Seq(TagDirectives), NEW first
    PROVE  LET new == WriteDocumentStart(em, e, first)
           IN  /\ new \in Emitters /\ new.state = "DOCUMENT-CONTENT"
               /\ new.states = em.states
               /\ new.indents = em.indents /\ new.flowLevel = em.flowLevel
<1> DEFINE directives == Given(e.version) \/ e.directives # <<>>
           closed     == CloseOpenDocument(em.out, directives)
           versioned  == IF Given(e.version) THEN WriteVersion(closed, ValueOf(e.version))
                         ELSE closed
           tagged     == Pass(e.directives, versioned,
                              LAMBDA out, i : WriteTagDirective(out, e.directives[i]))
           implicit   == e.implicit /\ first /\ ~directives
           line       == WriteIndent(tagged, -1)
           started    == IF implicit THEN tagged ELSE Marker(line, <<"-", "-", "-">>)
           out        == [started EXCEPT !.openEnded = 0]
           new        == [em EXCEPT !.state = "DOCUMENT-CONTENT", !.out = out]
<1>1. WriteDocumentStart(em, e, first) = new
  BY DEF WriteDocumentStart
<1>2. closed \in Outputs
  <2>1. em.out \in Outputs
    BY FieldsTyped
  <2>2. QED
    BY <2>1, CloseOpenDocumentTyped, Zenon
<1> HIDE DEF closed, directives
<1>3. versioned \in Outputs
  BY <1>2, WriteVersionTyped, Zenon
<1> HIDE DEF versioned
<1>4. tagged \in Outputs
  BY <1>3, TagDirectivesWritten
<1> HIDE DEF tagged, implicit
<1>5. line \in Outputs
  BY <1>4, MarginTyped
<1> HIDE DEF line
<1>6. Marker(line, <<"-", "-", "-">>) \in Outputs
  BY <1>5, WordsTyped, MarginTyped
<1>7. started \in Outputs
  BY <1>4, <1>6, Zenon
<1> HIDE DEF started
<1>8. out \in Outputs
  <2>1. 0 \in 0..2
    OBVIOUS
  <2>2. QED
    BY <1>7, <2>1, InlineTyped, Zenon
<1> HIDE DEF out
<1>9. "DOCUMENT-CONTENT" \in States
  BY DEF States
<1>10. new \in Emitters
  BY <1>8, <1>9, FieldTyped, Zenon
<1>11. /\ new.state = "DOCUMENT-CONTENT" /\ new.states = em.states
       /\ new.indents = em.indents /\ new.flowLevel = em.flowLevel
  BY FieldsTyped DEF Fields
<1> HIDE DEF new
<1>12. QED
  BY <1>1, <1>10, <1>11

(* So is what is written at the end of the stream.                         *)
LEMMA WriteStreamEndTyped ==
    ASSUME NEW em \in Emitters
    PROVE  LET new == WriteStreamEnd(em)
           IN  /\ new \in Emitters /\ new.state = "END"
               /\ new.states = em.states
               /\ new.indents = em.indents /\ new.flowLevel = em.flowLevel
<1> DEFINE line == WriteIndent(Marker(em.out, <<".", ".", ".">>), -1)
           out == IF em.out.openEnded = 2 THEN line ELSE em.out
           new == [em EXCEPT !.state = "END", !.out = out]
<1>1. WriteStreamEnd(em) = new
  BY DEF WriteStreamEnd
<1>2. em.out \in Outputs
  BY FieldsTyped
<1>3. Marker(em.out, <<".", ".", ".">>) \in Outputs
  BY <1>2, WordsTyped, MarginTyped
<1>4. line \in Outputs
  BY <1>3, MarginTyped
<1> HIDE DEF line
<1>5. out \in Outputs
  BY <1>2, <1>4, Zenon
<1> HIDE DEF out
<1>6. "END" \in States
  BY DEF States
<1>7. new \in Emitters
  BY <1>5, <1>6, FieldTyped, Zenon
<1>8. /\ new.state = "END" /\ new.states = em.states
      /\ new.indents = em.indents /\ new.flowLevel = em.flowLevel
  BY FieldsTyped DEF Fields
<1> HIDE DEF new
<1>9. QED
  BY <1>1, <1>7, <1>8

(* A document starts, or the stream ends.                                  *)
LEMMA DocumentStartTyped ==
    ASSUME CallerWritesText, CallerIsTextual, NEW em \in Emitters, em.state \in StartStates,
           NEW first, NEW q,
           q[1].type = "DOCUMENT-START" => q[1].directives \in Seq(TagDirectives)
    PROVE  TypedTurn(EmitDocumentStart(em, q, first), em)
<1> DEFINE e == q[1]
           declared == AppendDirectives(em, e.directives)
           one == WithDefault(declared, PrimaryDefault)
           defaults == WithDefault(one, SecondaryDefault)
           begun == WriteDocumentStart(defaults, e, first)
           ended == WriteStreamEnd(em)
           foreign == \/ e.type # "DOCUMENT-START"
                      \/ Given(e.version) /\ ~ValidVersion(ValueOf(e.version))
<1>1. EmitDocumentStart(em, q, first) =
        IF e.type = "STREAM-END" THEN ended
        ELSE IF foreign THEN Refuse(em)
        ELSE IF ~declared.ok THEN declared
        ELSE begun
  BY DEF EmitDocumentStart, AppendDefaults
<1>2. em.state \in Outside /\ "END" \in Outside /\ "DOCUMENT-CONTENT" \in Outside
  BY DEF StartStates, Outside
<1>3. CASE e.type = "STREAM-END"
  <2>1. /\ ended \in Emitters /\ ended.state = "END" /\ ended.states = em.states
        /\ ended.indents = em.indents /\ ended.flowLevel = em.flowLevel
    BY WriteStreamEndTyped
  <2> HIDE DEF ended
  <2>2. TypedTurn(ended, em)
    BY <1>2, <2>1 DEF TypedTurn, OutsideStep
  <2>3. QED
    BY <1>1, <1>3, <2>2
<1>4. CASE e.type # "STREAM-END" /\ foreign
  BY <1>1, <1>4, RefuseTyped
<1>5. CASE e.type # "STREAM-END" /\ ~foreign
  <2>1. e.directives \in Seq(TagDirectives)
    BY <1>5
  <2>2. PrimaryDefault \in AllDirectives /\ SecondaryDefault \in AllDirectives
    BY DEF AllDirectives
  <2>3. /\ declared \in Emitters /\ declared.states = em.states
        /\ declared.indents = em.indents /\ declared.flowLevel = em.flowLevel
    BY <2>1, AppendDirectivesTyped
  <2> HIDE DEF declared
  <2>4. /\ one \in Emitters /\ one.states = em.states
        /\ one.indents = em.indents /\ one.flowLevel = em.flowLevel
    BY <2>2, <2>3, WithDefaultTyped
  <2> HIDE DEF one
  <2>5. /\ defaults \in Emitters /\ defaults.states = em.states
        /\ defaults.indents = em.indents /\ defaults.flowLevel = em.flowLevel
    BY <2>2, <2>4, WithDefaultTyped
  <2> HIDE DEF defaults, e
  <2>6. /\ begun \in Emitters /\ begun.state = "DOCUMENT-CONTENT"
        /\ begun.states = em.states
        /\ begun.indents = em.indents /\ begun.flowLevel = em.flowLevel
    BY <2>1, <2>5, WriteDocumentStartTyped
  <2> HIDE DEF begun
  <2>7. TypedTurn(begun, em)
    BY <1>2, <2>6 DEF TypedTurn, OutsideStep
  <2>8. ~declared.ok => TypedTurn(declared, em)
    BY <2>3 DEF TypedTurn
  <2>9. QED
    BY <1>1, <1>5, <2>7, <2>8, Zenon
<1>6. QED
  BY <1>3, <1>4, <1>5

-----------------------------------------------------------------------------
(* A collection is at its first item, or behind one.                       *)
LEMMA FirstOrBehind ==
    /\ FirstOnes \cap (Behind \cup {"DOCUMENT-END"}) = {}
    /\ Collections = FirstOnes \cup Behind
    /\ FirstOnes \subseteq ItemStates \cup KeyStates
    /\ ItemStates \cup KeyStates \subseteq Collections
    /\ NodeStates = Collections \cup {"DOCUMENT-CONTENT"}
    /\ FirstBlocks = FirstOnes \ FlowStates
    /\ Outside \cap Collections = {}
    /\ "DOCUMENT-CONTENT" \notin Behind \cup {"DOCUMENT-END"} \cup FirstOnes
    /\ "DOCUMENT-END" \notin Collections /\ "DOCUMENT-CONTENT" \notin Collections
    /\ Outside \cap FirstBlocks = {}
BY DEF FirstOnes, FirstBlocks, Behind, Collections, ItemStates, KeyStates, ValueStates,
       NodeStates, FlowStates, Outside

(* The collections that are begun, as the level counts them.               *)
LevelledAs(s, flow, depth) ==
    /\ flow \in 0..(IF s = <<>> THEN 0 ELSE Len(s) - 1)
    /\ depth = (IF s = <<>> THEN 0 ELSE Len(s) - 1)
    /\ \A i \in 2..Len(s) : s[i] \in FlowStates <=> i > Len(s) - flow

(* The level is a matter of what is begun.                                 *)
LEMMA LevelledAsBegun ==
    ASSUME NEW em
    PROVE  Levelled(em) <=> /\ LevelledAs(Begun(em), em.flowLevel, Len(em.indents))
                            /\ em.state \in FirstBlocks => em.flowLevel = 0
BY Zenon DEF Levelled, LevelledAs, Deep

(* A node at the place of another.                                         *)
LEMMA OneReplaced ==
    ASSUME NEW s \in Seq(States), NEW a \in States, NEW b \in States,
           a \in FlowStates <=> b \in FlowStates, NEW flow \in Nat, NEW depth \in Nat,
           LevelledAs(Append(s, a), flow, depth)
    PROVE  LevelledAs(Append(s, b), flow, depth)
<1> DEFINE x == Append(s, a)
           y == Append(s, b)
           n == Len(s)
<1>1. n \in Nat
  OBVIOUS
<1>2. /\ x # <<>> /\ Len(x) = n + 1 /\ x[n + 1] = a /\ \A i \in 1..n : x[i] = s[i]
      /\ y # <<>> /\ Len(y) = n + 1 /\ y[n + 1] = b /\ \A i \in 1..n : y[i] = s[i]
  OBVIOUS
<1> HIDE DEF x, y, n
<1>3. \A i \in 1..(n + 1) : x[i] \in FlowStates <=> y[i] \in FlowStates
  BY <1>1, <1>2
<1>4. LevelledAs(y, flow, depth)
  BY <1>1, <1>2, <1>3 DEF LevelledAs, x
<1>5. QED
  BY <1>4 DEF y

(* A node in a collection that was begun with it.                          *)
LEMMA OneMore ==
    ASSUME NEW s \in Seq(States), s # <<>>, NEW b \in States, NEW flow \in Nat, NEW depth \in Nat,
           LevelledAs(s, flow, depth), b \notin FlowStates => flow = 0
    PROVE  LevelledAs(Append(s, b), flow + (IF b \in FlowStates THEN 1 ELSE 0), depth + 1)
<1> DEFINE y == Append(s, b)
           n == Len(s)
           more == flow + (IF b \in FlowStates THEN 1 ELSE 0)
<1>1. n \in Nat \ {0} /\ depth = n - 1 /\ flow \in 0..(n - 1)
      /\ \A i \in 2..n : s[i] \in FlowStates <=> i > n - flow
  BY DEF LevelledAs
<1>2. y # <<>> /\ Len(y) = n + 1 /\ y[n + 1] = b /\ \A i \in 1..n : y[i] = s[i]
  OBVIOUS
<1>3. \/ b \in FlowStates /\ more = flow + 1
      \/ b \notin FlowStates /\ more = 0 /\ flow = 0
  OBVIOUS
<1> HIDE DEF y, n, more
<1>4. more \in 0..n
  BY <1>1, <1>3
<1>5. ASSUME NEW i \in 2..(n + 1) PROVE y[i] \in FlowStates <=> i > (n + 1) - more
  <2>1. CASE i = n + 1
    BY <1>1, <1>2, <1>3, <2>1
  <2>2. CASE i \in 2..n
    <3>1. y[i] = s[i]
      BY <1>1, <1>2, <2>2
    <3>2. i > (n + 1) - more <=> i > n - flow
      BY <1>1, <1>3, <2>2
    <3>3. QED
      BY <1>1, <2>2, <3>1, <3>2
  <2>3. QED
    BY <1>1, <2>1, <2>2
<1>6. LevelledAs(y, more, depth + 1)
  BY <1>1, <1>2, <1>4, <1>5 DEF LevelledAs
<1>7. QED
  BY <1>6 DEF y, more

(* A collection that was begun is closed.                                  *)
LEMMA OneLess ==
    ASSUME NEW s \in Seq(States), s # <<>>, NEW a \in States, NEW flow \in Nat, NEW depth \in Nat,
           LevelledAs(Append(s, a), flow, depth)
    PROVE  /\ depth > 0 /\ (a \in FlowStates => flow > 0)
           /\ LevelledAs(s, flow - (IF a \in FlowStates THEN 1 ELSE 0), depth - 1)
<1> DEFINE x == Append(s, a)
           n == Len(s)
           less == flow - (IF a \in FlowStates THEN 1 ELSE 0)
<1>1. n \in Nat \ {0}
  OBVIOUS
<1>2. x # <<>> /\ Len(x) = n + 1 /\ x[n + 1] = a /\ \A i \in 1..n : x[i] = s[i]
  OBVIOUS
<1>3. \/ a \in FlowStates /\ less = flow - 1
      \/ a \notin FlowStates /\ less = flow
  OBVIOUS
<1> HIDE DEF x, n, less
<1>4. depth = n /\ flow \in 0..n /\ \A i \in 2..(n + 1) : x[i] \in FlowStates <=> i > (n + 1) - flow
  BY <1>1, <1>2 DEF LevelledAs, x
<1>5. a \in FlowStates <=> flow > 0
  BY <1>1, <1>2, <1>4
<1>6. less \in 0..(n - 1)
  BY <1>1, <1>3, <1>4, <1>5
<1>7. ASSUME NEW i \in 2..n PROVE s[i] \in FlowStates <=> i > n - less
  <2>1. x[i] = s[i] /\ (x[i] \in FlowStates <=> i > (n + 1) - flow)
    BY <1>1, <1>2, <1>4
  <2>2. i > n - less <=> i > (n + 1) - flow
    BY <1>1, <1>3, <1>4, <1>5
  <2>3. QED
    BY <2>1, <2>2
<1>8. LevelledAs(s, less, depth - 1)
  BY <1>1, <1>4, <1>6, <1>7 DEF LevelledAs, n
<1>9. QED
  BY <1>1, <1>4, <1>5, <1>8 DEF less

(* What is behind the state of an emitter in a document.                   *)
LEMMA BegunInside ==
    ASSUME NEW em \in Emitters, Structured(em)
    PROVE  /\ em.states \in Seq(States) /\ em.state \in States
           /\ Len(em.indents) \in Nat /\ em.flowLevel \in Nat
           /\ em.state \in Collections => em.states # <<>>
           /\ em.state \notin Collections => em.states = <<>>
           /\ em.state \in Behind => Begun(em) = Append(em.states, em.state)
           /\ em.state \in FirstOnes => Begun(em) = em.states
<1>1. em.indents \in Seq(Indents) /\ em.flowLevel \in Nat
  BY FieldsTyped
<1>2. em.state \in FirstOnes => em.state \notin Behind \cup {"DOCUMENT-END"}
  BY FirstOrBehind
<1>3. QED
  BY <1>1, <1>2 DEF Structured, Begun

(* A node leaves the level to the collection that it is in.                *)
LEMMA NodeLevelled ==
    ASSUME NEW em \in Emitters, Structured(em), Levelled(em), NEW new, NodeStep(new, em)
    PROVE  Levelled(new)
<1>1. PICK return \in Behind \cup {"DOCUMENT-END"} :
         /\ return = "DOCUMENT-END" <=> em.state = "DOCUMENT-CONTENT"
         /\ return \in FlowStates <=> em.state \in FlowStates
         /\ \/ new.state = return /\ new.states = em.states
            \/ new.states = Append(em.states, return) /\ new.state \in FirstOnes
  BY DEF NodeStep
<1>2. Begun(new) = Append(em.states, return)
  BY <1>1, FirstOrBehind DEF Begun
<1>3. LevelledAs(Begun(em), em.flowLevel, Len(em.indents))
      /\ (em.state \in FirstBlocks => em.flowLevel = 0)
  BY LevelledAsBegun
<1>4. /\ em.states \in Seq(States) /\ em.state \in States /\ return \in States
      /\ Len(em.indents) \in Nat /\ em.flowLevel \in Nat
  <2>1. return \in States
    BY DEF Behind, States, ItemStates, KeyStates, ValueStates
  <2>2. QED
    BY <2>1, BegunInside
<1>5. em.state \in NodeStates /\ (new.state \in FirstBlocks => new.flowLevel = 0)
  BY DEF NodeStep
<1>6. LevelledAs(Append(em.states, return), new.flowLevel, Len(new.indents))
  <2>1. CASE em.state = "DOCUMENT-CONTENT"
    <3>1. em.states = <<>> /\ em.state \notin Behind \cup {"DOCUMENT-END"} \cup FirstOnes
      BY <2>1, FirstOrBehind, BegunInside
    <3>2. Begun(em) = <<>>
      BY <3>1 DEF Begun
    <3>3. em.flowLevel = 0 /\ Len(em.indents) = 0
      BY <1>3, <1>4, <3>2 DEF LevelledAs
    <3>4. Len(new.indents) = Len(em.indents) + 0 /\ new.flowLevel = em.flowLevel + 0
      BY <3>1, Zenon DEF NodeStep
    <3>5. Append(em.states, return) = <<return>> /\ new.flowLevel = 0 /\ Len(new.indents) = 0
      BY <3>1, <3>3, <3>4
    <3>6. QED
      BY <3>5 DEF LevelledAs
  <2>2. CASE em.state \in Behind
    <3>1. em.state \notin FirstOnes
      BY <2>2, FirstOrBehind
    <3>2. Len(new.indents) = Len(em.indents) + 0 /\ new.flowLevel = em.flowLevel + 0
      BY <3>1, Zenon DEF NodeStep
    <3>3. Len(new.indents) = Len(em.indents) /\ new.flowLevel = em.flowLevel
      BY <1>4, <3>2
    <3>4. LevelledAs(Append(em.states, em.state), em.flowLevel, Len(em.indents))
      BY <1>3, <2>2, BegunInside
    <3>5. LevelledAs(Append(em.states, return), em.flowLevel, Len(em.indents))
      BY <1>1, <1>4, <3>4, OneReplaced
    <3>6. QED
      BY <3>3, <3>5
  <2>3. CASE em.state \in FirstOnes
    <3>1. Begun(em) = em.states /\ em.states # <<>>
      BY <2>3, FirstOrBehind, BegunInside
    <3>2. return \notin FlowStates => em.flowLevel = 0
      BY <1>1, <1>3, <2>3, FirstOrBehind
    <3>3. LevelledAs(Append(em.states, return),
             em.flowLevel + (IF return \in FlowStates THEN 1 ELSE 0), Len(em.indents) + 1)
      BY <1>3, <1>4, <3>1, <3>2, OneMore
    <3>4. Len(new.indents) = Len(em.indents) + 1
      BY <2>3, Zenon DEF NodeStep
    <3>5. new.flowLevel = em.flowLevel + (IF return \in FlowStates THEN 1 ELSE 0)
      BY <1>1, <2>3 DEF NodeStep
    <3>6. QED
      BY <3>3, <3>4, <3>5
  <2>4. QED
    BY <1>5, <2>1, <2>2, <2>3, FirstOrBehind
<1>7. QED
  BY <1>2, <1>5, <1>6, LevelledAsBegun

(* The end of a collection returns to the level of the outer one.          *)
LEMMA EndLevelled ==
    ASSUME NEW em \in Emitters, Structured(em), Levelled(em), NEW new, EndStep(new, em)
    PROVE  Levelled(new)
<1>1. /\ em.state \in ItemStates \cup KeyStates
      /\ new.state = Last(em.states) /\ new.states = Front(em.states)
  BY DEF EndStep
<1>2. em.state \in Collections /\ em.states # <<>> /\ em.states \in Seq(States)
      /\ Len(em.indents) \in Nat /\ em.flowLevel \in Nat /\ em.state \in States
  BY <1>1, FirstOrBehind, BegunInside
<1>3. /\ Append(new.states, new.state) = em.states
      /\ new.state \in Behind \cup {"DOCUMENT-END"}
  <2> DEFINE s == em.states
             n == Len(s)
  <2>1. n \in Nat \ {0}
    BY <1>2
  <2>2. s[1] = "DOCUMENT-END" /\ \A i \in 2..n : s[i] \in Behind
    BY <1>2 DEF Structured
  <2>3. s[n] \in Behind \cup {"DOCUMENT-END"}
    BY <2>1, <2>2
  <2>4. Last(s) = s[n] /\ Front(s) = SubSeq(s, 1, n - 1)
    BY DEF Last, Front
  <2>5. Append(SubSeq(s, 1, n - 1), s[n]) = s
    BY <1>2, <2>1
  <2>6. QED
    BY <1>1, <2>3, <2>4, <2>5
<1>4. Begun(new) = em.states
  BY <1>3 DEF Begun
<1>5. new.state \notin FirstBlocks
  BY <1>3, FirstOrBehind
<1>6. LevelledAs(Begun(em), em.flowLevel, Len(em.indents))
  BY LevelledAsBegun
<1>7. LevelledAs(em.states, new.flowLevel, Len(new.indents))
  <2>1. CASE em.state \in FirstOnes
    <3>1. Len(new.indents) = Len(em.indents) - 0 /\ new.flowLevel = em.flowLevel - 0
      BY <2>1, Zenon DEF EndStep
    <3>2. Len(new.indents) = Len(em.indents) /\ new.flowLevel = em.flowLevel
      BY <1>2, <3>1
    <3>3. QED
      BY <1>6, <2>1, <3>2, BegunInside
  <2>2. CASE em.state \notin FirstOnes
    <3>1. Begun(em) = Append(em.states, em.state)
      BY <1>2, <2>2, FirstOrBehind, BegunInside
    <3>2. Len(new.indents) = Len(em.indents) - 1
      BY <2>2, Zenon DEF EndStep
    <3>3. new.flowLevel = em.flowLevel - (IF em.state \in FlowStates THEN 1 ELSE 0)
      BY <2>2 DEF EndStep
    <3>4. QED
      BY <1>2, <1>6, <3>1, <3>2, <3>3, OneLess
  <2>3. QED
    BY <2>1, <2>2
<1>8. QED
  BY <1>4, <1>5, <1>7, LevelledAsBegun

(* Outside of a document there is no level.                                *)
LEMMA OutsideLevelled ==
    ASSUME NEW em \in Emitters, Structured(em), Levelled(em), NEW new, OutsideStep(new, em)
    PROVE  Levelled(new)
<1>1. /\ em.states = <<>> /\ new.states = <<>>
      /\ new.state \notin FirstBlocks
  BY FirstOrBehind, BegunInside DEF OutsideStep
<1>2. /\ Begun(em) \in {<<>>, <<em.state>>} /\ Begun(new) \in {<<>>, <<new.state>>}
  <2>1. \A x : Append(<<>>, x) = <<x>>
    OBVIOUS
  <2>2. QED
    BY <1>1, <2>1, Zenon DEF Begun
<1>3. LevelledAs(Begun(em), em.flowLevel, Len(em.indents))
  BY LevelledAsBegun
<1>4. em.flowLevel = 0 /\ Len(em.indents) = 0
  BY <1>2, <1>3 DEF LevelledAs
<1>5. new.flowLevel = 0 /\ Len(new.indents) = 0
  BY <1>4 DEF OutsideStep
<1>6. LevelledAs(Begun(new), new.flowLevel, Len(new.indents))
  BY <1>2, <1>5 DEF LevelledAs
<1>7. QED
  BY <1>1, <1>6, LevelledAsBegun

(* Every turn keeps the level.                                             *)
LEMMA LevelKept ==
    ASSUME NEW em \in Emitters, Structured(em), Levelled(em), NEW new, TypedTurn(new, em), new.ok
    PROVE  Levelled(new)
BY NodeLevelled, EndLevelled, OutsideLevelled DEF TypedTurn

(* Where a collection may end, there is what its end takes off the stacks. *)
LEMMA LevelledIsClosable ==
    ASSUME NEW em \in Emitters, Structured(em), Levelled(em), em.state \in ItemStates \cup KeyStates
    PROVE  Closable(em)
<1>1. em.state \in Collections /\ em.states # <<>> /\ em.states \in Seq(States)
      /\ Len(em.indents) \in Nat /\ em.flowLevel \in Nat /\ em.state \in States
  BY FirstOrBehind, BegunInside
<1>2. ASSUME em.state \notin FirstOnes
      PROVE  em.indents # <<>> /\ (em.state \in FlowStates => em.flowLevel > 0)
  <2>1. Begun(em) = Append(em.states, em.state)
    BY <1>1, <1>2, FirstOrBehind, BegunInside
  <2>2. LevelledAs(Append(em.states, em.state), em.flowLevel, Len(em.indents))
    BY <2>1, LevelledAsBegun
  <2>3. Len(em.indents) > 0 /\ (em.state \in FlowStates => em.flowLevel > 0)
    BY <1>1, <2>2, OneLess
  <2>4. em.indents \in Seq(Indents)
    BY FieldsTyped
  <2>5. QED
    BY <2>3, <2>4
<1>3. QED
  BY <1>1, <1>2 DEF Closable

-----------------------------------------------------------------------------
(* The emitter is typed after every turn, and its level follows the nesting*)
(* unless an event was refused.                                            *)
TInv ==
    /\ emitter \in Emitters
    /\ ~emitter.problem => Levelled(emitter)
    /\ call \in {"returned", "processing", "refused"}

(* A call takes the emitter from one of its types to another.              *)
LEMMA ProcessTyped ==
    ASSUME CallerIsTyped, CallerIsTextual, CallerWritesText, IInv, TInv, Process
    PROVE  \E new : TypedTurn(new, Fresh) /\ Concluded(new)
<1> DEFINE e == queue[1]
           Goal == \E new : TypedTurn(new, Fresh) /\ Concluded(new)
<1>1. call = "processing"
  BY ProcessTurns DEF IInv
<1>2. e = Head(queue) /\ e \in CallerEvents
  BY <1>1, EnoughIsNotEmpty DEF IInv, Shapes, Sees
<1>3. /\ Fresh \in Emitters /\ Fresh.ok = TRUE
      /\ Fresh.state = emitter.state /\ Fresh.states = emitter.states
      /\ Fresh.indents = emitter.indents /\ Fresh.flowLevel = emitter.flowLevel
      /\ Fresh.tagDirectives = emitter.tagDirectives
  <2>1. emitter \in Emitters
    BY DEF TInv
  <2>2. Fresh \in Emitters
    BY <2>1, FieldTyped, Zenon DEF Fresh
  <2>3. DOMAIN emitter = Fields
    BY <2>1, FieldsTyped
  <2>4. QED
    BY <2>2, <2>3 DEF Fresh, Fields
<1> HIDE DEF e
<1>4. ASSUME Valid(e), e.type \in EndsOf(Fresh.state) PROVE Closable(Fresh)
  <2>1. Fresh.state \in ItemStates \cup KeyStates
    BY <1>4 DEF EndsOf
  <2>2. Accepts(emitter, e)
    BY <1>3, <1>4, <2>1 DEF Accepts, Collections
  <2>3. ~emitter.problem
    BY <1>4, <2>2 DEF IInv, Stuck, e
  <2>4. Structured(emitter) /\ Levelled(emitter) /\ emitter \in Emitters
    BY <2>3 DEF IInv, Nested, TInv
  <2>5. Closable(emitter)
    BY <1>3, <2>1, <2>4, LevelledIsClosable
  <2>6. QED
    BY <1>3, <2>5 DEF Closable
<1>5. CASE RejectEvent
  <2>1. TypedTurn(Refuse(emitter), Fresh) /\ Concluded(Refuse(emitter))
    BY <1>5, RefuseTyped DEF RejectEvent, TInv
  <2>2. QED
    BY <2>1
<1>6. CASE StreamStartState
  <2>1. Fresh.state = "STREAM-START" /\ Concluded(EmitStreamStart(Fresh, queue))
    BY <1>3, <1>6 DEF StreamStartState, Accepted, InState
  <2>2. TypedTurn(EmitStreamStart(Fresh, queue), Fresh)
    BY <1>3, <2>1, StreamStartTyped
  <2>3. QED
    BY <2>1, <2>2
<1>7. CASE DocumentStartState
  <2> DEFINE first == emitter.state = "FIRST-DOCUMENT-START"
             new == EmitDocumentStart(Fresh, queue, first)
  <2>1. Fresh.state \in StartStates /\ Concluded(new)
    BY <1>3, <1>7 DEF DocumentStartState, Accepted, InState, StartStates
  <2>2. e.type = "DOCUMENT-START" => e.directives \in Seq(TagDirectives)
    BY <1>2 DEF CallerIsTyped
  <2> HIDE DEF first
  <2>3. TypedTurn(new, Fresh)
    BY <1>3, <2>1, <2>2, DocumentStartTyped DEF e
  <2>4. QED
    BY <2>1, <2>3
<1>8. CASE DocumentContentState
  <2>1. Fresh.state = "DOCUMENT-CONTENT" /\ Concluded(EmitDocumentContent(Fresh, queue))
    BY <1>3, <1>8 DEF DocumentContentState, Accepted, InState
  <2>2. TypedTurn(EmitDocumentContent(Fresh, queue), Fresh)
    BY <1>2, <1>3, <2>1, DocumentContentTyped DEF e
  <2>3. QED
    BY <2>1, <2>2
<1>9. CASE DocumentEndState
  <2>1. Fresh.state = "DOCUMENT-END" /\ Concluded(EmitDocumentEnd(Fresh, queue))
    BY <1>3, <1>9 DEF DocumentEndState, Accepted, InState
  <2>2. TypedTurn(EmitDocumentEnd(Fresh, queue), Fresh)
    BY <1>3, <2>1, DocumentEndTyped
  <2>3. QED
    BY <2>1, <2>2
<1>10. CASE FlowSequenceItemState
  <2> DEFINE first == emitter.state = "FLOW-SEQUENCE-FIRST-ITEM"
             new == EmitFlowSequenceItem(Fresh, queue, first)
  <2>1. Fresh.state \in FlowItems /\ Concluded(new) /\ Valid(e)
    BY <1>2, <1>3, <1>10 DEF FlowSequenceItemState, Accepted, InState, FlowItems
  <2>2. first <=> Fresh.state \in FirstOnes
    BY <1>3, <2>1 DEF FirstOnes, FirstBlocks, FlowItems
  <2> HIDE DEF first
  <2>3. TypedTurn(new, Fresh)
    BY <1>2, <1>3, <1>4, <2>1, <2>2, FlowSequenceItemTyped DEF e
  <2>4. QED
    BY <2>1, <2>3
<1>11. CASE FlowMappingKeyState
  <2> DEFINE first == emitter.state = "FLOW-MAPPING-FIRST-KEY"
             new == EmitFlowMappingKey(Fresh, queue, first)
  <2>1. Fresh.state \in FlowKeys /\ Concluded(new) /\ Valid(e)
    BY <1>2, <1>3, <1>11 DEF FlowMappingKeyState, Accepted, InState, FlowKeys
  <2>2. first <=> Fresh.state \in FirstOnes
    BY <1>3, <2>1 DEF FirstOnes, FirstBlocks, FlowKeys
  <2> HIDE DEF first
  <2>3. TypedTurn(new, Fresh)
    BY <1>2, <1>3, <1>4, <2>1, <2>2, FlowMappingKeyTyped DEF e
  <2>4. QED
    BY <2>1, <2>3
<1>12. CASE FlowMappingValueState
  <2> DEFINE simple == emitter.state = "FLOW-MAPPING-SIMPLE-VALUE"
             new == EmitFlowMappingValue(Fresh, queue, simple)
  <2>1. Fresh.state \in FlowValues /\ Concluded(new)
    BY <1>3, <1>12 DEF FlowMappingValueState, Accepted, InState, FlowValues
  <2> HIDE DEF simple
  <2>2. TypedTurn(new, Fresh)
    BY <1>2, <1>3, <2>1, FlowMappingValueTyped DEF e
  <2>3. QED
    BY <2>1, <2>2
<1>13. CASE BlockSequenceItemState
  <2> DEFINE first == emitter.state = "BLOCK-SEQUENCE-FIRST-ITEM"
             new == EmitBlockSequenceItem(Fresh, queue, first)
  <2>1. Fresh.state \in BlockItems /\ Concluded(new) /\ Valid(e)
    BY <1>2, <1>3, <1>13 DEF BlockSequenceItemState, Accepted, InState, BlockItems
  <2>2. first <=> Fresh.state \in FirstOnes
    BY <1>3, <2>1 DEF FirstOnes, FirstBlocks, BlockItems
  <2> HIDE DEF first
  <2>3. TypedTurn(new, Fresh)
    BY <1>2, <1>3, <1>4, <2>1, <2>2, BlockSequenceItemTyped DEF e
  <2>4. QED
    BY <2>1, <2>3
<1>14. CASE BlockMappingKeyState
  <2> DEFINE first == emitter.state = "BLOCK-MAPPING-FIRST-KEY"
             new == EmitBlockMappingKey(Fresh, queue, first)
  <2>1. Fresh.state \in BlockKeys /\ Concluded(new) /\ Valid(e)
    BY <1>2, <1>3, <1>14 DEF BlockMappingKeyState, Accepted, InState, BlockKeys
  <2>2. first <=> Fresh.state \in FirstOnes
    BY <1>3, <2>1 DEF FirstOnes, FirstBlocks, BlockKeys
  <2> HIDE DEF first
  <2>3. TypedTurn(new, Fresh)
    BY <1>2, <1>3, <1>4, <2>1, <2>2, BlockMappingKeyTyped DEF e
  <2>4. QED
    BY <2>1, <2>3
<1>15. CASE BlockMappingValueState
  <2> DEFINE simple == emitter.state = "BLOCK-MAPPING-SIMPLE-VALUE"
             new == EmitBlockMappingValue(Fresh, queue, simple)
  <2>1. Fresh.state \in BlockValues /\ Concluded(new)
    BY <1>3, <1>15 DEF BlockMappingValueState, Accepted, InState, BlockValues
  <2> HIDE DEF simple
  <2>2. TypedTurn(new, Fresh)
    BY <1>2, <1>3, <2>1, BlockMappingValueTyped DEF e
  <2>3. QED
    BY <2>1, <2>2
<1>16. CASE EndState
  <2>1. TypedTurn(Refuse(Fresh), Fresh) /\ Concluded(Refuse(Fresh))
    BY <1>3, <1>16, RefuseTyped DEF EndState
  <2>2. QED
    BY <2>1
<1>17. QED
  BY <1>5, <1>6, <1>7, <1>8, <1>9, <1>10, <1>11, <1>12, <1>13, <1>14, <1>15, <1>16
  DEF Process

(* The types are right before the first event.                             *)
LEMMA InitTInv == EmitterInit => TInv
<1> SUFFICES ASSUME EmitterInit PROVE TInv
  OBVIOUS
<1>1. EmptyOutput \in Outputs
  BY DEF EmptyOutput, Outputs, Texts
<1>2. "STREAM-START" \in States /\ "STREAM-START" \notin Behind \cup {"DOCUMENT-END"} \cup FirstBlocks
  BY DEF States, Behind, FirstBlocks, ValueStates
<1>3. emitter \in Emitters
  <2>1. <<>> \in Seq(States) /\ <<>> \in Seq(Indents) /\ 0 \in Indents /\ 0 \in Nat
        /\ "root" \in Contexts /\ <<>> \in Seq(AllDirectives)
    BY DEF Indents, Contexts
  <2>2. QED
    BY <1>1, <1>2, <2>1, Zenon DEF EmitterInit, Emitters
<1>4. /\ emitter.state = "STREAM-START" /\ emitter.states = <<>>
      /\ emitter.flowLevel = 0 /\ emitter.indents = <<>>
  BY DEF EmitterInit
<1>5. Begun(emitter) = <<>>
  BY <1>2, <1>4 DEF Begun
<1>6. Levelled(emitter)
  BY <1>2, <1>4, <1>5 DEF Levelled, Deep
<1>7. QED
  BY <1>3, <1>6 DEF TInv, EmitterInit

(* Every step keeps the types.                                             *)
LEMMA NextTInv ==
    ASSUME CallerIsTyped, CallerIsTextual, CallerWritesText, IInv, TInv, [EmitterNext]_emitterVars
    PROVE  TInv'
<1>1. CASE UNCHANGED <<emitter, call>>
  BY <1>1 DEF TInv, Levelled, Deep, Begun
<1>2. ASSUME NEW e \in CallerEvents, Emit(e) PROVE TInv'
  <2>1. UNCHANGED emitter /\ call' \in {"returned", "processing", "refused"}
    BY <1>2, Zenon DEF Emit
  <2>2. QED
    BY <2>1 DEF TInv, Levelled, Deep, Begun
<1>3. CASE Process
  <2>1. PICK new : TypedTurn(new, Fresh) /\ Concluded(new)
    BY <1>3, ProcessTyped
  <2>2. Advanced
    BY <1>3, ProcessStep
  <2>3. /\ emitter' = new /\ new \in Emitters
        /\ call' \in {"returned", "processing", "refused"}
        /\ new.ok => queue' = Tail(queue)
        /\ ~new.ok => queue' = queue
    BY <2>1, Zenon DEF Concluded, TypedTurn
  <2>4. queue \in Seq(CallerEvents)
    BY DEF IInv, Shapes
  <2>5. ASSUME ~emitter'.problem PROVE Levelled(new)
    <3>1. CASE UNCHANGED emitter
      BY <2>3, <2>5, <3>1 DEF TInv
    <3>2. CASE ~emitter.problem /\ queue # <<>> /\ queue' = Tail(queue)
      <4>1. new.ok
        <5>1. Len(Tail(queue)) = Len(queue) - 1 /\ Len(queue) \in Nat
          BY <2>4, <3>2
        <5>2. queue' = Tail(queue)
          BY <3>2
        <5>3. Tail(queue) # queue
          BY <5>1
        <5>4. QED
          BY <2>3, <5>2, <5>3
      <4>2. emitter \in Emitters /\ Structured(emitter) /\ Levelled(emitter)
        BY <3>2 DEF IInv, Nested, TInv
      <4>3. DOMAIN emitter = Fields
        BY <4>2, FieldsTyped
      <4>4. /\ Fresh.state = emitter.state /\ Fresh.states = emitter.states
            /\ Fresh.indents = emitter.indents /\ Fresh.flowLevel = emitter.flowLevel
        BY <4>3 DEF Fresh, Fields
      <4>5. Fresh \in Emitters
        BY <4>2, FieldTyped, Zenon DEF Fresh
      <4>6. Structured(Fresh) /\ Levelled(Fresh)
        BY <4>2, <4>4 DEF Structured, Levelled, Deep, Begun
      <4>7. QED
        BY <2>1, <4>1, <4>5, <4>6, LevelKept
    <3>3. QED
      BY <2>2, <2>5, <3>1, <3>2 DEF Advanced
  <2>6. QED
    BY <2>3, <2>5 DEF TInv, Levelled, Deep, Begun
<1>4. QED
  BY <1>1, <1>2, <1>3 DEF EmitterNext, emitterVars

(* So they always are right, for callers whose events are typed.           *)
LEMMA SpecTInv ==
    ASSUME CallerIsTyped, CallerIsTextual, CallerWritesText
    PROVE  EmitterSpec => []TInv
<1>1. EmitterSpec => []IInv
  BY SpecIInv
<1>2. IInv /\ TInv /\ [EmitterNext]_emitterVars => TInv'
  BY NextTInv
<1>3. QED
  BY InitTInv, <1>1, <1>2, PTL DEF EmitterSpec

(* The type invariant of the emitter, whatever is emitted, for every limit *)
(* and indentation: the numbers of yaml_emitter_t stay what they stand for *)
(* although yaml_emitter_increase_indent and the ends of collections count *)
(* them up and down in different turns.                                    *)
THEOREM EmitterTypes ==
    ASSUME CallerIsTyped, CallerIsTextual, CallerWritesText
    PROVE  EmitterSpec => []TypeOK
<1>1. TInv => TypeOK
  <2> SUFFICES ASSUME TInv PROVE TypeOK
    OBVIOUS
  <2>1. emitter \in Emitters
    BY DEF TInv
  <2>2. /\ emitter.state \in States /\ emitter.states \in Seq(States)
        /\ emitter.indent \in Indents /\ emitter.flowLevel \in Nat
        /\ emitter.context \in Contexts /\ emitter.out \in Outputs
        /\ emitter.ok \in BOOLEAN /\ emitter.problem \in BOOLEAN
    BY <2>1, FieldsTyped
  <2>3. \A i \in DOMAIN emitter.states : emitter.states[i] \in States
    BY <2>2
  <2>4. emitter.out.column \in Nat /\ emitter.out.openEnded \in 0..2
    BY <2>2 DEF Outputs
  <2>5. QED
    BY <2>2, <2>3, <2>4 DEF TypeOK, TInv, Indents, Contexts
<1>2. EmitterSpec => []TInv
  BY SpecTInv
<1>3. QED
  BY <1>1, <1>2, PTL

(* The stack of indentations and the flow level follow the nesting: POP of *)
(* an indentation at the end of a collection never meets an empty stack,   *)
(* and a collection is in flow style just if it is within one.             *)
THEOREM IndentsAreFollowed ==
    ASSUME CallerIsTyped, CallerIsTextual, CallerWritesText
    PROVE  EmitterSpec => []IndentsFollowNesting
<1>1. TInv => IndentsFollowNesting
  BY DEF TInv, IndentsFollowNesting
<1>2. EmitterSpec => []TInv
  BY SpecTInv
<1>3. QED
  BY <1>1, <1>2, PTL

=============================================================================

----------------------------- MODULE TokenGrammar -----------------------------
(***************************************************************************)
(* The grammar of tokens stated at the head of parser.c, as a reference    *)
(* for the parser: a leftmost derivation that delivers its tokens one by   *)
(* one, together with the events that the derivation stands for.           *)
(*                                                                         *)
(* A symbol is a token, an event, or a rule.  An event stands before the   *)
(* token by which the parser knows it.  Left out: a pair that is neither   *)
(* key nor value, which is ambiguous, and a pair of a block mapping with a *)
(* VALUE but no KEY, which the parser refuses (parser.c:878).  %YAML and   *)
(* %TAG directives come one to a document.                                 *)
(***************************************************************************)
EXTENDS SequencesExt

CONSTANTS MaxTokens,      \* tokens of a sentence (bound)
          WithProperties, \* generate anchors and tags
          EmptyPairKey    \* KEY may be followed by no node in a flow sequence

Tok(type) == <<[kind |-> "token", name |-> type]>>
Ev(name)  == <<[kind |-> "event", name |-> name]>>
Rule(name) == <<[kind |-> "rule", name |-> name]>>

(* The node of an entry, or nothing, which stands for an empty scalar.     *)
Optional(rule) == {Rule(rule), Ev("SCALAR")}

Concat(A, B) == {a \o b : a \in A, b \in B}

PropertyLists ==
    IF WithProperties
    THEN {Tok("TAG"), Tok("ANCHOR"), Tok("TAG") \o Tok("ANCHOR"),
          Tok("ANCHOR") \o Tok("TAG")}
    ELSE {}

FlowContent == {Ev("SCALAR") \o Tok("SCALAR"), Rule("flow_sequence"),
                Rule("flow_mapping")}
BlockContent == FlowContent \cup {Rule("block_sequence"), Rule("block_mapping")}

(* properties content? | content | ALIAS                                   *)
Nodes(content) == content
                  \cup Concat(PropertyLists, content \cup {Ev("SCALAR")})
                  \cup {Ev("ALIAS") \o Tok("ALIAS")}

(* The value of a pair, or none.                                           *)
PairValue(rule) == Concat({Tok("VALUE")}, Optional(rule)) \cup {Ev("SCALAR")}

BlockPairs ==
    Concat(Concat({Tok("KEY")}, Optional("block_node_or_indentless_sequence")),
           PairValue("block_node_or_indentless_sequence"))

FlowPairs(keys) == Concat(Concat({Tok("KEY")}, keys), PairValue("flow_node"))

FlowSequenceEntries ==
    {Rule("flow_node")}
    \cup Concat(Concat({Ev("MAPPING-START")},
                       FlowPairs(IF EmptyPairKey THEN Optional("flow_node")
                                 ELSE {Rule("flow_node")})),
                {Ev("MAPPING-END")})

FlowMappingEntries == {Rule("flow_node") \o Ev("SCALAR")}
                      \cup FlowPairs(Optional("flow_node"))

Document(body) == Concat(Concat({Ev("DOCUMENT-START")}, body),
                         {Ev("DOCUMENT-END") \o Rule("document_ends")})

Productions(rule) ==
    CASE rule = "stream" ->
            Concat({Ev("STREAM-START") \o Tok("STREAM-START")},
                   Concat({<<>>} \cup Document({Rule("block_node")}),
                          {Rule("explicit_documents")}))
      [] rule = "explicit_documents" ->
            {Ev("STREAM-END") \o Tok("STREAM-END")}
            \cup Concat(Concat({<<>>, Tok("VERSION-DIRECTIVE"), Tok("TAG-DIRECTIVE")},
                               Document(Concat({Tok("DOCUMENT-START")},
                                               Optional("block_node")))),
                        {Rule("explicit_documents")})
      [] rule = "document_ends" ->
            {<<>>, Tok("DOCUMENT-END") \o Rule("document_ends")}
      [] rule = "block_node" -> Nodes(BlockContent)
      [] rule = "block_node_or_indentless_sequence" ->
            Nodes(BlockContent \cup {Rule("indentless_sequence")})
      [] rule = "flow_node" -> Nodes(FlowContent)
      [] rule = "block_sequence" ->
            {Ev("SEQUENCE-START") \o Tok("BLOCK-SEQUENCE-START")
                \o Rule("block_entries")}
      [] rule = "block_entries" ->
            {Ev("SEQUENCE-END") \o Tok("BLOCK-END")}
            \cup Concat(Concat({Tok("BLOCK-ENTRY")}, Optional("block_node")),
                        {Rule("block_entries")})
      [] rule = "indentless_sequence" ->
            Concat(Concat({Ev("SEQUENCE-START") \o Tok("BLOCK-ENTRY")},
                          Optional("block_node")),
                   {Rule("indentless_entries")})
      [] rule = "indentless_entries" ->
            {Ev("SEQUENCE-END")}
            \cup Concat(Concat({Tok("BLOCK-ENTRY")}, Optional("block_node")),
                        {Rule("indentless_entries")})
      [] rule = "block_mapping" ->
            {Ev("MAPPING-START") \o Tok("BLOCK-MAPPING-START")
                \o Rule("block_pairs")}
      [] rule = "block_pairs" ->
            {Ev("MAPPING-END") \o Tok("BLOCK-END")}
            \cup Concat(BlockPairs, {Rule("block_pairs")})
      [] rule = "flow_sequence" ->
            {Ev("SEQUENCE-START") \o Tok("FLOW-SEQUENCE-START")
                \o Rule("flow_sequence_entries")}
      [] rule = "flow_sequence_entries" ->
            {Ev("SEQUENCE-END") \o Tok("FLOW-SEQUENCE-END")}
            \cup Concat(FlowSequenceEntries, {Rule("flow_sequence_rest")})
      [] rule = "flow_sequence_rest" ->
            {Ev("SEQUENCE-END") \o Tok("FLOW-SEQUENCE-END"),
             Tok("FLOW-ENTRY") \o Rule("flow_sequence_entries")}
      [] rule = "flow_mapping" ->
            {Ev("MAPPING-START") \o Tok("FLOW-MAPPING-START")
                \o Rule("flow_mapping_entries")}
      [] rule = "flow_mapping_entries" ->
            {Ev("MAPPING-END") \o Tok("FLOW-MAPPING-END")}
            \cup Concat(FlowMappingEntries, {Rule("flow_mapping_rest")})
      [] rule = "flow_mapping_rest" ->
            {Ev("MAPPING-END") \o Tok("FLOW-MAPPING-END"),
             Tok("FLOW-ENTRY") \o Rule("flow_mapping_entries")}

(* The fewest tokens that a symbol derives.                                *)
Fewest(symbol) ==
    CASE symbol.kind = "token" -> 1
      [] symbol.kind = "event" -> 0
      [] symbol.name \in {"document_ends", "indentless_entries"} -> 0
      [] symbol.name \in {"stream", "block_sequence", "block_mapping",
                          "flow_sequence", "flow_mapping"} -> 2
      [] OTHER -> 1

FewestOf(symbols) == FoldLeft(LAMBDA n, s : n + Fewest(s), 0, symbols)

-----------------------------------------------------------------------------
(* The state of a derivation: the symbols still to be derived, the tokens  *)
(* left, and the events derived so far.                                    *)
InitialDerivation == [todo |-> Rule("stream"), left |-> MaxTokens, derived |-> <<>>]

TextOf(type) == CASE type = "TAG" -> "!!"
                  [] type = "TAG-DIRECTIVE" -> "!e!"
                  [] type = "VERSION-DIRECTIVE" -> "compatible"
                  [] OTHER -> ""

(* The tokens that may come next, each with the derivation behind it.      *)
RECURSIVE Derive(_)
Derive(d) ==
    IF d.todo = <<>>
    THEN {[token |-> [type |-> "NO-TOKEN", text |-> ""], source |-> d]}
    ELSE LET symbol == Head(d.todo)
             rest   == [d EXCEPT !.todo = Tail(@)]
         IN  CASE symbol.kind = "token" ->
                    {[token |-> [type |-> symbol.name, text |-> TextOf(symbol.name)],
                      source |-> [rest EXCEPT !.left = @ - 1]]}
               [] symbol.kind = "event" ->
                    Derive([rest EXCEPT !.derived = Append(@, symbol.name)])
               [] symbol.kind = "rule" ->
                    UNION {Derive([d EXCEPT !.todo = p \o Tail(@)])
                             : p \in {q \in Productions(symbol.name) :
                                        FewestOf(q \o Tail(d.todo)) <= d.left}}
=============================================================================

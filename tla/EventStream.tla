----------------------------- MODULE EventStream -----------------------------
(***************************************************************************)
(* A producer of events that follows EventGrammar and takes any choice it  *)
(* allows, up to a number of nodes and of documents.  The event loop of    *)
(* r_parse.c is composed with it.                                          *)
(***************************************************************************)
EXTENDS EventGrammar

CONSTANTS MaxNodes,      \* nodes of one stream (bound)
          MaxDocuments   \* documents of one stream (bound)

VARIABLES nodes,      \* nodes begun so far
          documents   \* documents begun so far

StreamTypeOK == /\ GrammarTypeOK
                /\ nodes \in Nat
                /\ documents \in Nat

StreamInit == /\ GrammarInit
              /\ nodes = 0
              /\ documents = 0

Uncounted == UNCHANGED <<nodes, documents>>
OneNode == /\ nodes < MaxNodes
           /\ nodes' = nodes + 1
           /\ UNCHANGED documents

StreamStart == StreamStartEvent /\ Uncounted

DocumentStart == /\ DocumentStartEvent
                 /\ documents < MaxDocuments
                 /\ nodes < MaxNodes
                 /\ documents' = documents + 1
                 /\ UNCHANGED nodes

Leaf == LeafEvent /\ OneNode
CollectionStart(kind) == CollectionStartEvent(kind) /\ OneNode
CollectionEnd(kind) == CollectionEndEvent(kind) /\ Uncounted
DocumentEnd == DocumentEndEvent /\ Uncounted
StreamEnd == StreamEndEvent /\ Uncounted
Fail == GiveUp /\ Uncounted
=============================================================================

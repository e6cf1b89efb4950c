---------------------------- MODULE EmitterCaller ----------------------------
(***************************************************************************)
(* A caller of yaml_emitter_emit that keeps to the grammar of events: what *)
(* yaml_emitter_emit promises to one that does.  Where the caller is in    *)
(* the grammar runs ahead of where the emitter is by the events that the   *)
(* emitter holds back in its queue.                                        *)
(***************************************************************************)
EXTENDS Emitter

VARIABLES callerPhase, callerOpen   \* where the caller is in the grammar

Stream == INSTANCE EventGrammar WITH phase <- callerPhase, open <- callerOpen

(* Once a caller has sent something wrong, nothing is promised any more.   *)
Wrong == callerPhase = "unknown"

CallerInit == /\ EmitterInit
              /\ callerPhase = "start"
              /\ callerOpen = <<>>

(* What makes an event a good one in itself, wherever the grammar has it:  *)
(* a scalar says how its tag is to be found, and a document declares no    *)
(* handle twice.                                                           *)
Good(e) ==
    /\ e.type \in Stream!Events
    /\ Valid(e)
    /\ e.type = "SCALAR" => e.plainImplicit \/ e.quotedImplicit \/ TagIsWritten(e)
    /\ e.type = "DOCUMENT-START" =>
          /\ Given(e.version) => ValidVersion(ValueOf(e.version))
          /\ \A i \in DOMAIN e.directives :
                /\ ValidDirective(e.directives[i])
                /\ \A j \in 1..(i - 1) :
                      e.directives[j].handle # e.directives[i].handle

(* The next event of the stream.                                           *)
SendGood(e) == /\ Good(e)
               /\ Stream!Produces(e.type)
               /\ Emit(e)

-----------------------------------------------------------------------------
(* A stream that follows the grammar, of events that are valid by          *)
(* themselves, is never refused; and when the last call returns, nothing   *)
(* is held back (emitter.c:308), nor is anything held back between two     *)
(* calls that the emitter has counted as written.                          *)
GoodStreamsAreWritten ==
    ~Wrong =>
        /\ ~emitter.problem
        /\ call = "returned" /\ queue = <<>> =>
              EmitterPhase = callerPhase /\ EmitterOpen = callerOpen
        /\ call = "returned" /\ callerPhase = "end" => queue = <<>>
=============================================================================

--------------------------------- MODULE Job ---------------------------------
(***************************************************************************)
(* One run of a tool of the command line, or of the request handler that   *)
(* receives a batch of spans.  The tools share nothing but the files they  *)
(* hand to each other, so each module that EXTENDS this one describes the  *)
(* jobs of one tool, and a behaviour is one job of any of them.            *)
(***************************************************************************)
EXTENDS Integers, FiniteSets

CONSTANT None   \* Python's None

VARIABLE job    \* a record: the tool, its program counter, what the tool keeps

Running(tool, pc) == job.tool = tool /\ job.pc = pc

\* The k-th of some places in a list: what is k-th once the others are left out.
Nth(places, k) == CHOOSE i \in places : Cardinality({j \in places : j < i}) = k - 1

\* The job of a tool that has ended with a result, seen in every state.
EndedWith(tool, result) == Running(tool, "ended") /\ job.result = result
=============================================================================

------------------------------- MODULE PipeQueue -------------------------------
(***************************************************************************)
(* PipeChan implements EventQueue.                                         *)
(***************************************************************************)
EXTENDS PipeChan, SequencesExt

\* What is in the pipe, in order of delivery.
Hold(x) == IF x = None THEN <<>> ELSE <<x>>
Content ==
  outputCh \o Hold(held)
    \o FlattenSeq([i \in 1..Len(chain) |-> chain[i].buf])
    \o Hold(elem) \o inputCh

\* PipeChan is a first-in first-out queue: across every change of the capacity
\* no element is lost, doubled or overtaken, and the end comes last.
Queue == INSTANCE EventQueue WITH
           queue <- Content,
           shut <- inputClosed
ImplementsEventQueue == Queue!Spec

===============================================================================

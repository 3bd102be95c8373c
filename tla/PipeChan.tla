------------------------------- MODULE PipeChan -------------------------------
(***************************************************************************)
(* PipeChan of cmd/pipechan.go: the "dynamically sized logical channel"    *)
(* between the notification library and the watcher of a local directory.  *)
(*                                                                         *)
(* The feeder goroutine puts what it receives on inputCh in a chain of     *)
(* channels; before each element it looks at the length of the current one *)
(* and may go on with a channel of twice or half the capacity.  The copier *)
(* goroutine empties the channels of the chain, one after the other, into  *)
(* outputCh.                                                               *)
(***************************************************************************)
EXTENDS Integers, Sequences

CONSTANTS
  capacity,    \* of inputCh, of the first channel and of outputCh (1000)
  ChainCap,    \* channels that wait for the copier (1000)
  MaxElements, \* bound: elements the sender offers, numbered as it does so
  None         \* no element

ASSUME PipeAssumption ==
  /\ capacity \in Nat \ {0, 1} /\ ChainCap \in Nat \ {0}
  /\ MaxElements \in Nat /\ None \notin 1..MaxElements

VARIABLES
  offered,   \* number of elements offered so far
  dropped,   \* an element found inputCh full
  inputCh, inputClosed,
  chain,     \* every channel made so far: its elements, capacity, end
  pushed,    \* how many of them went into channels
  feeder,    \* where the feeder is
  elem,      \* the element it has received
  taken,     \* how many channels the copier has taken
  copier,    \* where the copier is
  held,      \* the element it carries
  outputCh, outputClosed,
  ended      \* the receiver has found outputCh closed and empty

sender == <<offered, dropped>>
input == <<inputCh, inputClosed>>
output == <<outputCh, outputClosed, ended>>
pipeVars == <<sender, input, chain, pushed, feeder, elem, taken, copier, held,
          output>>

Chan(size) == [buf |-> <<>>, size |-> size, closed |-> FALSE]

PipeInit ==
  /\ offered = 0 /\ dropped = FALSE
  /\ inputCh = <<>> /\ inputClosed = FALSE
  /\ chain = <<Chan(capacity)>> /\ pushed = 0
  /\ feeder = "push" /\ elem = None
  /\ taken = 0 /\ copier = "next" /\ held = None
  /\ outputCh = <<>> /\ outputClosed = FALSE
  /\ ended = FALSE

-----------------------------------------------------------------------------
(***************************************************************************)
(* The sender (the notification library) and the receiver.                 *)
(***************************************************************************)

\* The library does not wait: an element that finds inputCh full is lost.
SendElem ==
  /\ offered < MaxElements /\ ~inputClosed
  /\ offered' = offered + 1
  /\ IF Len(inputCh) < capacity
     THEN inputCh' = Append(inputCh, offered + 1) /\ UNCHANGED dropped
     ELSE dropped' = TRUE /\ UNCHANGED inputCh
  /\ UNCHANGED <<inputClosed, chain, pushed, feeder, elem, taken, copier, held,
                 output>>

CloseInput ==
  /\ ~inputClosed /\ inputClosed' = TRUE
  /\ UNCHANGED <<sender, inputCh, chain, pushed, feeder, elem, taken, copier,
                 held, output>>

Receive ==
  /\ outputCh # <<>>
  /\ outputCh' = Tail(outputCh)
  /\ UNCHANGED <<sender, input, chain, pushed, feeder, elem, taken, copier,
                 held, outputClosed, ended>>

ReceiveEnd ==
  /\ outputCh = <<>> /\ outputClosed /\ ~ended
  /\ ended' = TRUE
  /\ UNCHANGED <<sender, input, chain, pushed, feeder, elem, taken, copier,
                 held, outputCh, outputClosed>>

(***************************************************************************)
(* The feeder.                                                             *)
(***************************************************************************)
cur == Len(chain)
curLen == Len(chain[cur].buf)
curCap == chain[cur].size

\* channels <- currCh blocks when channels is full.
Push(from, to) ==
  /\ feeder = from /\ pushed - taken < ChainCap
  /\ pushed' = pushed + 1 /\ feeder' = to
  /\ UNCHANGED <<sender, input, chain, elem, taken, copier, held, output>>

PushFirst == Push("push", "recv")
PushDouble == Push("pushDouble", "quarter")
PushHalf == Push("pushHalf", "put")

FeederReceives ==
  /\ feeder = "recv" /\ inputCh # <<>>
  /\ elem' = Head(inputCh) /\ inputCh' = Tail(inputCh)
  /\ feeder' = "half"
  /\ UNCHANGED <<sender, inputClosed, chain, pushed, taken, copier, held,
                 output>>

\* Mutant: the channel that is left is not closed.
ReplaceOpen(size) == chain' = Append(chain, Chan(size))

\* close(currCh), and another one is made.
Replace(size) ==
  chain' = Append([chain EXCEPT ![cur].closed = TRUE], Chan(size))

\* Half of the current channel is filled: twice the capacity.
CheckHalf ==
  /\ feeder = "half"
  /\ IF curLen >= curCap \div 2
     THEN Replace(curCap * 2) /\ feeder' = "pushDouble"
     ELSE feeder' = "quarter" /\ UNCHANGED chain
  /\ UNCHANGED <<sender, input, pushed, elem, taken, copier, held, output>>

\* Mutant: less than a quarter.
CheckLessThanQuarter ==
  /\ feeder = "quarter"
  /\ IF curLen >= capacity /\ curLen < curCap \div 4
     THEN Replace(curCap \div 2) /\ feeder' = "pushHalf"
     ELSE feeder' = "put" /\ UNCHANGED chain
  /\ UNCHANGED <<sender, input, pushed, elem, taken, copier, held, output>>

\* A quarter of it, and more than the first capacity: half the capacity.
CheckQuarter ==
  /\ feeder = "quarter"
  /\ IF curLen >= capacity /\ curLen <= curCap \div 4
     THEN Replace(curCap \div 2) /\ feeder' = "pushHalf"
     ELSE feeder' = "put" /\ UNCHANGED chain
  /\ UNCHANGED <<sender, input, pushed, elem, taken, copier, held, output>>

Put ==
  /\ feeder = "put" /\ curLen < curCap
  /\ chain' = [chain EXCEPT ![cur].buf = Append(@, elem)]
  /\ elem' = None /\ feeder' = "recv"
  /\ UNCHANGED <<sender, input, pushed, taken, copier, held, output>>

FeederEnds ==
  /\ feeder = "recv" /\ inputClosed /\ inputCh = <<>>
  /\ chain' = [chain EXCEPT ![cur].closed = TRUE]
  /\ feeder' = "end"
  /\ UNCHANGED <<sender, input, pushed, elem, taken, copier, held, output>>

(***************************************************************************)
(* The copier.                                                             *)
(***************************************************************************)
NextChannel ==
  /\ copier = "next" /\ taken < pushed
  /\ taken' = taken + 1 /\ copier' = "range"
  /\ UNCHANGED <<sender, input, chain, pushed, feeder, elem, held, output>>

Take ==
  /\ copier = "range" /\ chain[taken].buf # <<>>
  /\ held' = Head(chain[taken].buf)
  /\ chain' = [chain EXCEPT ![taken].buf = Tail(@)]
  /\ copier' = "send"
  /\ UNCHANGED <<sender, input, pushed, feeder, elem, taken, output>>

Copy ==
  /\ copier = "send" /\ Len(outputCh) < capacity
  /\ outputCh' = Append(outputCh, held)
  /\ held' = None /\ copier' = "range"
  /\ UNCHANGED <<sender, input, chain, pushed, feeder, elem, taken,
                 outputClosed, ended>>

\* Mutant: an empty channel is taken for one that is finished.
RangeEndsEmpty ==
  /\ copier = "range" /\ chain[taken].buf = <<>>
  /\ copier' = "next"
  /\ UNCHANGED <<sender, input, chain, pushed, feeder, elem, taken, held,
                 output>>

RangeEnds ==
  /\ copier = "range" /\ chain[taken].buf = <<>> /\ chain[taken].closed
  /\ copier' = "next"
  /\ UNCHANGED <<sender, input, chain, pushed, feeder, elem, taken, held,
                 output>>

CopierEnds ==
  /\ copier = "next" /\ taken = pushed /\ feeder = "end"
  /\ copier' = "end" /\ outputClosed' = TRUE
  /\ UNCHANGED <<sender, input, chain, pushed, feeder, elem, taken, held,
                 outputCh, ended>>

-----------------------------------------------------------------------------
Feeder ==
  \/ PushFirst \/ PushDouble \/ PushHalf
  \/ FeederReceives \/ CheckHalf \/ CheckQuarter \/ Put \/ FeederEnds
Copier == NextChannel \/ Take \/ Copy \/ RangeEnds \/ CopierEnds

Receiver == Receive \/ ReceiveEnd

PipeNext == SendElem \/ CloseInput \/ Receiver \/ Feeder \/ Copier

PipeSpec == PipeInit /\ [][PipeNext]_pipeVars

-----------------------------------------------------------------------------
(***************************************************************************)
(* Properties.                                                             *)
(***************************************************************************)
Elements == 1..MaxElements

PipeTypeOK ==
  /\ offered \in 0..MaxElements /\ dropped \in BOOLEAN
  /\ inputCh \in Seq(Elements) /\ Len(inputCh) <= capacity
  /\ inputClosed \in BOOLEAN
  /\ chain # <<>>
  /\ \A i \in 1..Len(chain) :
       /\ chain[i] \in [buf: Seq(Elements), size: Nat, closed: BOOLEAN]
       /\ Len(chain[i].buf) <= chain[i].size
       /\ chain[i].closed <=> i < cur \/ feeder = "end"
  /\ pushed \in {cur - 1, cur} /\ taken \in 0..pushed
  /\ pushed = cur - 1 <=> feeder \in {"push", "pushDouble", "pushHalf"}
  /\ feeder \in {"push", "pushDouble", "pushHalf", "recv", "half", "quarter",
                 "put", "end"}
  /\ elem \in Elements \cup {None} /\ held \in Elements \cup {None}
  /\ copier \in {"next", "range", "send", "end"}
  /\ outputCh \in Seq(Elements) /\ Len(outputCh) <= capacity
  /\ outputClosed \in BOOLEAN /\ ended \in BOOLEAN

\* However long the backlog, no channel is smaller than the first or more than
\* four times its size, and none ever holds more elements than the first could,
\* whatever the copier does between the two looks at the length of the channel.
CapacityBounded ==
  \A i \in 1..Len(chain) :
    /\ chain[i].size \in {capacity, 2 * capacity, 4 * capacity}
    /\ Len(chain[i].buf) <= capacity

\* Once closed, the pipe empties and tells its end.
PipeEnds == inputClosed ~> ended

===============================================================================

------------------------------ MODULE EventQueue ------------------------------
(***************************************************************************)
(* What the watcher of cmd/client-fs.go expects of PipeChan: a first-in    *)
(* first-out queue without a bound, that ends after its last element.      *)
(***************************************************************************)
EXTENDS Sequences

CONSTANT Elements

VARIABLES
  queue,  \* the elements accepted and not delivered
  shut,   \* the sender has closed the queue
  ended   \* the receiver has seen the end

queueVars == <<queue, shut, ended>>

Init == queue = <<>> /\ shut = FALSE /\ ended = FALSE

Accept(e) ==
  /\ ~shut
  /\ queue' = Append(queue, e)
  /\ UNCHANGED <<shut, ended>>

Deliver ==
  /\ queue # <<>>
  /\ queue' = Tail(queue)
  /\ UNCHANGED <<shut, ended>>

Shut ==
  /\ ~shut /\ shut' = TRUE
  /\ UNCHANGED <<queue, ended>>

End ==
  /\ shut /\ queue = <<>> /\ ~ended
  /\ ended' = TRUE
  /\ UNCHANGED <<queue, shut>>

Next == (\E e \in Elements : Accept(e)) \/ Deliver \/ Shut \/ End

Spec == Init /\ [][Next]_queueVars

===============================================================================

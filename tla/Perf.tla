---------------------------------- MODULE Perf ----------------------------------
(***************************************************************************)
(* mc support perf: runPerfTests (cmd/support-perf.go) runs one test after *)
(* the other.  Of each test (cmd/support-perf-net.go, -object.go, ...) a   *)
(* goroutine calls the server, one feeds the display with what it answers, *)
(* and then the caller, over one unbuffered channel that all the tests     *)
(* share; and the display (cmd/speedtest-spinner.go) is a program of its   *)
(* own that the user may leave with a key.                                 *)
(***************************************************************************)
EXTENDS Naturals, Sequences

CONSTANTS
  PerfPlans,   \* what is asked for: sequences of tests
  StreamTests, \* the tests whose results come over a stream: "drive", "object"
  MaxPartials  \* bound: results of a stream before the last

ASSUME PerfAssumption ==
  /\ \A p \in PerfPlans : p \in Seq({p[i] : i \in DOMAIN p})
  /\ MaxPartials \in Nat

VARIABLES
  plan, perfJson,  \* the command
  perfAt,          \* "next", "display", "collect", "report" or "over"
  test,            \* the place in the plan
  answer,          \* test -> how far its call is: "none", "asked", "error",
                   \* "result", "stuck" with a result that nobody takes, "over"
  partials,
  feeder, hand,    \* test -> its goroutine, and what that one carries
  display,         \* the program: "off", "on", "left" or "done"
  results, report  \* what runPerfTests returns; what the report has

perfVars == <<plan, perfJson, perfAt, test, answer, partials, feeder, hand,
              display, results, report>>

Nothing == [of |-> 0, is |-> "nothing"]
Tests == DOMAIN plan
Streaming(i) == plan[i] \in StreamTests

PerfInit ==
  /\ plan \in PerfPlans /\ perfJson \in BOOLEAN
  /\ perfAt = "next" /\ test = 0
  /\ answer = [i \in DOMAIN plan |-> "none"] /\ partials = 0
  /\ feeder = [i \in DOMAIN plan |-> "none"]
  /\ hand = [i \in DOMAIN plan |-> Nothing]
  /\ display = "off" /\ results = <<>> /\ report = {}

\* runPerfTests goes on: the call of the next test, its display and its feeder.
\* A stream is opened before the display, and refused at once or not.
StartTest ==
  /\ perfAt = "next" /\ test < Len(plan) /\ ~perfJson
  /\ test' = test + 1 /\ perfAt' = "display" /\ display' = "on" /\ partials' = 0
  /\ \E a \in IF Streaming(test + 1) THEN {"asked", "error"} ELSE {"asked"} :
       answer' = [answer EXCEPT ![test + 1] = a]
  /\ feeder' = [feeder EXCEPT ![test + 1] = "select"]
  /\ UNCHANGED <<plan, perfJson, hand, results, report>>

\* With --json the result or the error of a test is printed and not kept.
JsonTest ==
  /\ perfAt = "next" /\ test < Len(plan) /\ perfJson
  /\ test' = test + 1
  /\ UNCHANGED <<plan, perfJson, perfAt, answer, partials, feeder, hand, display,
                 results, report>>

\* The server answers, or the call fails: because the display was left and the
\* context cancelled, or otherwise.
Answer(i) ==
  /\ answer[i] = "asked" /\ ~Streaming(i)
  /\ \E a \in {"error", "result"} : answer' = [answer EXCEPT ![i] = a]
  /\ UNCHANGED <<plan, perfJson, perfAt, test, partials, feeder, hand, display,
                 results, report>>

\* The select of the feeder: the last result of its test.
Take(i, is) ==
  /\ feeder[i] = "select"
  /\ feeder' = [feeder EXCEPT ![i] = "final"]
  /\ hand' = [hand EXCEPT ![i] = [of |-> i, is |-> is]]

\* After an error the goroutine of the call offers a result too.
TakeError(i) ==
  /\ answer[i] = "error" /\ Take(i, "error")
  /\ answer' = [answer EXCEPT ![i] = IF Streaming(i) THEN "over" ELSE "stuck"]
  /\ UNCHANGED partials

TakeResult(i) ==
  /\ answer[i] = "result" /\ Take(i, "result")
  /\ answer' = [answer EXCEPT ![i] = "over"]
  /\ UNCHANGED partials

\* The range over a stream ends when the server is finished, when the stream
\* breaks and when the context is cancelled: the feeder cannot tell.
StreamEnds(i) ==
  /\ answer[i] = "asked" /\ Streaming(i)
  /\ \E is \in {"result", "part"} : Take(i, is)
  /\ answer' = [answer EXCEPT ![i] = "over"]
  /\ UNCHANGED partials

\* A result before the last; or, every 100 ms of a call, an empty one.
TakePartial(i) ==
  /\ feeder[i] = "select" /\ answer[i] = "asked"
  /\ Streaming(i) => partials < MaxPartials
  /\ partials' = IF Streaming(i) THEN partials + 1 ELSE partials
  /\ feeder' = [feeder EXCEPT ![i] = "show"]
  /\ UNCHANGED <<hand, answer>>

FeederTakes(i) ==
  /\ TakeError(i) \/ TakeResult(i) \/ StreamEnds(i) \/ TakePartial(i)
  /\ UNCHANGED <<plan, perfJson, perfAt, test, display, results, report>>

\* p.Send waits for the program, or finds that it has ended.  The last result
\* makes the program end.
FeederShows(i) ==
  /\ feeder[i] \in {"show", "final"}
  /\ display' = IF feeder[i] = "final" /\ display = "on" THEN "left" ELSE display
  /\ feeder' = [feeder EXCEPT ![i] = IF @ = "show" THEN "select" ELSE "out"]
  /\ UNCHANGED <<plan, perfJson, perfAt, test, answer, partials, hand, results, report>>

\* "q", "esc" or "ctrl+c".
KeyQuits ==
  /\ display = "on" /\ display' = "left"
  /\ UNCHANGED <<plan, perfJson, perfAt, test, answer, partials, feeder, hand,
                 results, report>>

\* Mutant: nobody waits for the result of the test.
DisplayEndsUnheard ==
  /\ perfAt = "display" /\ display = "left"
  /\ display' = "done" /\ perfAt' = "next"
  /\ UNCHANGED <<plan, perfJson, test, answer, partials, feeder, hand, results, report>>

\* p.Run has returned: the function of the test returns, and cancels its context.
DisplayEnds ==
  /\ perfAt = "display" /\ display = "left"
  /\ display' = "done" /\ perfAt' = "collect"
  /\ UNCHANGED <<plan, perfJson, test, answer, partials, feeder, hand, results, report>>

\* p.Run has failed: os.Exit(1).
DisplayFails ==
  /\ perfAt = "display" /\ display = "on"
  /\ display' = "done" /\ perfAt' = "over"
  /\ UNCHANGED <<plan, perfJson, test, answer, partials, feeder, hand, results, report>>

\* results = append(results, <-resultCh): any feeder that sends.
Collect(i) ==
  /\ perfAt = "collect" /\ feeder[i] = "out"
  /\ results' = Append(results, hand[i])
  /\ feeder' = [feeder EXCEPT ![i] = "over"]
  /\ perfAt' = "next"
  /\ UNCHANGED <<plan, perfJson, test, answer, partials, hand, display, report>>

\* runPerfTests returns and closes resultCh.  convertPerfResults leaves out what
\* was an error; with --json there is no report.
PerfReport ==
  /\ perfAt = "next" /\ test = Len(plan)
  /\ perfAt' = "over"
  /\ report' = {plan[results[k].of] : k \in {k \in DOMAIN results : results[k].is # "error"}}
  /\ UNCHANGED <<plan, perfJson, test, answer, partials, feeder, hand, display, results>>

PerfNext ==
  \/ StartTest \/ JsonTest
  \/ \E i \in Tests : Answer(i) \/ FeederTakes(i) \/ FeederShows(i) \/ Collect(i)
  \/ KeyQuits \/ DisplayEnds \/ DisplayFails \/ PerfReport

PerfSpec == PerfInit /\ [][PerfNext]_perfVars

\* What goes on when the server answers and the user does nothing.
PerfGoesOn ==
  \/ StartTest \/ JsonTest \/ DisplayEnds \/ PerfReport
  \/ \E i \in Tests : FeederTakes(i) \/ FeederShows(i) \/ Collect(i)
PerfAnswers == \E i \in Tests : Answer(i)

-----------------------------------------------------------------------------
PerfTypeOK ==
  /\ perfAt \in {"next", "display", "collect", "over"}
  /\ test \in 0..Len(plan) /\ partials \in 0..MaxPartials
  /\ \A i \in Tests :
       /\ answer[i] \in {"none", "asked", "error", "result", "stuck", "over"}
       /\ feeder[i] \in {"none", "select", "show", "final", "out", "over"}
       /\ hand[i].of \in 0..Len(plan)
  /\ display \in {"off", "on", "left", "done"}

\* Each test that has ended, whether the user has left its display or not, has
\* its own result in its own place; and no feeder is left that would send on
\* resultCh after runPerfTests has closed it, or take the place of the next
\* test's.
ResultsInOrder ==
  /\ \A k \in DOMAIN results : results[k].of = k
  /\ perfAt = "next" /\ ~perfJson =>
       /\ Len(results) = test
       /\ \A i \in Tests : feeder[i] \in {"none", "over"}

===============================================================================

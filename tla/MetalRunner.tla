----------------------------- MODULE MetalRunner -----------------------------
(***************************************************************************)
(* A Runner of the Metal runtime, called from any thread.  Every call of   *)
(* predict, load and clear is an actor of its own.  An executor is made by *)
(* a load and named after it; it has one result buffer, so a semaphore     *)
(* admits one prediction from the encoding of its operators to the end of  *)
(* its completion handler, which Metal calls when the GPU is through.      *)
(***************************************************************************)
EXTENDS Integers, Sequences

CONSTANTS Predictions, Loads, Clears,   \* the calls
          MayOverlap,                   \* pairs of kinds whose calls run at the same time
          nil

ASSUME CallsAssumption ==
  /\ Predictions \cap (Loads \cup Clears) = {} /\ Loads \cap Clears = {}
  /\ nil \notin Predictions \cup Loads

VARIABLES executor,              \* of the Runner, by the load that made it
          runnerProgram,         \* program of the Runner, likewise
          loadLock, clearLock,
          isValid,               \* of an executor
          inflightSemaphore,
          input, output,         \* what its scope holds: a prediction, and whether there is a FetchHolder
          resultBuffer,          \* the prediction whose result is in it
          gpu,                   \* committed command buffers, by prediction
          stage,                 \* of a call
          held,                  \* the executor a call has a strong reference to
          encoded,               \* the input a command buffer was encoded with
          answers,               \* what the completion of a prediction was called with
          trapped                \* a nil was unwrapped: the process is gone

runnerVars == <<executor, runnerProgram, loadLock, clearLock>>
executorVars == <<isValid, inflightSemaphore, input, output, resultBuffer>>
callVars == <<stage, held, encoded, answers>>
allVars == <<runnerVars, executorVars, gpu, callVars, trapped>>

Calls == Predictions \cup Loads \cup Clears
Kind(c) == IF c \in Predictions THEN "predict" ELSE IF c \in Loads THEN "load" ELSE "clear"

RunnerInit ==
  /\ executor = nil /\ runnerProgram = nil /\ loadLock = nil /\ clearLock = nil
  /\ isValid = [e \in Loads |-> TRUE]
  /\ inflightSemaphore = [e \in Loads |-> 1]
  /\ input = [e \in Loads |-> nil] /\ output = [e \in Loads |-> TRUE]
  /\ resultBuffer = [e \in Loads |-> nil]
  /\ gpu = <<>>
  /\ stage = [c \in Calls |-> "new"] /\ held = [c \in Calls |-> nil]
  /\ encoded = [p \in Predictions |-> nil]
  /\ answers = [p \in Predictions |-> <<>>]
  /\ trapped = FALSE

\* The call is on the stack of a thread.
Running(c) ==
  stage[c] \notin {"new", "queued", "executed", "reading", "signal", "failed", "thrown",
                   "answered", "lost", "done"}

MayStart(c) ==
  /\ stage[c] = "new"
  /\ \A d \in Calls \ {c} : Running(d) => {Kind(c), Kind(d)} \in MayOverlap

Go(c, s) == stage' = [stage EXCEPT ![c] = s]
Trap == trapped' = TRUE /\ UNCHANGED <<runnerVars, executorVars, gpu, callVars>>

-----------------------------------------------------------------------------
(* Runner.predict and Executor.predict.                                    *)

StartPredict(p) ==
  /\ MayStart(p)
  /\ held' = [held EXCEPT ![p] = executor]
  /\ Go(p, IF executor = nil THEN "failed" ELSE "wait")
  /\ UNCHANGED <<runnerVars, executorVars, gpu, encoded, answers, trapped>>

Take(e) == inflightSemaphore' = [inflightSemaphore EXCEPT ![e] = @ - 1]
Release(e) == inflightSemaphore' = [inflightSemaphore EXCEPT ![e] = @ + 1]

Wait(p) ==
  /\ stage[p] = "wait" /\ inflightSemaphore[held[p]] > 0
  /\ Take(held[p])
  /\ Go(p, "check")
  /\ UNCHANGED <<runnerVars, isValid, input, output, resultBuffer, gpu, held, encoded,
                 answers, trapped>>

\* The executor is cleared, or the queue returns no command buffer.
\* Mutant: the guard throws and keeps the semaphore.
Reject_keeps(p) ==
  /\ stage[p] = "check"
  /\ Go(p, "failed")
  /\ UNCHANGED <<runnerVars, executorVars, gpu, held, encoded, answers, trapped>>
Reject(p) ==
  /\ stage[p] = "check"
  /\ Release(held[p])
  /\ Go(p, "failed")
  /\ UNCHANGED <<runnerVars, isValid, input, output, resultBuffer, gpu, held, encoded,
                 answers, trapped>>

Accept(p) ==
  /\ stage[p] = "check" /\ isValid[held[p]]
  /\ Go(p, "input")
  /\ UNCHANGED <<runnerVars, executorVars, gpu, held, encoded, answers, trapped>>

SetInput(p) ==
  /\ stage[p] = "input"
  /\ input' = [input EXCEPT ![held[p]] = p]
  /\ Go(p, "feed")
  /\ UNCHANGED <<runnerVars, isValid, inflightSemaphore, output, resultBuffer, gpu, held,
                 encoded, answers, trapped>>

\* The feed operator casts what the scope holds.
Feed(p) ==
  /\ stage[p] = "feed"
  /\ IF input[held[p]] = nil
       THEN Trap
       ELSE /\ encoded' = [encoded EXCEPT ![p] = input[held[p]]]
            /\ Go(p, "encode")
            /\ UNCHANGED <<runnerVars, executorVars, gpu, held, answers, trapped>>

\* Preprocessing or an operator throws: nobody signals.
Throw(p) ==
  /\ stage[p] \in {"input", "feed", "encode"}
  /\ Go(p, "thrown")
  /\ UNCHANGED <<runnerVars, executorVars, gpu, held, encoded, answers, trapped>>

\* Mutant: the semaphore is signalled when the buffer is committed.
Commit_signals(p) ==
  /\ stage[p] = "encode"
  /\ gpu' = Append(gpu, p)
  /\ Release(held[p])
  /\ Go(p, "queued")
  /\ UNCHANGED <<runnerVars, isValid, input, output, resultBuffer, held, encoded, answers,
                 trapped>>
Commit(p) ==
  /\ stage[p] = "encode"
  /\ gpu' = Append(gpu, p)
  /\ Go(p, "queued")
  /\ UNCHANGED <<runnerVars, executorVars, held, encoded, answers, trapped>>

-----------------------------------------------------------------------------
(* The GPU, and the handler it calls.                                      *)

Execute ==
  /\ gpu # <<>>
  /\ LET p == Head(gpu) IN
       /\ resultBuffer' = [resultBuffer EXCEPT ![held[p]] = encoded[p]]
       /\ Go(p, "executed")
  /\ gpu' = Tail(gpu)
  /\ UNCHANGED <<runnerVars, isValid, inflightSemaphore, input, output, held, encoded,
                 answers, trapped>>

\* The handler has a weak reference; the executor lives while something else holds it.
Alive(e) ==
  \/ executor = e
  \/ \E c \in Calls : held[c] = e /\ (Running(c) \/ stage[c] \in {"reading", "signal"})

Answer(p, a) == answers' = [answers EXCEPT ![p] = Append(@, a)]

AnswerFalse(p, s) ==
  /\ Answer(p, nil) /\ Go(p, s)
  /\ UNCHANGED <<runnerVars, executorVars, gpu, held, encoded, trapped>>

HandlerDead(p) ==
  stage[p] = "executed" /\ ~Alive(held[p]) /\ AnswerFalse(p, "answered")

\* Mutant: the guard does not return.
HandlerInvalid_goesOn(p) ==
  /\ stage[p] = "executed" /\ Alive(held[p]) /\ ~isValid[held[p]]
  /\ AnswerFalse(p, "reading")
HandlerInvalid(p) ==
  /\ stage[p] = "executed" /\ Alive(held[p]) /\ ~isValid[held[p]]
  /\ AnswerFalse(p, "signal")

HandlerGuard(p) ==
  /\ stage[p] = "executed" /\ Alive(held[p]) /\ isValid[held[p]]
  /\ Go(p, "reading")
  /\ UNCHANGED <<runnerVars, executorVars, gpu, held, encoded, answers, trapped>>

\* The result is copied, unless the scope was cleared since.
HandlerRead(p) ==
  /\ stage[p] = "reading"
  /\ Answer(p, IF output[held[p]] THEN resultBuffer[held[p]] ELSE nil)
  /\ Go(p, "signal")
  /\ UNCHANGED <<runnerVars, executorVars, gpu, held, encoded, trapped>>

Signal(p) ==
  /\ stage[p] = "signal"
  /\ Release(held[p])
  /\ Go(p, "answered")
  /\ UNCHANGED <<runnerVars, isValid, input, output, resultBuffer, gpu, held, encoded,
                 answers, trapped>>

\* DispatchQueue.main.async
MainAnswers(p) ==
  \/ stage[p] = "failed" /\ AnswerFalse(p, "answered")
  \/ stage[p] = "thrown" /\ AnswerFalse(p, "lost")

-----------------------------------------------------------------------------
(* Runner.load.                                                            *)

StartLoad(l) ==
  /\ MayStart(l)
  /\ Go(l, "load")
  /\ UNCHANGED <<runnerVars, executorVars, gpu, held, encoded, answers, trapped>>

LoadProgram(l) ==
  /\ stage[l] = "load" /\ loadLock = nil
  /\ loadLock' = l /\ runnerProgram' = l
  /\ Go(l, "loaded")
  /\ UNCHANGED <<executor, clearLock, executorVars, gpu, held, encoded, answers, trapped>>

\* program! is unwrapped.
MakeExecutor(l) ==
  /\ stage[l] = "loaded"
  /\ IF runnerProgram = nil
       THEN Trap
       ELSE /\ executor' = runnerProgram
            /\ Go(l, "made")
            /\ UNCHANGED <<runnerProgram, loadLock, clearLock, executorVars, gpu, held, encoded,
                           answers, trapped>>

UpdateProgram(l) ==
  /\ stage[l] = "made"
  /\ IF runnerProgram = nil
       THEN Trap
       ELSE /\ loadLock' = nil
            /\ Go(l, "done")
            /\ UNCHANGED <<executor, runnerProgram, clearLock, executorVars, gpu, held, encoded,
                           answers, trapped>>

\* A step of the load throws: what is there is cleared, without the lock.
LoadFails(l) ==
  /\ \/ stage[l] = "load" /\ loadLock = nil
     \/ stage[l] \in {"loaded", "made"}
  /\ loadLock' = nil
  /\ Go(l, "clear")
  /\ UNCHANGED <<executor, runnerProgram, clearLock, executorVars, gpu, held, encoded, answers,
                 trapped>>

-----------------------------------------------------------------------------
(* Runner.clear, by itself or at the end of a load that failed.            *)

StartClear(c) ==
  /\ MayStart(c)
  /\ Go(c, "clear")
  /\ UNCHANGED <<runnerVars, executorVars, gpu, held, encoded, answers, trapped>>

Invalidate(c) ==
  /\ stage[c] = "clear" /\ clearLock = nil
  /\ clearLock' = c
  /\ held' = [held EXCEPT ![c] = executor]
  /\ isValid' = [e \in Loads |-> isValid[e] /\ e # executor]
  /\ Go(c, "scope")
  /\ UNCHANGED <<executor, runnerProgram, loadLock, inflightSemaphore, input, output, resultBuffer,
                 gpu, encoded, answers, trapped>>

ClearScope(c) ==
  /\ stage[c] = "scope"
  /\ input' = [e \in Loads |-> IF e = held[c] THEN nil ELSE input[e]]
  /\ output' = [e \in Loads |-> output[e] /\ e # held[c]]
  /\ Go(c, "drop")
  /\ UNCHANGED <<runnerVars, isValid, inflightSemaphore, resultBuffer, gpu, held, encoded,
                 answers, trapped>>

DropExecutor(c) ==
  /\ stage[c] = "drop"
  /\ executor' = nil
  /\ Go(c, "unlock")
  /\ UNCHANGED <<runnerProgram, loadLock, clearLock, executorVars, gpu, held, encoded, answers,
                 trapped>>

DropProgram(c) ==
  /\ stage[c] = "unlock"
  /\ runnerProgram' = nil /\ clearLock' = nil
  /\ Go(c, "done")
  /\ UNCHANGED <<executor, loadLock, executorVars, gpu, held, encoded, answers, trapped>>

-----------------------------------------------------------------------------
Predict(p) ==
  Wait(p) \/ Reject(p) \/ Accept(p) \/ SetInput(p) \/ Feed(p) \/ Throw(p) \/ Commit(p)
Handler(p) ==
  \/ HandlerDead(p) \/ HandlerInvalid(p) \/ HandlerGuard(p) \/ HandlerRead(p)
  \/ Signal(p) \/ MainAnswers(p)
Load(l) == LoadProgram(l) \/ MakeExecutor(l) \/ UpdateProgram(l) \/ LoadFails(l)
Clear(c) == Invalidate(c) \/ ClearScope(c) \/ DropExecutor(c) \/ DropProgram(c)

RunnerNext ==
  /\ ~trapped
  /\ \/ \E p \in Predictions : StartPredict(p) \/ Predict(p) \/ Handler(p)
     \/ Execute
     \/ \E l \in Loads : StartLoad(l) \/ Load(l)
     \/ \E c \in Clears : StartClear(c)
     \/ \E c \in Loads \cup Clears : Clear(c)

RunnerSpec == RunnerInit /\ [][RunnerNext]_allVars

\* Threads are scheduled, the GPU works and Metal calls the handlers.
Fairness ==
  /\ \A p \in Predictions :
       WF_allVars(~trapped /\ Predict(p)) /\ WF_allVars(~trapped /\ Handler(p))
  /\ WF_allVars(~trapped /\ Execute)

FairSpec == RunnerSpec /\ Fairness

-----------------------------------------------------------------------------
Stages == {"new", "wait", "check", "input", "feed", "encode", "queued", "executed", "reading",
           "signal", "failed", "thrown", "answered", "lost",
           "load", "loaded", "made", "clear", "scope", "drop", "unlock", "done"}

(* Type invariant.                                                         *)
RunnerTypeOK ==
  /\ executor \in Loads \cup {nil} /\ runnerProgram \in Loads \cup {nil}
  /\ isValid \in [Loads -> BOOLEAN] /\ output \in [Loads -> BOOLEAN]
  /\ inflightSemaphore \in [Loads -> 0..1]
  /\ input \in [Loads -> Predictions \cup {nil}]
  /\ resultBuffer \in [Loads -> Predictions \cup {nil}]
  /\ gpu \in Seq(Predictions)
  /\ stage \in [Calls -> Stages] /\ held \in [Calls -> Loads \cup {nil}]
  /\ encoded \in [Predictions -> Predictions \cup {nil}]
  /\ answers \in [Predictions -> Seq(Predictions \cup {nil})]
  /\ trapped \in BOOLEAN

(* A completion that reports success hands over the result computed from   *)
(* the input of its own call, although all predictions of an executor      *)
(* write one buffer and the runner may be cleared and loaded meanwhile.    *)
OwnResult ==
  \A p \in Predictions : \A k \in DOMAIN answers[p] : answers[p][k] \in {p, nil}

(* The completion of a prediction is never called twice, whether a guard,  *)
(* an operator or the handler gives the answer.                            *)
AnsweredOnce == \A p \in Predictions : Len(answers[p]) <= 1

\* The prediction threw between wait and commit, and kept the semaphore.
KeptSemaphore(e) == \E p \in Predictions : held[p] = e /\ stage[p] \in {"thrown", "lost"}

(* Every call of predict is answered, cleared or replaced executors        *)
(* included, unless an operator of the same executor threw or the process  *)
(* trapped.                                                                *)
PredictAnswered ==
  \A p \in Predictions :
    stage[p] # "new" ~> answers[p] # <<>> \/ trapped \/ KeptSemaphore(held[p])

(* load is called from several threads and does not trap.                  *)
LoadsDoNotTrap == ~trapped
=============================================================================

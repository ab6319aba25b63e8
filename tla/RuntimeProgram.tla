--------------------------- MODULE RuntimeProgram ---------------------------
(***************************************************************************)
(* The generated program and its runs.  RuntimeProgram::Run executes the   *)
(* instructions in order; an instruction runs its kernel unless its        *)
(* operator is to run once and has run.  A variable of the scope holds a   *)
(* tensor, a tensor a pointer to a buffer, and ShareDataWith makes two     *)
(* tensors hold one buffer.                                                *)
(* A value is known by the argument node it is the value of: contents[b]   *)
(* are the nodes whose value of the current run the buffer b holds.        *)
(***************************************************************************)
EXTENDS MemoryOptimize

CONSTANTS MaxRuns   \* bound on the number of Predictor::Run calls

VARIABLES inst,        \* the next instruction, 0 between two runs
          runs,        \* number of runs begun
          has_run,     \* statements whose instruction has run
          buffer,      \* variable -> the buffer its tensor holds
          contents,    \* buffer -> nodes whose value it holds
          fetch_list   \* fetch statement -> the buffer of its entry in "fetch"

runVars == <<inst, runs, has_run, buffer, contents, fetch_list>>
vars == <<pipelineVars, runVars>>

Stmts == DOMAIN inlinks
OfType(t) == {s \in Stmts : TypeOf(s) = t}

\* The tensor of the variable "feed" that a feed operator reads.
FeedItem(s) == <<"feed", s>>

\* It is no variable of the program.
ASSUME FeedItemsAssumption ==
  \A p \in Programs : \A s \in DOMAIN p.ops : FeedItem(s) \notin Name

RunOnce == {"io_copy_once", "calib_once", "layout_once"}

\* Values that outlive a run: weights and what is derived from them once.
Lasting == {n \in Nodes : IsWeight(n)} \cup UNION {outlinks[s] : s \in {t \in Stmts : TypeOf(t) \in RunOnce}}

Load ==
  /\ phase = "generated" /\ buffer = NoEntries
  /\ buffer' = [x \in Name |-> x]
  /\ contents' = [b \in Name \cup {FeedItem(s) : s \in OfType("feed")} |->
                    {n \in Nodes : IsWeight(n) /\ n[1] = b}]
  /\ UNCHANGED <<pipelineVars, inst, runs, has_run, fetch_list>>

\* Predictor::Run.  The caller fills the inputs before the first run, and may
\* leave them as they are before the next ones.
StartRun(fill) ==
  /\ buffer # NoEntries /\ inst = 0 /\ runs < MaxRuns
  /\ runs = 0 => fill
  /\ contents' = [b \in DOMAIN contents |->
       LET inputs == UNION {outlinks[s] : s \in {t \in OfType("feed") : b = FeedItem(t)}}
       IN  IF fill /\ inputs # {} THEN inputs ELSE contents[b] \cap (Lasting \cup inputs)]
  /\ inst' = (IF Len(ret) = 0 THEN 0 ELSE 1) /\ runs' = runs + 1
  /\ UNCHANGED <<pipelineVars, has_run, buffer, fetch_list>>

Running == inst > 0
Current == ret[inst]
BufferOf(s, n) == buffer[uses[s][n]]

\* inst.Run() returns and the loop takes the next instruction.
NextInst ==
  /\ inst' = IF inst = Len(ret) THEN 0 ELSE inst + 1
  /\ has_run' = has_run \cup {Current}
  /\ UNCHANGED <<pipelineVars, runs>>

\* param.out->ShareDataWith(feed_item)
RunFeed(s) ==
  /\ TypeOf(s) = "feed"
  /\ buffer' = [x \in DOMAIN buffer |->
                  IF \E n \in outlinks[s] : uses[s][n] = x THEN FeedItem(s) ELSE buffer[x]]
  /\ UNCHANGED <<contents, fetch_list>>

\* dst.ShareDataWith(*param.input)
RunFetch(s) ==
  /\ TypeOf(s) = "fetch"
  /\ \E n \in inlinks[s] : fetch_list' = Assign(fetch_list, s, BufferOf(s, n))
  /\ UNCHANGED <<buffer, contents>>

\* A reshape with the attribute inplace: output->ShareDataWith(*x).
RunReshapeInplace(s) ==
  /\ TypeOf(s) = "reshape_inplace"
  /\ \E n \in inlinks[s], m \in outlinks[s] :
       /\ buffer' = [buffer EXCEPT ![uses[s][m]] = BufferOf(s, n)]
       /\ contents' = [contents EXCEPT ![BufferOf(s, n)] = @ \cup {m}]
  /\ UNCHANGED fetch_list

\* Any other kernel overwrites the buffers of its outputs.
RunKernel(s) ==
  /\ TypeOf(s) \notin {"feed", "fetch", "reshape_inplace"}
  /\ contents' = [b \in DOMAIN contents |->
       LET written == {n \in outlinks[s] : BufferOf(s, n) = b}
       IN  IF written = {} THEN contents[b] ELSE written]
  /\ UNCHANGED <<buffer, fetch_list>>

Skipped(s) == TypeOf(s) \in RunOnce /\ s \in has_run

RunInstruction ==
  /\ Running
  /\ ~Skipped(Current)
  /\ RunFeed(Current) \/ RunFetch(Current) \/ RunReshapeInplace(Current) \/ RunKernel(Current)
  /\ NextInst

\* if (op_->run_once() && has_run_) return;
SkipInstruction ==
  /\ Running /\ Skipped(Current)
  /\ NextInst
  /\ UNCHANGED <<buffer, contents, fetch_list>>

Init ==
  /\ PipelineInit
  /\ inst = 0 /\ runs = 0 /\ has_run = {}
  /\ buffer = NoEntries /\ contents = NoEntries /\ fetch_list = NoEntries

Progress ==
  \/ PipelineNext /\ UNCHANGED runVars
  \/ Load \/ RunInstruction \/ SkipInstruction

Next == Progress \/ \E fill \in BOOLEAN : StartRun(fill)

\* The caller need not run the program; what is begun goes on.
Spec == Init /\ [][Next]_vars /\ WF_vars(Progress)

-----------------------------------------------------------------------------
(* The programs the pipeline is right for.                                 *)

\* A name is overwritten by an operator that alone reads what it overwrites,
\* and only when all versions of the name are in the plan.
OverwrittenByReader(p) ==
  \A t \in DOMAIN p.ops : p.ops[t].type # "fetch" => \A x \in p.ops[t].out : \A r \in 1..(t - 1) :
    /\ x \in p.ops[r].in => \E u \in r..(t - 1) : x \in p.ops[u].out
    /\ x \in p.ops[r].out =>
         /\ x \in p.ops[t].in
         /\ \A u \in DOMAIN p.ops : x \in p.ops[u].in \cup p.ops[u].out => p.ops[u].type \notin InvalidOp

\* What lasts is written once, and marked when it is derived from a weight.
WritesLasting(p) ==
  \A s \in DOMAIN p.ops :
    /\ p.ops[s].out \cap p.weights = {}
    /\ p.ops[s].type \in RunOnce => p.ops[s].out \subseteq p.persist
    /\ p.ops[s].type \in RunOnce \cup {"feed"} =>
         \A t \in DOMAIN p.ops \ {s} : p.ops[t].out \cap p.ops[s].out = {}

\* What an operator reads is a weight or was written, and a fetch reads one
\* variable and writes the list that is nobody's input.
ReadsWritten(p) ==
  \A s \in DOMAIN p.ops :
    /\ p.ops[s].type # "feed" => \A x \in p.ops[s].in :
         x \in p.weights \/ \E t \in 1..(s - 1) : x \in p.ops[t].out
    /\ p.ops[s].type = "fetch" =>
         /\ \E x \in Name : p.ops[s].in = {x}
         /\ \A t \in DOMAIN p.ops : p.ops[t].type # "fetch" => p.ops[s].out \cap p.ops[t].out = {}
         /\ \A t \in DOMAIN p.ops : p.ops[s].out \cap p.ops[t].in = {}
    /\ p.ops[s].type # "reshape_inplace"

Sound(p) == OneDevice(p) /\ OverwrittenByReader(p) /\ WritesLasting(p) /\ ReadsWritten(p)

(* Whatever the addresses, the plan and the number of runs, the buffer an  *)
(* instruction is about to read holds the value its producer in the        *)
(* program computed in this run.                                           *)
ReadsItsProducer ==
  Running /\ ~Skipped(Current) /\ TypeOf(Current) # "feed" =>
    \A n \in inlinks[Current] : n \in contents[BufferOf(Current, n)]

(* Between two runs the caller finds in the fetch list the values the run  *)
(* fetched: nothing after the fetch wrote over the buffer it shares.       *)
OutputsIntact ==
  inst = 0 /\ runs > 0 =>
    \A s \in OfType("fetch") : inlinks[s] \subseteq contents[fetch_list[s]]

(* A run leaves the caller's input tensors as they were filled, so that    *)
(* the next run may use them again.                                        *)
InputsIntact ==
  inst = 0 /\ runs > 0 =>
    \A s \in OfType("feed") : outlinks[s] \subseteq contents[FeedItem(s)]

(* A program that is loaded is generated, and a run that is begun ends.    *)
RunsEnd == (phase = "build" ~> phase = "generated") /\ (inst > 0 ~> inst = 0)
=============================================================================

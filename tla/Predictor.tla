------------------------------ MODULE Predictor ------------------------------
(***************************************************************************)
(* Predictors of one process, each called from a thread of its own.  A     *)
(* predictor optimizes its program when it is built and generates the      *)
(* instructions when they are first asked for; the passes that do so are   *)
(* objects of the process, which keep the preferred place, the valid       *)
(* places and the instructions between two calls.  A light predictor runs  *)
(* what another one saved.                                                 *)
(***************************************************************************)
EXTENDS Integers, Sequences

CONSTANTS Cxx, Light,    \* the predictors
          Registered,    \* of the operators of a model, one after the other: the places with a kernel
          Devices,       \* the places whose memory the host does not share
          Targets,       \* of a Build: the preferred place and the valid places
          Columns,       \* the feed operators of the model of a predictor
          Values,        \* what a caller fills in
          MayOverlap,    \* pairs of kinds of calls that may run at the same time
          nil, null      \* nothing, and a pointer that was moved from

Predictors == Cxx \cup Light
Ops == 1..Len(Registered)
Places == Devices \cup UNION {Registered[s] : s \in Ops}
Kernel(place, alias) == [place |-> place, alias |-> alias]
Kernels == {Kernel(x, a) : x \in Places, a \in {"def", "host_to_device", "device_to_host"}}

ASSUME PredictorAssumption ==
  /\ Cxx \cap Light = {} /\ nil \notin Cxx /\ nil \notin Targets
  /\ nil \notin Kernels /\ null \notin Kernels /\ nil # null
  /\ Registered \in Seq(SUBSET Places) /\ Registered # <<>>
  /\ Columns \in [Predictors -> Nat]

\* The calls that use a pass of the process need a lock of the caller.
ASSUME OverlapAssumption == {"build"} \notin MayOverlap /\ {"generate"} \notin MayOverlap

VARIABLES place_,            \* of static_kernel_pick_pass
          valid_places_,     \* of type_target_cast_pass
          insts_,            \* of generate_program_pass
          stage, call,       \* how far a predictor is, and the call that asked for a program
          config,            \* the arguments of its Build
          graph,             \* its statements in order, each with its kernel
          program_, program_generated_,
          program_desc_,     \* its operators and the variables it declares
          saved,             \* the model it saved
          loaded,            \* the predictor whose model a light predictor loaded
          feed_list, storage,\* its inputs, and how often their storage moved
          pointer, written,  \* what the caller was given, and has filled in
          aborted            \* a CHECK failed

passVars == <<place_, valid_places_, insts_>>
programVars == <<config, graph, program_, program_generated_, program_desc_>>
modelVars == <<saved, loaded>>
inputVars == <<feed_list, storage, pointer, written>>
vars == <<passVars, stage, call, programVars, modelVars, inputVars, aborted>>

\* A statement with its kernel, and the kernel of the copy in front of it.
Inst(p, s, kernel) == [owner |-> p, op |-> s, kernel |-> kernel, copy |-> nil]

\* The variables they name: what they write, and what the copy writes for them.
Names(inst) ==
  {<<"var", inst.op>>} \cup (IF inst.copy = nil THEN {} ELSE {<<"copy", inst.op>>})
DescOps(p) == [s \in Ops |-> Inst(p, s, null)]
DescVars == {<<"var", s>> : s \in Ops}

Init ==
  /\ place_ = nil /\ valid_places_ = {} /\ insts_ = <<>>
  /\ stage = [p \in Predictors |-> "new"] /\ call = [p \in Predictors |-> nil]
  /\ config = [p \in Cxx |-> nil]
  /\ graph = [p \in Cxx |-> <<>>]
  /\ program_ = [p \in Predictors |-> <<>>]
  /\ program_generated_ = [p \in Cxx |-> FALSE]
  /\ program_desc_ = [p \in Cxx |-> [ops |-> DescOps(p), vars |-> DescVars]]
  /\ saved = [p \in Cxx |-> nil] /\ loaded = [l \in Light |-> nil]
  /\ feed_list = [p \in Predictors |-> <<>>]
  /\ storage = [p \in Predictors |-> 0]
  /\ pointer = [p \in Predictors |-> [k \in 1..Columns[p] |-> 0]]
  /\ written = [p \in Predictors |-> [k \in 1..Columns[p] |-> nil]]
  /\ aborted = FALSE

\* The kind of call that runs on the thread of a predictor.
Kind(p) ==
  IF stage[p] \in {"graph", "pick", "cast"} THEN "build"
  ELSE IF stage[p] \in {"generate", "insts"} THEN "generate" ELSE "other"

MayEnter(p, kind) == \A q \in Predictors \ {p} : {kind, Kind(q)} \in MayOverlap

Go(p, s) == stage' = [stage EXCEPT ![p] = s]
Check(condition) == aborted' = ~condition

-----------------------------------------------------------------------------
(* Predictor::Build and Optimizer::Run.                                    *)

Build(p) ==
  /\ stage[p] = "new" /\ MayEnter(p, "build")
  /\ \E c \in Targets : config' = [config EXCEPT ![p] = c] /\ place_' = c.prefer
  /\ Go(p, "graph")
  /\ UNCHANGED <<valid_places_, insts_, call, graph, program_, program_generated_, program_desc_,
                 modelVars, inputVars, aborted>>

BuildGraph(p) ==
  /\ stage[p] = "graph"
  /\ valid_places_' = config[p].valid
  /\ Go(p, "pick")
  /\ UNCHANGED <<place_, insts_, call, programVars, modelVars, inputVars, aborted>>

\* The kernels of the highest score among those of the places of the graph.
Best(s, valid, prefer) ==
  LET kernels == Registered[s] \cap valid IN
  IF prefer \in kernels THEN {prefer} ELSE kernels

Statements(p, valid, prefer) ==
  {[s \in Ops |-> Inst(p, s, Kernel(place[s], "def"))] :
     place \in {f \in [Ops -> Places] : \A s \in Ops : f[s] \in Best(s, valid, prefer)}}

Pick(p) ==
  /\ stage[p] = "pick"
  /\ \E stmts \in Statements(p, config[p].valid, place_) : graph' = [graph EXCEPT ![p] = stmts]
  /\ Go(p, "cast")
  /\ UNCHANGED <<passVars, call, config, program_, program_generated_, program_desc_,
                 modelVars, inputVars, aborted>>

\* What CreateKernels returns at a place.
KernelsAt(kind, place) ==
  IF kind = "copy"
    THEN <<Kernel(place, "device_to_host"), Kernel(place, "host_to_device")>>
    ELSE <<Kernel(place, "def")>>
First(kernels, alias) ==
  LET fits == {i \in DOMAIN kernels : kernels[i].alias = alias} IN
  kernels[CHOOSE i \in fits : \A j \in fits : i <= j]

\* A statement whose producer left its input in other memory reads a copy of it,
\* made by the kernel of the device among the two that converts this way.
Moves(from, to) == from # to /\ {from, to} \cap Devices # {}
Device(from, to) == IF to \in Devices THEN to ELSE from
CopyKernel(from, to) ==
  First(KernelsAt("copy", Device(from, to)),
        IF to \in Devices THEN "host_to_device" ELSE "device_to_host")

WithCopies(stmts) ==
  [s \in Ops |->
    LET to == stmts[s].kernel.place
        from == IF s = 1 THEN to ELSE stmts[s-1].kernel.place
    IN  [stmts[s] EXCEPT !.copy = IF Moves(from, to) THEN CopyKernel(from, to) ELSE nil]]

CopiesFound(stmts, places) ==
  \A s \in Ops \ {1} :
    LET from == stmts[s-1].kernel.place  to == stmts[s].kernel.place IN
    Moves(from, to) => Device(from, to) \in places

Cast(p) ==
  /\ stage[p] = "cast"
  /\ Check(CopiesFound(graph[p], valid_places_))
  /\ graph' = [graph EXCEPT ![p] = WithCopies(@)]
  /\ Go(p, "ready")
  /\ UNCHANGED <<passVars, call, config, program_, program_generated_, program_desc_,
                 modelVars, inputVars>>

-----------------------------------------------------------------------------
(* GenRuntimeProgram, at the first Run or SaveModel.                       *)

Generated(p) == p \in Cxx => program_generated_[p]

InputsThere(p) == Len(feed_list[p]) = Columns[p]

CallRun(p) ==
  /\ stage[p] = "ready" /\ InputsThere(p)
  /\ IF Generated(p)
       THEN Go(p, "run")
       ELSE MayEnter(p, "generate") /\ Go(p, "generate")
  /\ call' = [call EXCEPT ![p] = "run"]
  /\ UNCHANGED <<passVars, programVars, modelVars, inputVars, aborted>>

CallSave(p) ==
  /\ stage[p] = "ready"
  /\ IF program_[p] # <<>>
       THEN Go(p, "save")
       ELSE MayEnter(p, "generate") /\ Go(p, "generate")
  /\ call' = [call EXCEPT ![p] = "save"]
  /\ UNCHANGED <<passVars, programVars, modelVars, inputVars, aborted>>

\* The kernels are moved out of the statements.
MovedFrom(stmts) ==
  [s \in Ops |-> [stmts[s] EXCEPT !.kernel = null, !.copy = IF @ = nil THEN nil ELSE null]]

Apply(p) ==
  /\ stage[p] = "generate"
  /\ insts_' = insts_ \o graph[p]
  /\ graph' = [graph EXCEPT ![p] = MovedFrom(@)]
  /\ Go(p, "insts")
  /\ UNCHANGED <<place_, valid_places_, call, config, program_, program_generated_,
                 program_desc_, modelVars, inputVars, aborted>>

\* Mutant: the instructions are copied and stay in the pass.
GenProgram_copies(p) ==
  /\ stage[p] = "insts"
  /\ program_' = [program_ EXCEPT ![p] = insts_]
  /\ program_generated_' = [program_generated_ EXCEPT ![p] = TRUE]
  /\ Check(insts_ # <<>>)
  /\ Go(p, call[p])
  /\ UNCHANGED <<passVars, call, config, graph, program_desc_, modelVars, inputVars>>
\* Mutant: only Run notes that there is a program.
GenProgram_unmarked(p) ==
  /\ stage[p] = "insts"
  /\ program_' = [program_ EXCEPT ![p] = insts_]
  /\ insts_' = <<>>
  /\ program_generated_' = [program_generated_ EXCEPT ![p] = call[p] = "run"]
  /\ Check(insts_ # <<>>)
  /\ Go(p, call[p])
  /\ UNCHANGED <<place_, valid_places_, call, config, graph, program_desc_, modelVars,
                 inputVars>>
GenProgram(p) ==
  /\ stage[p] = "insts"
  /\ program_' = [program_ EXCEPT ![p] = insts_]
  /\ insts_' = <<>>
  /\ program_generated_' = [program_generated_ EXCEPT ![p] = TRUE]
  /\ Check(insts_ # <<>>)
  /\ Go(p, call[p])
  /\ UNCHANGED <<place_, valid_places_, call, config, graph, program_desc_, modelVars,
                 inputVars>>

HasKernel(inst) == inst.kernel # null /\ inst.copy # null
HasKernels(insts) == \A i \in 1..Len(insts) : HasKernel(insts[i])

Run(p) ==
  /\ stage[p] = "run"
  /\ Check(HasKernels(program_[p]))
  /\ Go(p, "ready")
  /\ UNCHANGED <<passVars, call, programVars, modelVars, inputVars>>

\* The operators of the instructions, and each variable one of them names.
SaveModel(p) ==
  /\ stage[p] = "save"
  /\ Check(HasKernels(program_[p]))
  /\ LET desc == [ops |-> program_[p],
                  vars |-> UNION {Names(program_[p][i]) : i \in 1..Len(program_[p])}]
     IN  /\ program_desc_' = [program_desc_ EXCEPT ![p] = desc]
         /\ saved' = [saved EXCEPT ![p] = desc]
  /\ Go(p, "ready")
  /\ UNCHANGED <<passVars, call, config, graph, program_, program_generated_, loaded,
                 inputVars>>

-----------------------------------------------------------------------------
(* LightPredictor::Build: every operator finds its variables by name and   *)
(* gets the kernel its attribute names.                                    *)

Attached(inst, declared) == HasKernel(inst) /\ Names(inst) \subseteq declared

\* Mutant: the first kernel of the place, whatever its alias.
Reload_firstOfPlace(kind, k) == IF k = nil THEN nil ELSE KernelsAt(kind, k.place)[1]
Reload(kind, k) == IF k = nil THEN nil ELSE First(KernelsAt(kind, k.place), k.alias)

LightInst(inst) ==
  [inst EXCEPT !.kernel = Reload("op", @), !.copy = Reload("copy", @)]

BuildLight(l) ==
  /\ stage[l] = "new"
  /\ \E p \in Cxx :
       /\ saved[p] # nil
       /\ LET ops == saved[p].ops
              fits == \A i \in 1..Len(ops) : Attached(ops[i], saved[p].vars)
          IN  /\ Check(fits)
              /\ program_' = [program_ EXCEPT ![l] =
                                IF fits THEN [i \in 1..Len(ops) |-> LightInst(ops[i])] ELSE @]
       /\ loaded' = [loaded EXCEPT ![l] = p]
  /\ Go(l, "ready")
  /\ UNCHANGED <<passVars, call, config, graph, program_generated_, program_desc_, saved,
                 inputVars>>

-----------------------------------------------------------------------------
(* GetInput and what a caller does with it.                                *)

\* Mutant: the list is given the size that is asked for.
GetInput_shrinks(p, k) ==
  /\ stage[p] = "ready"
  /\ feed_list' = [feed_list EXCEPT ![p] =
                     [i \in 1..k |-> IF i <= Len(@) THEN @[i] ELSE nil]]
  /\ storage' = [storage EXCEPT ![p] = IF k > Len(feed_list[p]) THEN @ + 1 ELSE @]
  /\ pointer' = [pointer EXCEPT ![p][k] = storage'[p]]
  /\ UNCHANGED <<passVars, stage, call, programVars, modelVars, written, aborted>>
GetInput(p, k) ==
  /\ stage[p] = "ready"
  /\ IF k > Len(feed_list[p])
       THEN /\ feed_list' = [feed_list EXCEPT ![p] =
                               @ \o [i \in 1..(k - Len(@)) |-> nil]]
            /\ storage' = [storage EXCEPT ![p] = @ + 1]
       ELSE UNCHANGED <<feed_list, storage>>
  /\ pointer' = [pointer EXCEPT ![p][k] = storage'[p]]
  /\ UNCHANGED <<passVars, stage, call, programVars, modelVars, written, aborted>>

\* Through a pointer that was not left behind.
Fill(p, k, v) ==
  /\ stage[p] = "ready" /\ pointer[p][k] # 0 /\ pointer[p][k] = storage[p]
  /\ feed_list' = [feed_list EXCEPT ![p][k] = v]
  /\ written' = [written EXCEPT ![p][k] = v]
  /\ UNCHANGED <<passVars, stage, call, programVars, modelVars, storage, pointer, aborted>>

-----------------------------------------------------------------------------
Optimize(p) == Build(p) \/ BuildGraph(p) \/ Pick(p) \/ Cast(p)
GenRuntimeProgram(p) == Apply(p) \/ GenProgram(p)
Use(p) == CallRun(p) \/ Run(p) \/ \E k \in 1..Columns[p] :
            GetInput(p, k) \/ \E v \in Values : Fill(p, k, v)

Next ==
  /\ ~aborted
  /\ \/ \E p \in Cxx : Optimize(p) \/ CallSave(p) \/ GenRuntimeProgram(p) \/ SaveModel(p)
     \/ \E l \in Light : BuildLight(l)
     \/ \E p \in Predictors : Use(p)

Spec == Init /\ [][Next]_vars

-----------------------------------------------------------------------------
Stages == {"new", "graph", "pick", "cast", "ready", "generate", "insts", "save", "run"}

(* Type invariant.                                                         *)
PredictorTypeOK ==
  /\ config \in [Cxx -> Targets \cup {nil}]
  /\ stage \in [Predictors -> Stages]
  /\ call \in [Predictors -> {nil, "run", "save"}]
  /\ program_generated_ \in [Cxx -> BOOLEAN]
  /\ loaded \in [Light -> Cxx \cup {nil}]
  /\ aborted \in BOOLEAN

(* The instructions of a predictor are the statements of its own model,    *)
(* each once, with the kernels its own places ask for, although the passes *)
(* that pick and collect them serve every predictor.                       *)
OwnInstructions ==
  \A p \in Cxx :
    program_[p] # <<>> =>
      \E stmts \in Statements(p, config[p].valid, config[p].prefer) :
        program_[p] = WithCopies(stmts)

(* A light predictor runs the instructions and kernels of the predictor    *)
(* whose model it loaded, however often that one saved or ran.             *)
SavedModelLoads ==
  \A l \in Light : program_[l] # <<>> => program_[l] = program_[loaded[l]]

(* What the feed operators read in a run is what the caller filled in      *)
(* last, however the list of inputs has grown since.                       *)
InputsReachTheRun ==
  \A p \in Predictors : stage[p] = "run" => feed_list[p] = written[p]

(* No legal order of calls fails a CHECK: no copy without a kernel, no     *)
(* program without instructions, no instruction whose kernel was moved     *)
(* into an earlier program, no saved model that misses a variable.         *)
NeverAborts == ~aborted
=============================================================================

-------------------------- MODULE Predictor_proofs --------------------------
(***************************************************************************)
(* The passes of the process serve one predictor at a time, so each gets   *)
(* the instructions of its own model, for any number of predictors, models *)
(* and places.                                                             *)
(***************************************************************************)
EXTENDS Predictor, TLAPS

-----------------------------------------------------------------------------
(* Kernels.                                                                *)

OpKernels == {Kernel(x, "def") : x \in Places}
CopyKernels == {Kernel(x, a) : x \in Places, a \in {"host_to_device", "device_to_host"}}
Items == [owner : Cxx, op : Ops, kernel : Kernels \cup {null},
          copy : Kernels \cup {nil, null}]
OwnItems == [owner : Cxx, op : Ops, kernel : OpKernels, copy : CopyKernels \cup {nil}]

\* What a predictor built with the arguments c runs.
Own(p, c) == {WithCopies(stmts) : stmts \in Statements(p, c.valid, c.prefer)}

\* The first kernel with an alias, of the lists CreateKernels returns.
LEMMA FirstFacts ==
  ASSUME NEW x
  PROVE  /\ First(KernelsAt("op", x), "def") = Kernel(x, "def")
         /\ First(KernelsAt("copy", x), "device_to_host") = Kernel(x, "device_to_host")
         /\ First(KernelsAt("copy", x), "host_to_device") = Kernel(x, "host_to_device")
<1>1. First(KernelsAt("op", x), "def") = Kernel(x, "def")
  <2> DEFINE ks == KernelsAt("op", x)
             fits == {i \in DOMAIN ks : ks[i].alias = "def"}
  <2>1. fits = {1} /\ ks[1] = Kernel(x, "def")
    BY DEF Kernel, KernelsAt
  <2>2. First(ks, "def") = ks[CHOOSE i \in fits : \A j \in fits : i <= j]
    BY DEF First
  <2> HIDE DEF fits, ks
  <2>3. (CHOOSE i \in fits : \A j \in fits : i <= j) = 1
    BY <2>1
  <2> QED BY <2>1, <2>2, <2>3 DEF ks
<1>2. First(KernelsAt("copy", x), "device_to_host") = Kernel(x, "device_to_host")
  <2> DEFINE ks == KernelsAt("copy", x)
             fits == {i \in DOMAIN ks : ks[i].alias = "device_to_host"}
  <2>1. fits = {1} /\ ks[1] = Kernel(x, "device_to_host")
    BY DEF Kernel, KernelsAt
  <2>2. First(ks, "device_to_host") = ks[CHOOSE i \in fits : \A j \in fits : i <= j]
    BY DEF First
  <2> HIDE DEF fits, ks
  <2>3. (CHOOSE i \in fits : \A j \in fits : i <= j) = 1
    BY <2>1
  <2> QED BY <2>1, <2>2, <2>3 DEF ks
<1>3. First(KernelsAt("copy", x), "host_to_device") = Kernel(x, "host_to_device")
  <2> DEFINE ks == KernelsAt("copy", x)
             fits == {i \in DOMAIN ks : ks[i].alias = "host_to_device"}
  <2>1. fits = {2} /\ ks[2] = Kernel(x, "host_to_device")
    BY DEF Kernel, KernelsAt
  <2>2. First(ks, "host_to_device") = ks[CHOOSE i \in fits : \A j \in fits : i <= j]
    BY DEF First
  <2> HIDE DEF fits, ks
  <2>3. (CHOOSE i \in fits : \A j \in fits : i <= j) = 2
    BY <2>1
  <2> QED BY <2>1, <2>2, <2>3 DEF ks
<1> QED BY <1>1, <1>2, <1>3

\* A kernel is found again by its place and alias.
LEMMA ReloadFacts ==
  /\ \A k \in OpKernels : Reload("op", k) = k
  /\ \A k \in CopyKernels \cup {nil} : Reload("copy", k) = k
<1>1. nil \notin OpKernels /\ nil \notin CopyKernels
  BY PredictorAssumption DEF OpKernels, CopyKernels, Kernels
<1>2. ASSUME NEW k \in OpKernels  PROVE Reload("op", k) = k
  <2>1. PICK x \in Places : k = Kernel(x, "def")
    BY DEF OpKernels
  <2> QED BY <1>1, <2>1, FirstFacts DEF Reload, Kernel
<1>3. ASSUME NEW k \in CopyKernels  PROVE Reload("copy", k) = k
  <2>1. PICK x \in Places, a \in {"host_to_device", "device_to_host"} : k = Kernel(x, a)
    BY DEF CopyKernels
  <2>2. k.place = x /\ k.alias = a
    BY <2>1 DEF Kernel
  <2> QED BY <1>1, <2>1, <2>2, FirstFacts DEF Reload
<1> QED BY <1>2, <1>3 DEF Reload

\* What the pick chooses.
LEMMA StatementFacts ==
  ASSUME NEW p \in Cxx, NEW c, NEW stmts \in Statements(p, c.valid, c.prefer)
  PROVE  /\ stmts \in [Ops -> [owner : {p}, op : Ops, kernel : OpKernels, copy : {nil}]]
         /\ \A s \in Ops : stmts[s].kernel.place \in Places \cap c.valid
<1>1. PICK place \in [Ops -> Places] :
        /\ stmts = [s \in Ops |-> Inst(p, s, Kernel(place[s], "def"))]
        /\ \A s \in Ops : place[s] \in Best(s, c.valid, c.prefer)
  BY DEF Statements
<1>2. \A s \in Ops : place[s] \in Places \cap c.valid
  BY <1>1 DEF Best
<1>3. \A s \in Ops : /\ stmts[s] = Inst(p, s, Kernel(place[s], "def"))
                     /\ Kernel(place[s], "def") \in OpKernels
                     /\ stmts[s].kernel.place = place[s]
  BY <1>1 DEF OpKernels, Inst, Kernel
<1> QED BY <1>1, <1>2, <1>3 DEF Inst

LEMMA CopyKernelFacts ==
  ASSUME NEW from \in Places, NEW to \in Places, Moves(from, to)
  PROVE  CopyKernel(from, to) \in CopyKernels /\ Device(from, to) \in {from, to}
BY FirstFacts DEF CopyKernel, Device, Moves, CopyKernels

\* A copy into or out of a device is made by a kernel of that device.
LEMMA CopiesThere ==
  ASSUME NEW p \in Cxx, NEW c, NEW stmts \in Statements(p, c.valid, c.prefer)
  PROVE  CopiesFound(stmts, c.valid)
<1>1. ASSUME NEW s \in Ops \ {1}  PROVE s \in Ops /\ s - 1 \in Ops
  BY PredictorAssumption DEF Ops
<1>2. \A s \in Ops : stmts[s].kernel.place \in c.valid
  BY StatementFacts
<1> QED BY <1>1, <1>2 DEF CopiesFound, Device

\* The program of a predictor: it has its kernels and survives saving and loading.
LEMMA OwnFacts ==
  ASSUME NEW p \in Cxx, NEW c, NEW program \in Own(p, c)
  PROVE  /\ program \in [Ops -> OwnItems] /\ program # <<>>
         /\ program \in [Ops -> Items]
         /\ 1..Len(program) = Ops
         /\ <<>> \o program = program
         /\ \A s \in Ops : HasKernel(program[s]) /\ LightInst(program[s]) = program[s]
<1>1. PICK stmts \in Statements(p, c.valid, c.prefer) : program = WithCopies(stmts)
  BY DEF Own
<1>2. ASSUME NEW s \in Ops  PROVE program[s] \in OwnItems
  <2> DEFINE to == stmts[s].kernel.place
             from == IF s = 1 THEN to ELSE stmts[s-1].kernel.place
             copy == IF Moves(from, to) THEN CopyKernel(from, to) ELSE nil
  <2>1. program[s] = [stmts[s] EXCEPT !.copy = copy]
    BY <1>1 DEF WithCopies
  <2>2. s = 1 \/ s - 1 \in Ops
    BY PredictorAssumption DEF Ops
  <2>3. from \in Places /\ to \in Places
    BY <1>1, <2>2, StatementFacts
  <2>4. copy \in CopyKernels \cup {nil}
    BY <2>3, CopyKernelFacts
  <2>5. stmts[s] \in [owner : {p}, op : Ops, kernel : OpKernels, copy : {nil}]
    BY <1>1, StatementFacts
  <2> HIDE DEF copy
  <2> QED BY <2>1, <2>4, <2>5 DEF OwnItems
<1>3. program \in [Ops -> OwnItems]
  BY <1>1, <1>2 DEF WithCopies
<1>4. Len(Registered) \in Nat \ {0}
  BY PredictorAssumption
<1>5. program \in Seq(OwnItems) /\ 1..Len(program) = Ops /\ program # <<>>
  BY <1>3, <1>4 DEF Ops
<1>6. OpKernels \subseteq Kernels /\ CopyKernels \subseteq Kernels
  BY DEF OpKernels, CopyKernels, Kernels
<1>7. OwnItems \subseteq Items
  BY <1>6 DEF OwnItems, Items
<1>8. ASSUME NEW item \in OwnItems  PROVE HasKernel(item) /\ LightInst(item) = item
  <2>1. HasKernel(item)
    BY <1>6, PredictorAssumption DEF HasKernel, OwnItems
  <2>2. Reload("op", item.kernel) = item.kernel /\ Reload("copy", item.copy) = item.copy
    BY ReloadFacts DEF OwnItems
  <2> QED BY <2>1, <2>2 DEF LightInst, OwnItems
<1> QED BY <1>2, <1>3, <1>5, <1>7, <1>8

-----------------------------------------------------------------------------
(* The inductive invariant.                                                *)

Programs == {<<>>} \cup [Ops -> Items]

TypeInv ==
  /\ config \in [Cxx -> Targets \cup {nil}]
  /\ stage \in [Predictors -> Stages]
  /\ call \in [Predictors -> {nil, "run", "save"}]
  /\ graph \in [Cxx -> Programs]
  /\ program_ \in [Predictors -> Programs]
  /\ program_generated_ \in [Cxx -> BOOLEAN]
  /\ saved \in [Cxx -> {nil} \cup [ops : Programs, vars : SUBSET UNION {Names(i) : i \in Items}]]
  /\ loaded \in [Light -> Cxx \cup {nil}]

Building(p) == stage[p] \in {"graph", "pick", "cast"}
Generating(p) == stage[p] \in {"generate", "insts"}

\* The places a pass holds are those of the one predictor that is built.
BuildInv ==
  /\ \A p, q \in Cxx : Building(p) /\ Building(q) => p = q
  /\ \A p \in Cxx :
       /\ stage[p] # "new" => config[p] \in Targets
       /\ stage[p] \in {"graph", "pick"} => place_ = config[p].prefer
       /\ stage[p] \in {"pick", "cast"} => valid_places_ = config[p].valid
       /\ stage[p] = "cast" => graph[p] \in Statements(p, config[p].valid, config[p].prefer)
  /\ \A l \in Light : stage[l] \in {"new", "ready", "run"}

\* The instructions a pass holds are those of the one predictor that generates.
ProgramInv ==
  /\ \A p, q \in Cxx : Generating(p) /\ Generating(q) => p = q
  /\ \A p \in Cxx :
       /\ stage[p] \in {"new", "graph", "pick", "cast", "generate", "insts"} => program_[p] = <<>>
       /\ stage[p] \in {"run", "save"} => program_[p] # <<>>
       /\ program_generated_[p] <=> program_[p] # <<>>
       /\ stage[p] \in {"ready", "generate"} /\ program_[p] = <<>> => graph[p] \in Own(p, config[p])
       /\ program_[p] # <<>> => program_[p] \in Own(p, config[p])
       /\ Generating(p) => call[p] \in {"run", "save"}
       /\ stage[p] = "insts" => insts_ \in Own(p, config[p])
  /\ (\A p \in Cxx : stage[p] # "insts") => insts_ = <<>>

\* What is saved is what runs, and what is loaded is what was saved.
SavedInv ==
  /\ \A p \in Cxx : saved[p] # nil =>
       /\ program_[p] # <<>> /\ saved[p].ops = program_[p]
       /\ \A s \in Ops : Names(program_[p][s]) \subseteq saved[p].vars
  /\ \A l \in Light : program_[l] # <<>> =>
       loaded[l] \in Cxx /\ program_[loaded[l]] # <<>> /\ program_[l] = program_[loaded[l]]

PredictorInv == TypeInv /\ BuildInv /\ ProgramInv /\ SavedInv /\ ~aborted

\* A kind of call that excludes itself finds no other one under way.
LEMMA EnterFacts ==
  ASSUME NEW p \in Predictors
  PROVE  /\ MayEnter(p, "build") => \A q \in Predictors \ {p} : ~Building(q)
         /\ MayEnter(p, "generate") => \A q \in Predictors \ {p} : ~Generating(q)
<1>1. ASSUME MayEnter(p, "build"), NEW q \in Predictors \ {p}, Building(q)  PROVE FALSE
  <2>1. Kind(q) = "build"
    BY <1>1 DEF Kind, Building
  <2>2. {"build", "build"} \in MayOverlap
    BY <1>1, <2>1 DEF MayEnter
  <2>3. {"build", "build"} = {"build"}
    OBVIOUS
  <2> QED BY <2>2, <2>3, OverlapAssumption
<1>2. ASSUME MayEnter(p, "generate"), NEW q \in Predictors \ {p}, Generating(q)  PROVE FALSE
  <2>1. Kind(q) = "generate"
    BY <1>2 DEF Kind, Generating
  <2>2. {"generate", "generate"} \in MayOverlap
    BY <1>2, <2>1 DEF MayEnter
  <2>3. {"generate", "generate"} = {"generate"}
    OBVIOUS
  <2> QED BY <2>2, <2>3, OverlapAssumption
<1> QED BY <1>1, <1>2

LEMMA InitInv == Init => PredictorInv
<1> SUFFICES ASSUME Init PROVE PredictorInv
  OBVIOUS
<1>1. TypeInv
  BY DEF Init, TypeInv, Programs, Stages, Predictors
<1>2. BuildInv
  BY DEF Init, BuildInv, Building, Predictors
<1>3. ProgramInv
  BY DEF Init, ProgramInv, Generating, Predictors
<1>4. SavedInv
  BY DEF Init, SavedInv, Predictors
<1> QED BY <1>1, <1>2, <1>3, <1>4 DEF PredictorInv, Init

-----------------------------------------------------------------------------
(* One lemma for each part of a call.                                      *)

LEMMA BuildStep ==
  ASSUME PredictorInv, NEW p \in Cxx, Build(p)
  PROVE  PredictorInv'
<1> USE DEF PredictorInv
<1>1. p \in Predictors /\ \A q \in Predictors \ {p} : ~Building(q)
  BY EnterFacts DEF Build, Predictors
<1>2. PICK c \in Targets : config' = [config EXCEPT ![p] = c] /\ place_' = c.prefer
  BY DEF Build
<1>3. TypeInv'
  BY <1>2 DEF Build, Go, TypeInv, Stages, programVars, modelVars, Predictors
<1> DEFINE others == \A q \in Cxx \ {p} : stage'[q] = stage[q] /\ config'[q] = config[q] /\ ~Building(q)
<1>4. others /\ stage'[p] = "graph" /\ config'[p] = c /\ (\A l \in Light : stage'[l] = stage[l])
  BY <1>1, <1>2, PredictorAssumption DEF Build, Go, TypeInv, Predictors
<1>5. BuildInv'
  BY <1>2, <1>4 DEF Build, BuildInv, Building
<1>6. ProgramInv'
  BY <1>2 DEF Build, Go, TypeInv, ProgramInv, Generating, Predictors
<1>7. SavedInv'
  BY DEF Build, SavedInv, modelVars
<1> QED BY <1>3, <1>5, <1>6, <1>7 DEF Build

LEMMA GraphStep ==
  ASSUME PredictorInv, NEW p \in Cxx, BuildGraph(p)
  PROVE  PredictorInv'
<1> USE DEF PredictorInv
<1>1. TypeInv'
  BY DEF BuildGraph, Go, TypeInv, Stages, programVars, modelVars, Predictors
<1>2. BuildInv'
  BY DEF BuildGraph, Go, TypeInv, BuildInv, Building, programVars, Predictors
<1>3. ProgramInv'
  BY DEF BuildGraph, Go, TypeInv, ProgramInv, Generating, programVars, Predictors
<1>4. SavedInv'
  BY DEF BuildGraph, SavedInv, programVars, modelVars
<1> QED BY <1>1, <1>2, <1>3, <1>4 DEF BuildGraph

LEMMA PickStep ==
  ASSUME PredictorInv, NEW p \in Cxx, Pick(p)
  PROVE  PredictorInv'
<1> USE DEF PredictorInv
<1>1. PICK stmts \in Statements(p, config[p].valid, config[p].prefer) :
        graph' = [graph EXCEPT ![p] = stmts]
  BY DEF Pick, BuildInv
<1>2. stmts \in Programs
  BY StatementFacts DEF Programs, Items, OpKernels, Kernels
<1>3. TypeInv'
  BY <1>1, <1>2 DEF Pick, Go, TypeInv, Stages, modelVars, Predictors
<1>4. BuildInv'
  BY <1>1 DEF Pick, Go, TypeInv, BuildInv, Building, passVars, Predictors
<1>5. ProgramInv'
  BY <1>1 DEF Pick, Go, TypeInv, ProgramInv, Generating, passVars, Predictors
<1>6. SavedInv'
  BY DEF Pick, SavedInv, modelVars
<1> QED BY <1>3, <1>4, <1>5, <1>6 DEF Pick

LEMMA CastStep ==
  ASSUME PredictorInv, NEW p \in Cxx, Cast(p)
  PROVE  PredictorInv'
<1> USE DEF PredictorInv
<1>1. graph[p] \in Statements(p, config[p].valid, config[p].prefer) /\ valid_places_ = config[p].valid
  BY DEF Cast, BuildInv
<1>2. ~aborted'
  BY <1>1, CopiesThere DEF Cast, Check
<1>3. WithCopies(graph[p]) \in Own(p, config[p])
  BY <1>1 DEF Own
<1>4. WithCopies(graph[p]) \in Programs
  BY <1>3, OwnFacts DEF Programs
<1>5. graph' = [graph EXCEPT ![p] = WithCopies(graph[p])]
  BY DEF Cast
<1>6. TypeInv'
  BY <1>4, <1>5 DEF Cast, Go, TypeInv, Stages, modelVars, Predictors
<1>7. BuildInv'
  BY <1>5 DEF Cast, Go, TypeInv, BuildInv, Building, passVars, Predictors
<1>8. ProgramInv'
  BY <1>3, <1>5 DEF Cast, Go, TypeInv, ProgramInv, Generating, passVars, Predictors
<1>9. SavedInv'
  BY DEF Cast, SavedInv, modelVars
<1> QED BY <1>2, <1>6, <1>7, <1>8, <1>9

LEMMA CallRunStep ==
  ASSUME PredictorInv, NEW p \in Predictors, CallRun(p)
  PROVE  PredictorInv'
<1> USE DEF PredictorInv
<1>1. stage[p] = "ready" /\ call' = [call EXCEPT ![p] = "run"]
  BY DEF CallRun
<1>2. CASE Generated(p)
  <2>1. stage' = [stage EXCEPT ![p] = "run"]
    BY <1>2 DEF CallRun, Go
  <2>2. p \in Cxx => program_[p] # <<>>
    BY <1>2 DEF Generated, ProgramInv
  <2>3. TypeInv'
    BY <1>1, <2>1 DEF CallRun, TypeInv, Stages, programVars, modelVars
  <2>4. BuildInv'
    BY <1>1, <2>1 DEF CallRun, TypeInv, BuildInv, Building, passVars, programVars, Predictors
  <2>5. ProgramInv'
    BY <1>1, <2>1, <2>2 DEF CallRun, TypeInv, ProgramInv, Generating, passVars, programVars, Predictors
  <2>6. SavedInv'
    BY DEF CallRun, SavedInv, programVars, modelVars
  <2> QED BY <2>3, <2>4, <2>5, <2>6 DEF CallRun
<1>3. CASE ~Generated(p)
  <2>1. stage' = [stage EXCEPT ![p] = "generate"] /\ MayEnter(p, "generate")
    BY <1>3 DEF CallRun, Go
  <2>2. p \in Cxx /\ program_[p] = <<>>
    BY <1>3 DEF Generated, ProgramInv
  <2>3. \A q \in Cxx \ {p} : ~Generating(q)
    BY <2>1, EnterFacts DEF Predictors
  <2>4. TypeInv'
    BY <1>1, <2>1 DEF CallRun, TypeInv, Stages, programVars, modelVars
  <2>5. BuildInv'
    BY <1>1, <2>1, <2>2, PredictorAssumption
    DEF CallRun, TypeInv, BuildInv, Building, passVars, programVars, Predictors
  <2>6. ProgramInv'
    BY <1>1, <2>1, <2>2, <2>3 DEF CallRun, TypeInv, ProgramInv, Generating, passVars, programVars, Predictors
  <2>7. SavedInv'
    BY DEF CallRun, SavedInv, programVars, modelVars
  <2> QED BY <2>4, <2>5, <2>6, <2>7 DEF CallRun
<1> QED BY <1>2, <1>3

LEMMA CallSaveStep ==
  ASSUME PredictorInv, NEW p \in Cxx, CallSave(p)
  PROVE  PredictorInv'
<1> USE DEF PredictorInv
<1>1. stage[p] = "ready" /\ call' = [call EXCEPT ![p] = "save"] /\ p \in Predictors
  BY DEF CallSave, Predictors
<1>2. PICK s \in {"save", "generate"} :
        /\ stage' = [stage EXCEPT ![p] = s]
        /\ s = "save" => program_[p] # <<>>
        /\ s = "generate" => program_[p] = <<>> /\ MayEnter(p, "generate")
  BY DEF CallSave, Go
<1>3. s = "generate" => \A q \in Cxx \ {p} : ~Generating(q)
  BY <1>1, <1>2, EnterFacts DEF Predictors
<1>4. TypeInv'
  BY <1>1, <1>2 DEF CallSave, TypeInv, Stages, programVars, modelVars
<1>5. BuildInv'
  BY <1>1, <1>2, PredictorAssumption
  DEF CallSave, TypeInv, BuildInv, Building, passVars, programVars, Predictors
<1>6. ProgramInv'
  BY <1>1, <1>2, <1>3 DEF CallSave, TypeInv, ProgramInv, Generating, passVars, programVars, Predictors
<1>7. SavedInv'
  BY DEF CallSave, SavedInv, programVars, modelVars
<1> QED BY <1>4, <1>5, <1>6, <1>7 DEF CallSave

LEMMA ApplyStep ==
  ASSUME PredictorInv, NEW p \in Cxx, Apply(p)
  PROVE  PredictorInv'
<1> USE DEF PredictorInv
<1>1. stage[p] = "generate" /\ stage' = [stage EXCEPT ![p] = "insts"] /\ p \in Predictors
  BY DEF Apply, Go, Predictors
<1>2. graph[p] \in Own(p, config[p])
  BY <1>1 DEF ProgramInv
<1>3. \A q \in Cxx \ {p} : ~Generating(q)
  BY <1>1 DEF ProgramInv, Generating
<1>4. insts_ = <<>>
  BY <1>1, <1>3 DEF ProgramInv, Generating
<1>5. insts_' = graph[p]
  BY <1>2, <1>4, OwnFacts DEF Apply
<1>6. MovedFrom(graph[p]) \in Programs
  <2>1. graph[p] \in [Ops -> Items]
    BY <1>2, OwnFacts
  <2>2. ASSUME NEW s \in Ops  PROVE MovedFrom(graph[p])[s] \in Items
    <3> DEFINE item == graph[p][s]
               copy == IF item.copy = nil THEN nil ELSE null
    <3>1. item \in Items /\ copy \in {nil, null}
      BY <2>1
    <3>2. MovedFrom(graph[p])[s] = [item EXCEPT !.kernel = null, !.copy = copy]
      BY DEF MovedFrom
    <3> HIDE DEF item, copy
    <3> QED BY <3>1, <3>2 DEF Items
  <2> QED BY <2>2 DEF MovedFrom, Programs
<1>7. TypeInv'
  BY <1>1, <1>6 DEF Apply, TypeInv, Stages, modelVars
<1>8. BuildInv'
  BY <1>1, PredictorAssumption DEF Apply, TypeInv, BuildInv, Building, Predictors
<1>9. ProgramInv'
  BY <1>1, <1>2, <1>3, <1>5 DEF Apply, TypeInv, ProgramInv, Generating, Predictors
<1>10. SavedInv'
  BY DEF Apply, SavedInv, modelVars
<1> QED BY <1>7, <1>8, <1>9, <1>10 DEF Apply

LEMMA GenStep ==
  ASSUME PredictorInv, NEW p \in Cxx, GenProgram(p)
  PROVE  PredictorInv'
<1> USE DEF PredictorInv
<1>1. /\ stage[p] = "insts" /\ stage' = [stage EXCEPT ![p] = call[p]] /\ p \in Predictors
      /\ call[p] \in {"run", "save"} /\ insts_' = <<>>
      /\ program_' = [program_ EXCEPT ![p] = insts_]
      /\ program_generated_' = [program_generated_ EXCEPT ![p] = TRUE]
  BY DEF GenProgram, Go, Predictors, ProgramInv, Generating
<1>2. insts_ \in Own(p, config[p])
  BY <1>1 DEF ProgramInv
<1>3. insts_ # <<>> /\ insts_ \in Programs
  BY <1>2, OwnFacts DEF Programs
<1>4. ~aborted'
  BY <1>3 DEF GenProgram, Check
<1>5. saved[p] = nil /\ \A l \in Light : program_[l] # <<>> => loaded[l] # p
  BY <1>1 DEF ProgramInv, SavedInv
<1>6. TypeInv'
  BY <1>1, <1>3 DEF GenProgram, TypeInv, Stages, modelVars
<1>7. BuildInv'
  BY <1>1, PredictorAssumption DEF GenProgram, TypeInv, BuildInv, Building, Predictors
<1>8. ProgramInv'
  BY <1>1, <1>2, <1>3 DEF GenProgram, TypeInv, ProgramInv, Generating, Predictors
<1>9. SavedInv'
  BY <1>1, <1>5, PredictorAssumption DEF GenProgram, TypeInv, SavedInv, modelVars, Predictors
<1> QED BY <1>4, <1>6, <1>7, <1>8, <1>9

\* A program that is not empty has its kernels and no more than its statements.
LEMMA ProgramFacts ==
  ASSUME PredictorInv, NEW p \in Predictors, program_[p] # <<>>
  PROVE  /\ HasKernels(program_[p]) /\ 1..Len(program_[p]) = Ops
         /\ program_[p] \in [Ops -> Items]
         /\ \A s \in Ops : LightInst(program_[p][s]) = program_[p][s]
<1>1. PICK q \in Cxx : program_[p] \in Own(q, config[q])
  BY DEF PredictorInv, ProgramInv, SavedInv, Predictors
<1> QED BY <1>1, OwnFacts DEF HasKernels

LEMMA RunStep ==
  ASSUME PredictorInv, NEW p \in Predictors, Run(p)
  PROVE  PredictorInv'
<1> USE DEF PredictorInv
<1>1. stage[p] = "run" /\ stage' = [stage EXCEPT ![p] = "ready"]
  BY DEF Run, Go
<1>2. HasKernels(program_[p])
  <2>1. CASE program_[p] = <<>>
    BY <2>1 DEF HasKernels
  <2>2. CASE program_[p] # <<>>
    BY <2>2, ProgramFacts
  <2> QED BY <2>1, <2>2
<1>3. ~aborted'
  BY <1>2 DEF Run, Check
<1>4. TypeInv'
  BY <1>1 DEF Run, TypeInv, Stages, programVars, modelVars
<1>5. BuildInv'
  BY <1>1 DEF Run, TypeInv, BuildInv, Building, passVars, programVars, Predictors
<1>6. ProgramInv'
  BY <1>1 DEF Run, TypeInv, ProgramInv, Generating, passVars, programVars, Predictors
<1>7. SavedInv'
  BY DEF Run, SavedInv, programVars, modelVars
<1> QED BY <1>3, <1>4, <1>5, <1>6, <1>7

LEMMA SaveStep ==
  ASSUME PredictorInv, NEW p \in Cxx, SaveModel(p)
  PROVE  PredictorInv'
<1> USE DEF PredictorInv
<1> DEFINE desc == [ops |-> program_[p],
                    vars |-> UNION {Names(program_[p][i]) : i \in 1..Len(program_[p])}]
<1>1. /\ stage[p] = "save" /\ stage' = [stage EXCEPT ![p] = "ready"] /\ p \in Predictors
      /\ saved' = [saved EXCEPT ![p] = desc]
  BY DEF SaveModel, Go, Predictors
<1>2. program_[p] # <<>>
  BY <1>1 DEF ProgramInv
<1>3. /\ HasKernels(program_[p]) /\ 1..Len(program_[p]) = Ops
      /\ program_[p] \in [Ops -> Items]
  BY <1>1, <1>2, ProgramFacts
<1>4. /\ desc \in [ops : Programs, vars : SUBSET UNION {Names(i) : i \in Items}]
      /\ \A s \in Ops : Names(program_[p][s]) \subseteq desc.vars
      /\ desc.ops = program_[p]
  BY <1>3 DEF Programs
<1>5. ~aborted'
  BY <1>3 DEF SaveModel, Check
<1> HIDE DEF desc
<1>6. TypeInv'
  <2>1. saved' \in [Cxx -> {nil} \cup
                     [ops : Programs, vars : SUBSET UNION {Names(i) : i \in Items}]]
    BY <1>1, <1>4 DEF TypeInv
  <2>2. stage' \in [Predictors -> Stages]
    BY <1>1 DEF TypeInv, Stages
  <2> QED
    BY <2>1, <2>2 DEF SaveModel, TypeInv
<1>7. BuildInv'
  BY <1>1, PredictorAssumption DEF SaveModel, TypeInv, BuildInv, Building, passVars, Predictors
<1>8. ProgramInv'
  BY <1>1, <1>2 DEF SaveModel, TypeInv, ProgramInv, Generating, passVars, Predictors
<1>9. SavedInv'
  BY <1>1, <1>2, <1>4 DEF SaveModel, TypeInv, SavedInv
<1> QED BY <1>5, <1>6, <1>7, <1>8, <1>9

LEMMA LightStep ==
  ASSUME PredictorInv, NEW l \in Light, BuildLight(l)
  PROVE  PredictorInv'
<1> USE DEF PredictorInv
<1>1. PICK p \in Cxx :
        /\ saved[p] # nil /\ loaded' = [loaded EXCEPT ![l] = p]
        /\ LET ops == saved[p].ops
               fits == \A i \in 1..Len(ops) : Attached(ops[i], saved[p].vars)
           IN  /\ Check(fits)
               /\ program_' = [program_ EXCEPT ![l] =
                                 IF fits THEN [i \in 1..Len(ops) |-> LightInst(ops[i])] ELSE @]
  BY DEF BuildLight
<1>2. /\ stage[l] = "new" /\ stage' = [stage EXCEPT ![l] = "ready"]
      /\ l \in Predictors /\ p \in Predictors /\ l \notin Cxx
  BY PredictorAssumption DEF BuildLight, Go, Predictors
<1>3. /\ program_[p] # <<>> /\ saved[p].ops = program_[p]
      /\ \A s \in Ops : Names(program_[p][s]) \subseteq saved[p].vars
  BY <1>1 DEF SavedInv
<1>4. /\ HasKernels(program_[p]) /\ 1..Len(program_[p]) = Ops
      /\ program_[p] \in [Ops -> Items]
      /\ \A s \in Ops : LightInst(program_[p][s]) = program_[p][s]
  BY <1>2, <1>3, ProgramFacts
<1>5. \A i \in 1..Len(program_[p]) : Attached(program_[p][i], saved[p].vars)
  BY <1>3, <1>4 DEF HasKernels, Attached
<1>6. ~aborted'
  BY <1>1, <1>3, <1>5 DEF Check
<1>7. [i \in 1..Len(program_[p]) |-> LightInst(program_[p][i])] = program_[p]
  BY <1>4
<1>8. program_' = [program_ EXCEPT ![l] = program_[p]]
  BY <1>1, <1>3, <1>5, <1>7
<1>9. TypeInv'
  <2>1. program_' \in [Predictors -> Programs]
    BY <1>2, <1>8 DEF TypeInv
  <2>2. loaded' \in [Light -> Cxx \cup {nil}]
    BY <1>1 DEF TypeInv
  <2> QED BY <1>2, <2>1, <2>2 DEF BuildLight, TypeInv, Stages
<1>10. BuildInv'
  BY <1>2 DEF BuildLight, TypeInv, BuildInv, Building, passVars, Predictors
<1>11. ProgramInv'
  BY <1>2, <1>8 DEF BuildLight, TypeInv, ProgramInv, Generating, passVars, Predictors
<1>12. SavedInv'
  <2>1. \A q \in Predictors : q # l => program_'[q] = program_[q]
    BY <1>8 DEF TypeInv
  <2>2. \A q \in Cxx : program_'[q] = program_[q]
    BY <1>2, <2>1 DEF Predictors
  <2>3. program_'[l] = program_[p] /\ loaded'[l] = p
    BY <1>1, <1>2, <1>8 DEF TypeInv
  <2>4. \A m \in Light \ {l} : program_'[m] = program_[m] /\ loaded'[m] = loaded[m]
    BY <1>1, <2>1 DEF TypeInv, Predictors
  <2>5. saved' = saved
    BY DEF BuildLight
  <2>6. ASSUME NEW m \in Light, program_'[m] # <<>>
        PROVE  loaded'[m] \in Cxx /\ program_'[loaded'[m]] # <<>> /\ program_'[m] = program_'[loaded'[m]]
    <3>1. CASE m = l
      BY <1>3, <2>2, <2>3, <3>1
    <3>2. CASE m # l
      BY <2>2, <2>4, <2>6, <3>2 DEF SavedInv
    <3> QED BY <3>1, <3>2
  <2>7. ASSUME NEW q \in Cxx, saved'[q] # nil
        PROVE  /\ program_'[q] # <<>> /\ saved'[q].ops = program_'[q]
               /\ \A s \in Ops : Names(program_'[q][s]) \subseteq saved'[q].vars
    BY <2>2, <2>5, <2>7 DEF SavedInv
  <2> QED BY <2>6, <2>7 DEF SavedInv
<1> QED BY <1>6, <1>9, <1>10, <1>11, <1>12

LEMMA InputStep ==
  ASSUME PredictorInv,
         UNCHANGED <<passVars, stage, call, programVars, modelVars, aborted>>
  PROVE  PredictorInv'
BY DEF PredictorInv, TypeInv, BuildInv, Building, ProgramInv, Generating, SavedInv, passVars,
       programVars, modelVars

-----------------------------------------------------------------------------
THEOREM PredictorInvariant == Spec => []PredictorInv
<1>1. ASSUME PredictorInv, Next  PROVE PredictorInv'
  <2>1. ASSUME NEW p \in Cxx, Optimize(p)  PROVE PredictorInv'
    BY <1>1, <2>1, BuildStep, GraphStep, PickStep, CastStep DEF Optimize
  <2>2. ASSUME NEW p \in Cxx, GenRuntimeProgram(p)  PROVE PredictorInv'
    BY <1>1, <2>2, ApplyStep, GenStep DEF GenRuntimeProgram
  <2>3. ASSUME NEW p \in Cxx, CallSave(p) \/ SaveModel(p)  PROVE PredictorInv'
    BY <1>1, <2>3, CallSaveStep, SaveStep
  <2>4. ASSUME NEW l \in Light, BuildLight(l)  PROVE PredictorInv'
    BY <1>1, <2>4, LightStep
  <2>5. ASSUME NEW p \in Predictors, Use(p)  PROVE PredictorInv'
    <3>1. CASE CallRun(p) \/ Run(p)
      BY <1>1, <3>1, CallRunStep, RunStep
    <3>2. CASE \E k \in 1..Columns[p] : GetInput(p, k) \/ \E v \in Values : Fill(p, k, v)
      BY <1>1, <3>2, InputStep DEF GetInput, Fill
    <3> QED BY <2>5, <3>1, <3>2 DEF Use
  <2> QED BY <1>1, <2>1, <2>2, <2>3, <2>4, <2>5 DEF Next
<1>2. ASSUME PredictorInv, UNCHANGED vars  PROVE PredictorInv'
  BY <1>2, InputStep DEF vars
<1> QED BY InitInv, <1>1, <1>2, PTL DEF Spec

(* Every predictor runs its own statements with the kernels its own places *)
(* ask for, for any number of predictors and any model: the passes and the *)
(* vector of instructions are shared.                                      *)
THEOREM InstructionsAreOwn == Spec => []OwnInstructions
<1>1. PredictorInv => OwnInstructions
  BY DEF PredictorInv, ProgramInv, OwnInstructions, Own
<1> QED BY <1>1, PredictorInvariant, PTL

(* A light predictor runs what the predictor whose model it loaded runs,   *)
(* for any model and any order of saving, running and loading.             *)
THEOREM LoadsWhatWasSaved == Spec => []SavedModelLoads
<1>1. PredictorInv => SavedModelLoads
  BY DEF PredictorInv, SavedInv, SavedModelLoads
<1> QED BY <1>1, PredictorInvariant, PTL

(* No order of calls that keeps two builds, and two generations, apart     *)
(* leaves a copy, an instruction or a saved model without what it needs.   *)
THEOREM ChecksHold == Spec => []NeverAborts
<1>1. PredictorInv => NeverAborts
  BY DEF PredictorInv, NeverAborts
<1> QED BY <1>1, PredictorInvariant, PTL

-----------------------------------------------------------------------------
(* Inputs.                                                                 *)

Cells == Values \cup {nil}

\* A call of Run is under way.
Runs(p) == stage[p] = "run" \/ (Generating(p) /\ call[p] = "run")

\* The list holds what was filled in; nothing was filled in beyond its end.
InputInv ==
  /\ feed_list \in [Predictors -> Seq(Cells)] /\ storage \in [Predictors -> Nat]
  /\ DOMAIN written = Predictors /\ written = [p \in Predictors |-> written[p]]
  /\ DOMAIN pointer = Predictors /\ pointer = [p \in Predictors |-> pointer[p]]
  /\ \A p \in Predictors :
       /\ written[p] \in [1..Columns[p] -> Cells] /\ pointer[p] \in [1..Columns[p] -> Nat]
       /\ Len(feed_list[p]) <= Columns[p]
       /\ Runs(p) => Len(feed_list[p]) = Columns[p]
       /\ \A k \in 1..Columns[p] :
            /\ k <= Len(feed_list[p]) => feed_list[p][k] = written[p][k]
            /\ k > Len(feed_list[p]) => written[p][k] = nil /\ pointer[p][k] = 0

LEMMA InputInit == Init => InputInv
<1> SUFFICES ASSUME Init PROVE InputInv
  OBVIOUS
<1>1. feed_list \in [Predictors -> Seq(Cells)] /\ storage \in [Predictors -> Nat]
  BY DEF Init
<1>2. \A p \in Predictors : Columns[p] \in Nat /\ stage[p] = "new" /\ feed_list[p] = <<>>
  BY PredictorAssumption DEF Init
<1>3. \A p \in Predictors :
        /\ written[p] = [k \in 1..Columns[p] |-> nil]
        /\ pointer[p] = [k \in 1..Columns[p] |-> 0]
  BY DEF Init
<1>4. \A p \in Predictors : ~Runs(p)
  BY <1>2 DEF Runs, Generating
<1> QED BY <1>1, <1>2, <1>3, <1>4 DEF Init, InputInv, Cells

\* Only a call of Run begins one, and only when the inputs are there.
LEMMA ControlStep ==
  ASSUME InputInv, UNCHANGED inputVars,
         \A q \in Predictors : Runs(q)' => Runs(q) \/ InputsThere(q)
  PROVE  InputInv'
BY DEF InputInv, inputVars, InputsThere

LEMMA GetInputStep ==
  ASSUME InputInv, NEW p \in Predictors, NEW k \in 1..Columns[p], GetInput(p, k)
  PROVE  InputInv'
<1> DEFINE n == Len(feed_list[p])
           more == [i \in 1..(k - n) |-> nil]
<1>1. Columns[p] \in Nat /\ n \in Nat /\ n <= Columns[p] /\ feed_list[p] \in Seq(Cells)
  BY PredictorAssumption DEF InputInv
<1>2. ~Runs(p)
  BY DEF GetInput, Runs, Generating
<1>3. /\ \A q \in Predictors : Runs(q)' = Runs(q)
      /\ written' = written
      /\ pointer' = [pointer EXCEPT ![p][k] = storage'[p]]
  BY DEF GetInput, Runs, Generating
<1>4. /\ feed_list' \in [Predictors -> Seq(Cells)] /\ storage' \in [Predictors -> Nat]
      /\ \A q \in Predictors \ {p} : feed_list'[q] = feed_list[q]
      /\ n <= Len(feed_list'[p]) /\ k <= Len(feed_list'[p]) /\ Len(feed_list'[p]) <= Columns[p]
      /\ \A i \in 1..Len(feed_list'[p]) :
           feed_list'[p][i] = IF i <= n THEN feed_list[p][i] ELSE nil
  <2>1. CASE k > n
    <3>1. more \in Seq(Cells) /\ Len(more) = k - n
      BY <1>1, <2>1 DEF Cells
    <3>2. feed_list' = [feed_list EXCEPT ![p] = feed_list[p] \o more]
          /\ storage' = [storage EXCEPT ![p] = @ + 1]
      BY <2>1 DEF GetInput
    <3>3. /\ feed_list[p] \o more \in Seq(Cells) /\ Len(feed_list[p] \o more) = k
          /\ \A i \in 1..k : (feed_list[p] \o more)[i] = IF i <= n THEN feed_list[p][i] ELSE nil
      <4> HIDE DEF more
      <4>1. /\ feed_list[p] \o more \in Seq(Cells) /\ Len(feed_list[p] \o more) = k
            /\ \A i \in 1..k : (feed_list[p] \o more)[i]
                                 = IF i <= n THEN feed_list[p][i] ELSE more[i - n]
        BY <1>1, <2>1, <3>1
      <4>2. \A i \in 1..k : i > n => more[i - n] = nil
        BY <1>1, <2>1 DEF more
      <4> QED BY <1>1, <4>1, <4>2
    <3> HIDE DEF more
    <3> QED BY <1>1, <2>1, <3>2, <3>3 DEF InputInv
  <2>2. CASE ~(k > n)
    BY <1>1, <2>2 DEF GetInput, InputInv
  <2> QED BY <2>1, <2>2
<1>5. ASSUME NEW q \in Predictors
      PROVE  /\ pointer'[q] \in [1..Columns[q] -> Nat]
             /\ Len(feed_list'[q]) <= Columns[q]
             /\ Runs(q)' => Len(feed_list'[q]) = Columns[q]
             /\ \A i \in 1..Columns[q] :
                  /\ i <= Len(feed_list'[q]) => feed_list'[q][i] = written[q][i]
                  /\ i > Len(feed_list'[q]) => written[q][i] = nil /\ pointer'[q][i] = 0
  <2>1. CASE q = p
    BY <1>1, <1>2, <1>3, <1>4, <2>1 DEF InputInv
  <2>2. CASE q # p
    BY <1>3, <1>4, <2>2 DEF InputInv
  <2> QED BY <2>1, <2>2
<1> QED BY <1>3, <1>4, <1>5 DEF InputInv

LEMMA FillStep ==
  ASSUME InputInv, NEW p \in Predictors, NEW k \in 1..Columns[p], NEW v \in Values, Fill(p, k, v)
  PROVE  InputInv'
<1>1. Columns[p] \in Nat /\ k <= Len(feed_list[p]) /\ feed_list[p] \in Seq(Cells)
  <2>1. Columns[p] \in Nat /\ feed_list[p] \in Seq(Cells) /\ Len(feed_list[p]) \in Nat
    BY PredictorAssumption DEF InputInv
  <2>2. pointer[p][k] # 0
    BY DEF Fill
  <2>3. k > Len(feed_list[p]) => pointer[p][k] = 0
    BY DEF InputInv
  <2> QED BY <2>1, <2>2, <2>3
<1>2. feed_list' = [feed_list EXCEPT ![p] = [@ EXCEPT ![k] = v]]
      /\ written' = [written EXCEPT ![p] = [@ EXCEPT ![k] = v]]
  BY DEF Fill
<1>3. /\ [feed_list[p] EXCEPT ![k] = v] \in Seq(Cells)
      /\ Len([feed_list[p] EXCEPT ![k] = v]) = Len(feed_list[p])
  BY <1>1 DEF Cells
<1>4. \A q \in Predictors : Runs(q)' = Runs(q)
  BY DEF Fill, Runs, Generating
<1>5. pointer' = pointer /\ storage' = storage
  BY DEF Fill
<1>6. \A q \in Predictors \ {p} : feed_list'[q] = feed_list[q] /\ written'[q] = written[q]
  BY <1>2 DEF InputInv
<1>7. /\ feed_list'[p] = [feed_list[p] EXCEPT ![k] = v]
      /\ written'[p] = [written[p] EXCEPT ![k] = v]
  BY <1>2 DEF InputInv
<1>8. feed_list' \in [Predictors -> Seq(Cells)]
  BY <1>2, <1>3 DEF InputInv
<1>9. ASSUME NEW q \in Predictors
      PROVE  /\ written'[q] \in [1..Columns[q] -> Cells]
             /\ Len(feed_list'[q]) = Len(feed_list[q])
             /\ \A i \in 1..Columns[q] :
                  /\ i <= Len(feed_list[q]) => feed_list'[q][i] = written'[q][i]
                  /\ i > Len(feed_list[q]) => written'[q][i] = nil
  <2>1. CASE q = p
    <3>1. written'[p] \in [1..Columns[p] -> Cells]
      BY <1>7 DEF InputInv, Cells
    <3>2. \A i \in 1..Columns[p] : i <= Len(feed_list[p]) => feed_list'[p][i] = written'[p][i]
      BY <1>1, <1>7 DEF InputInv
    <3>3. \A i \in 1..Columns[p] : i > Len(feed_list[p]) => written'[p][i] = nil
      BY <1>1, <1>7 DEF InputInv
    <3> QED BY <1>3, <1>7, <2>1, <3>1, <3>2, <3>3
  <2>2. CASE q # p
    BY <1>6, <2>2 DEF InputInv
  <2> QED BY <2>1, <2>2
<1>10. DOMAIN written' = Predictors /\ written' = [q \in Predictors |-> written'[q]]
  BY <1>2 DEF InputInv
<1> QED BY <1>4, <1>5, <1>8, <1>9, <1>10 DEF InputInv

(* What a run reads is what was filled in last, for any number of inputs   *)
(* asked for in any order, as long as the caller writes through pointers   *)
(* into the present list.                                                  *)
THEOREM InputsArrive == Spec => []InputsReachTheRun
<1>1. ASSUME PredictorInv, InputInv, Next  PROVE InputInv'
  <2>1. ASSUME NEW p \in Cxx, Optimize(p) \/ CallSave(p) \/ GenRuntimeProgram(p) \/ SaveModel(p)
        PROVE  InputInv'
    <3>1. UNCHANGED inputVars
      BY <2>1 DEF Optimize, Build, BuildGraph, Pick, Cast, CallSave, GenRuntimeProgram, Apply,
                  GenProgram, SaveModel
    <3>2. p \in Predictors /\ \A q \in Predictors \ {p} : stage'[q] = stage[q] /\ call'[q] = call[q]
      BY <1>1, <2>1 DEF PredictorInv, TypeInv, Predictors, Optimize, Build, BuildGraph, Pick, Cast,
                  CallSave, GenRuntimeProgram, Apply, GenProgram, SaveModel, Go
    <3>3. Runs(p)' => Runs(p)
      BY <1>1, <2>1, <3>2 DEF PredictorInv, TypeInv, Predictors, Optimize, Build, BuildGraph, Pick, Cast,
                  CallSave, GenRuntimeProgram, Apply, GenProgram, SaveModel, Go, Runs, Generating
    <3> QED BY <1>1, <3>1, <3>2, <3>3, ControlStep DEF Runs, Generating
  <2>2. ASSUME NEW l \in Light, BuildLight(l)  PROVE InputInv'
    <3>1. l \in Predictors /\ stage' = [stage EXCEPT ![l] = "ready"] /\ call' = call
      BY <2>2 DEF BuildLight, Go, Predictors
    <3>2. \A q \in Predictors : Runs(q)' => Runs(q)
      BY <1>1, <3>1 DEF PredictorInv, TypeInv, Runs, Generating
    <3> QED BY <1>1, <2>2, <3>2, ControlStep DEF BuildLight
  <2>3. ASSUME NEW p \in Predictors, Use(p)  PROVE InputInv'
    <3>1. CASE CallRun(p)
      <4>1. InputsThere(p) /\ UNCHANGED inputVars
        BY <3>1 DEF CallRun
      <4>2. \A q \in Predictors \ {p} : stage'[q] = stage[q] /\ call'[q] = call[q]
        BY <1>1, <3>1 DEF CallRun, Go, PredictorInv, TypeInv
      <4> QED BY <1>1, <4>1, <4>2, ControlStep DEF Runs, Generating
    <3>2. CASE Run(p)
      <4>1. UNCHANGED inputVars
        BY <3>2 DEF Run
      <4>2. \A q \in Predictors : Runs(q)' => Runs(q)
        BY <1>1, <3>2 DEF Run, Go, Runs, Generating, PredictorInv, TypeInv
      <4> QED BY <1>1, <4>1, <4>2, ControlStep
    <3>3. CASE \E k \in 1..Columns[p] : GetInput(p, k) \/ \E v \in Values : Fill(p, k, v)
      BY <1>1, <3>3, GetInputStep, FillStep
    <3> QED BY <2>3, <3>1, <3>2, <3>3 DEF Use
  <2> QED BY <1>1, <2>1, <2>2, <2>3 DEF Next
<1>2. ASSUME InputInv, UNCHANGED vars  PROVE InputInv'
  BY <1>2, ControlStep DEF vars, inputVars, Runs, Generating
<1>3. InputInv => InputsReachTheRun
  <2> SUFFICES ASSUME InputInv, NEW p \in Predictors, stage[p] = "run"
               PROVE  feed_list[p] = written[p]
    BY DEF InputsReachTheRun
  <2> Runs(p)
    BY DEF Runs
  <2>1. Len(feed_list[p]) = Columns[p] /\ feed_list[p] \in Seq(Cells)
    BY DEF InputInv
  <2>2. written[p] \in [1..Columns[p] -> Cells]
    BY DEF InputInv
  <2>3. \A k \in 1..Columns[p] : feed_list[p][k] = written[p][k]
    BY <2>1, PredictorAssumption DEF InputInv
  <2> QED BY <2>1, <2>2, <2>3
<1> QED BY InputInit, <1>1, <1>2, <1>3, PredictorInvariant, PTL DEF Spec

(* Every call is at a stage of its code, and a light predictor knows whose *)
(* model it loaded.                                                        *)
THEOREM PredictorTypeCorrect == Spec => []PredictorTypeOK
<1>1. PredictorInv /\ aborted \in BOOLEAN => PredictorTypeOK
  BY DEF PredictorInv, TypeInv, PredictorTypeOK
<1>2. Init => aborted \in BOOLEAN
  BY DEF Init
<1>3. aborted \in BOOLEAN /\ [Next]_vars => (aborted \in BOOLEAN)'
  <2> SUFFICES ASSUME aborted \in BOOLEAN, [Next]_vars PROVE aborted' \in BOOLEAN
    OBVIOUS
  <2>1. ASSUME NEW p \in Cxx, Optimize(p) PROVE aborted' \in BOOLEAN
    BY <2>1 DEF Optimize, Build, BuildGraph, Pick, Cast, Check
  <2>2. ASSUME NEW p \in Cxx, CallSave(p) \/ GenRuntimeProgram(p) \/ SaveModel(p)
        PROVE  aborted' \in BOOLEAN
    BY <2>2 DEF CallSave, GenRuntimeProgram, Apply, GenProgram, SaveModel, Check
  <2>3. ASSUME NEW l \in Light, BuildLight(l) PROVE aborted' \in BOOLEAN
    BY <2>3 DEF BuildLight, Check
  <2>4. ASSUME NEW p \in Predictors, Use(p) PROVE aborted' \in BOOLEAN
    BY <2>4 DEF Use, CallRun, Run, GetInput, Fill, Check
  <2>5. CASE UNCHANGED vars
    BY <2>5 DEF vars
  <2> QED
    BY <2>1, <2>2, <2>3, <2>4, <2>5 DEF Next
<1> QED
  BY <1>1, <1>2, <1>3, PredictorInvariant, PTL DEF Spec
=============================================================================

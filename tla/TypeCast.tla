------------------------------ MODULE TypeCast ------------------------------
(***************************************************************************)
(* The passes of Optimizer::Run that give every statement a kernel and     *)
(* every argument a type, and that put a cast where the two do not agree:  *)
(* static_kernel_pick_pass, variable_place_inference_pass and the          *)
(* type_target, type_precision and type_layout cast passes.  A cast pass   *)
(* compares one field of the types, inserts an io_copy, a calib or a       *)
(* layout operator and renames the input of the reader.                    *)
(* A type is the target, precision and layout of a tensor, the device      *)
(* number left out; a kernel is the types it is registered with, by slot.  *)
(***************************************************************************)
EXTENDS SSAGraph, SequencesExt

CONSTANTS Registered  \* build of the library -> cast operator -> its kernels, in the
                      \* order CreateKernels returns them, those of the _once
                      \* operator too

\* A program has operators, and their links are the names of the OpDesc.
ASSUME DescAssumption ==
  \A p \in Programs :
    /\ p.ops # <<>>
    /\ \A s \in DOMAIN p.ops :
         /\ p.desc[s].in \in Seq(Name) /\ ToSet(p.desc[s].in) = p.ops[s].in
         /\ p.desc[s].out \in Seq(Name) /\ ToSet(p.desc[s].out) = p.ops[s].out

VARIABLES step,      \* position in Passes of the pass that runs, 0 while building
          failed,    \* a CHECK has ended the process
          stmt,      \* statement -> its OpDesc and picked kernel
          arg,       \* argument node -> its type and is_persist
          linked,    \* inlinks as SSAGraph built them
          cur,       \* a cast pass: the statement visited
          last,      \* the last statement of the list the pass made at its start
          todo       \* inputs of the statement left to look at

castVars == <<step, failed, stmt, arg, linked, cur, last, todo>>
vars == <<graphVars, castVars>>

\* A program comes with the build that optimises it.
Registry == Registered[program.build]
OnFpga == program.build = "fpga"

Passes == <<"static_kernel_pick", "variable_place_inference", "target", "variable_place_inference",
            "io_copy_kernel_pick", "variable_place_inference", "precision",
            "variable_place_inference", "layout", "variable_place_inference">>

CastOp == [target |-> "io_copy", precision |-> "calib", layout |-> "layout"]

Pass == Passes[step]
Running == step \in DOMAIN Passes /\ ~failed
Finished == step > Len(Passes)

NextPass == step' = step + 1

Stmts == DOMAIN stmt

\* The type no pass has set yet, the kernel that is null.
Untyped == [target |-> "unset", precision |-> "unset", layout |-> "unset"]
NoKernel == [in |-> <<>>, out |-> <<>>]

-----------------------------------------------------------------------------
(* type_system.h                                                           *)

HostTargets == {"host", "x86", "arm"}

TargetCompatible(a, b) == a.target = b.target \/ {a.target, b.target} \subseteq HostTargets
PrecisionCompatible(a, b) == a.precision = b.precision \/ "any" \in {a.precision, b.precision}
LayoutCompatible(a, b) == a.layout = b.layout \/ "any" \in {a.layout, b.layout}
TypeCompatible(a, b) == TargetCompatible(a, b) /\ PrecisionCompatible(a, b) /\ LayoutCompatible(a, b)

\* What the cast pass compares.
Fits(field, a, b) ==
  \/ field = "target" /\ TargetCompatible(a, b)
  \/ field = "precision" /\ PrecisionCompatible(a, b)
  \/ field = "layout" /\ LayoutCompatible(a, b)

\* A type a kernel declares for a slot: all three fields, the target a known one.
IsType(type) == DOMAIN type = DOMAIN CastOp /\ type.target # "unset"

\* A kernel of a cast changes one field and keeps the others, or leaves them open.
ConvertsOnly(field, kernel) ==
  /\ 1 \in DOMAIN kernel.in /\ IsType(kernel.in[1]) /\ IsType(kernel.out[1])
  /\ field # "target" => kernel.out[1].target = kernel.in[1].target
  /\ \A other \in {"precision", "layout"} \ {field} :
       kernel.out[1][other] \in {kernel.in[1][other], "any"}

\* Kernels declare a type for every slot, one for all the slots a program gives
\* the same name.  A program has no casts of its own.
ASSUME KernelAssumption ==
  \A p \in Programs :
    /\ \A s \in DOMAIN p.ops :
         /\ p.ops[s].type \notin {"io_copy", "calib", "layout"}
         /\ \A kernel \in p.desc[s].kernels :
              /\ \A k \in DOMAIN p.desc[s].in : IsType(kernel.in[k])
              /\ \A k \in DOMAIN p.desc[s].out : k \in DOMAIN kernel.out /\ IsType(kernel.out[k])
              /\ \A k, l \in DOMAIN p.desc[s].in :
                   p.desc[s].in[k] = p.desc[s].in[l] => kernel.in[k] = kernel.in[l]
    /\ \A field \in DOMAIN CastOp : \A k \in DOMAIN Registered[p.build][CastOp[field]] :
         ConvertsOnly(field, Registered[p.build][CastOp[field]][k])

-----------------------------------------------------------------------------
(* static_kernel_pick_pass.  The candidates are the kernels of the highest *)
(* score; an operator of an int8 model has one with int8 outputs and one   *)
(* with float outputs.                                                     *)

Readers(s) == UNION {Consumers(n) : n \in outlinks[s]}

\* Mutant: one reader that wants int8 is enough.
WritesInt8_anyReader(s) == \E t \in Readers(s) : program.desc[t].int8

WritesInt8(s) == \A t \in Readers(s) : program.desc[t].int8

Pickable(s) ==
  {k \in program.desc[s].kernels : program.desc[s].int8 =>
     \A o \in DOMAIN k.out : k.out[o].precision = IF WritesInt8(s) THEN "int8" ELSE "float"}

StaticKernelPick ==
  /\ Running /\ Pass = "static_kernel_pick"
  /\ \/ /\ \E s \in Stmts : Pickable(s) = {}
        /\ failed' = TRUE
        /\ UNCHANGED <<step, stmt>>
     \/ /\ \E picked \in [Stmts -> UNION {Pickable(s) : s \in Stmts}] :
             /\ \A s \in Stmts : picked[s] \in Pickable(s)
             /\ stmt' = [s \in Stmts |-> [stmt[s] EXCEPT !.kernel = picked[s]]]
        /\ NextPass /\ UNCHANGED failed
  /\ UNCHANGED <<graphVars, arg, linked, cur, last, todo>>

-----------------------------------------------------------------------------
(* variable_place_inference_pass: in topological order, every argument     *)
(* that has no type yet gets the one the kernel declares.                  *)

SlotOf(names, x) == CHOOSE k \in DOMAIN names : names[k] = x /\ \A l \in 1..(k - 1) : names[l] # x

TopologicalOrders ==
  {order \in SetToSeqs(Stmts) :
     \A k \in DOMAIN order : AdjList[order[k]] \subseteq {order[l] : l \in 1..(k - 1)}}

Touches(s) == inlinks[s] \cup outlinks[s]

\* SetWeightType
WeightType(decl) ==
  [target |-> "host", precision |-> IF OnFpga THEN "float" ELSE decl.precision, layout |-> "nchw"]

\* The type an argument has at the statement s.
Declared(s, n) ==
  LET decl == IF n \in inlinks[s] THEN stmt[s].kernel.in[SlotOf(stmt[s].in, n[1])]
              ELSE stmt[s].kernel.out[SlotOf(stmt[s].out, n[1])]
  IN  IF IsWeight(n) THEN WeightType(decl) ELSE decl

\* The first statement of the order that names the node and takes part.
FirstAt(order, n) ==
  LET at == {k \in DOMAIN order : n \in Touches(order[k]) /\ stmt[order[k]].op # "io_copy"}
  IN  order[CHOOSE k \in at : \A l \in at : k <= l]

Inferred(order) ==
  [n \in DOMAIN arg |-> IF arg[n].type = Untyped
                        THEN [arg[n] EXCEPT !.type = Declared(FirstAt(order, n), n)] ELSE arg[n]]

\* A null kernel that is asked for its types ends the process.
VariablePlaceInference ==
  /\ Running /\ Pass = "variable_place_inference"
  /\ IF \E s \in Stmts : stmt[s].op # "io_copy" /\ stmt[s].kernel = NoKernel
     THEN failed' = TRUE /\ UNCHANGED <<step, arg>>
     ELSE /\ IF \E n \in DOMAIN arg : arg[n].type = Untyped
             THEN \E order \in TopologicalOrders : arg' = Inferred(order)
             ELSE UNCHANGED arg
          /\ NextPass /\ UNCHANGED failed
  /\ UNCHANGED <<graphVars, stmt, linked, cur, last, todo>>

-----------------------------------------------------------------------------
(* The cast passes                                                         *)

BeginCast ==
  /\ Running /\ Pass \in DOMAIN CastOp /\ last = 0
  /\ last' = Cardinality(Stmts) /\ cur' = 1 /\ todo' = inlinks[1]
  /\ UNCHANGED <<graphVars, step, failed, stmt, arg, linked>>

NextStmt ==
  /\ Running /\ last > 0 /\ todo = {} /\ cur < last
  /\ cur' = cur + 1 /\ todo' = inlinks[cur + 1]
  /\ UNCHANGED <<graphVars, step, failed, stmt, arg, linked, last>>

EndCast ==
  /\ Running /\ last > 0 /\ todo = {} /\ cur = last
  /\ last' = 0 /\ cur' = 0
  /\ NextPass
  /\ UNCHANGED <<graphVars, failed, stmt, arg, linked, todo>>

Wanted(n) == stmt[cur].kernel.in[SlotOf(stmt[cur].in, n[1])]

\* Mutant: the test for weights that precision_cast_pass has commented out.
Agrees_weights(n) == IsWeight(n) \/ Fits(Pass, arg[n].type, Wanted(n))

Agrees(n) == Fits(Pass, arg[n].type, Wanted(n))

\* The links of a statement are distinct, so that no input the loop comes to is
\* out of date.
KeepInput(n) ==
  /\ Agrees(n)
  /\ todo' = todo \ {n}
  /\ UNCHANGED <<graphVars, step, failed, stmt, arg, linked, cur, last>>

\* Mutant: a kernel is chosen by what it writes.
Chosen_output(n) ==
  {k \in DOMAIN Registry[CastOp[Pass]] : Registry[CastOp[Pass]][k].out[1][Pass] = Wanted(n)[Pass]}

Chosen(n) ==
  {k \in DOMAIN Registry[CastOp[Pass]] :
     LET kernel == Registry[CastOp[Pass]][k] IN
       /\ TypeCompatible(kernel.in[1], arg[n].type)
       /\ kernel.out[1][Pass] = Wanted(n)[Pass]}

\* The kernel the new statement holds after kernel k was moved to
\* selected_kernels: two passes hand over selected_kernels, type_layout_cast_pass
\* hands over what k was moved out of.
Handed(k) ==
  LET kernels == Registry[CastOp[Pass]]
  IN  IF Pass # "layout" THEN kernels[k] ELSE IF k = 1 THEN NoKernel ELSE kernels[1]

\* Mutant: only what is copied from a weight itself is persistent.
Persist_weight(n) == IsWeight(n)
Persist(n) == IsWeight(n) \/ arg[n].is_persist

\* Mutant: the name without the number of nodes.
CastName_plain(n) == <<n[1], 0>>
CastName(n) == <<n[1], Cardinality(Stmts) + Cardinality(DOMAIN arg)>>

\* Mutant: the newest node of the name is copied.
CastFrom_name(n) == IF n[1] \in DOMAIN latest THEN <<n[1], latest[n[1]]>> ELSE n
CastFrom(n) == n

\* Mutant: the first slot that holds the name is renamed.
UpdateInputTo_first(names, from, to) == [names EXCEPT ![SlotOf(names, from)] = to]
UpdateInputTo(names, from, to) == [k \in DOMAIN names |-> IF names[k] = from THEN to ELSE names[k]]

AddCast(n, k) ==
  LET cast == Cardinality(Stmts) + 1
      out == <<CastName(n), 0>>
  IN  /\ stmt' = Assign([stmt EXCEPT ![cur].in = UpdateInputTo(@, n[1], out[1])], cast,
                        [op |-> CastOp[Pass], once |-> Persist(n), in |-> <<n[1]>>,
                         out |-> <<out[1]>>, kernel |-> Handed(k)])
      /\ arg' = Assign(arg, out, [type |-> [arg[n].type EXCEPT ![Pass] = Wanted(n)[Pass]],
                                  is_persist |-> Persist(n)])
      /\ inlinks' = Assign([inlinks EXCEPT ![cur] = (@ \ {n}) \cup {out}], cast, {CastFrom(n)})
      /\ outlinks' = Assign(outlinks, cast, {out})

CastInput(n) ==
  /\ ~Agrees(n)
  /\ \E k \in Chosen(n) : (\A l \in Chosen(n) : k <= l) /\ AddCast(n, k)
  /\ todo' = todo \ {n}
  /\ UNCHANGED <<program, built, latest, step, failed, linked, cur, last>>

\* Mutant: the search for a kernel starts over.
NoCast_retry(n) ==
  /\ ~Agrees(n) /\ Chosen(n) = {}
  /\ UNCHANGED vars

\* CHECK(is_found)
NoCast(n) ==
  /\ ~Agrees(n) /\ Chosen(n) = {}
  /\ failed' = TRUE
  /\ UNCHANGED <<graphVars, step, stmt, arg, linked, cur, last, todo>>

ComplementInput ==
  Running /\ last > 0 /\ \E n \in todo : KeepInput(n) \/ CastInput(n) \/ NoCast(n)

\* io_copy_kernel_pick_pass: the one kernel an io_copy holds has to fit.
IoCopyKernelPick ==
  /\ Running /\ Pass = "io_copy_kernel_pick"
  /\ IF \A s \in Stmts : stmt[s].op = "io_copy" =>
          \A n \in inlinks[s], m \in outlinks[s] :
            /\ TargetCompatible(arg[n].type, stmt[s].kernel.in[1])
            /\ TargetCompatible(arg[m].type, stmt[s].kernel.out[1])
     THEN NextPass /\ UNCHANGED failed
     ELSE failed' = TRUE /\ UNCHANGED step
  /\ UNCHANGED <<graphVars, stmt, arg, linked, cur, last, todo>>

-----------------------------------------------------------------------------
CastInit ==
  /\ GraphInit
  /\ step = 0 /\ failed = FALSE
  /\ stmt = NoEntries /\ arg = NoEntries /\ linked = NoEntries
  /\ cur = 0 /\ last = 0 /\ todo = {}

BuildGraph == step = 0 /\ BuildOp /\ UNCHANGED castVars

RunPasses ==
  /\ step = 0 /\ GraphBuilt
  /\ stmt' = [s \in DOMAIN inlinks |->
                [op |-> program.ops[s].type, once |-> FALSE, in |-> program.desc[s].in,
                 out |-> program.desc[s].out, kernel |-> NoKernel]]
  /\ arg' = [n \in UNION {Touches(s) : s \in DOMAIN inlinks} |->
                [type |-> Untyped, is_persist |-> FALSE]]
  /\ linked' = inlinks
  /\ NextPass
  /\ UNCHANGED <<graphVars, failed, cur, last, todo>>

CastNext ==
  \/ BuildGraph \/ RunPasses
  \/ StaticKernelPick \/ VariablePlaceInference \/ IoCopyKernelPick
  \/ BeginCast \/ NextStmt \/ EndCast \/ ComplementInput

CastSpec == CastInit /\ [][CastNext]_vars /\ WF_vars(CastNext)

-----------------------------------------------------------------------------
(* Conditions on programs.                                                 *)

ReadsWeights(p) == \A s \in DOMAIN p.ops : p.ops[s].out \cap p.weights = {}

\* Only an operator of an int8 model declares int8 for what is no weight; it
\* takes it for all of these inputs, and something wrote them.
Int8Apart(p) ==
  \A s \in DOMAIN p.ops : \A kernel \in p.desc[s].kernels :
    /\ \A k \in DOMAIN p.desc[s].in : p.desc[s].in[k] \notin p.weights =>
         IF p.desc[s].int8
         THEN /\ kernel.in[k].precision \in {"int8", "any"}
              /\ \E t \in 1..(s - 1) : p.desc[s].in[k] \in p.ops[t].out
         ELSE kernel.in[k].precision # "int8"
    /\ ~p.desc[s].int8 => \A k \in DOMAIN p.desc[s].out : kernel.out[k].precision # "int8"

-----------------------------------------------------------------------------
(* Type invariant: statements are numbered as they are created, and the    *)
(* links of each are the arguments its OpDesc names.                       *)
CastTypeOK ==
  /\ step \in 0..(Len(Passes) + 1)
  /\ step > 0 =>
       /\ Stmts = 1..Cardinality(Stmts) /\ Stmts = DOMAIN inlinks /\ Stmts = DOMAIN outlinks
       /\ \A s \in Stmts : /\ {n[1] : n \in inlinks[s]} = ToSet(stmt[s].in)
                           /\ {n[1] : n \in outlinks[s]} = ToSet(stmt[s].out)
                           /\ Touches(s) \subseteq DOMAIN arg
  /\ cur \in 0..last

Feeding(s, k) == CHOOSE n \in inlinks[s] : n[1] = stmt[s].in[k]

(* "Complement the necessary instruction to make data transferring or      *)
(* transformation between different places": after the passes every input  *)
(* has the target, the precision and the layout its kernel declares.       *)
(* (For layout operators see LayoutsConvert.)                              *)
InputsCompatible ==
  Finished => \A s \in Stmts : stmt[s].op # "layout" => \A k \in DOMAIN stmt[s].in :
                TypeCompatible(arg[Feeding(s, k)].type, stmt[s].kernel.in[k])

IsCast(s) == s > built

Converts(s) ==
  /\ stmt[s].kernel # NoKernel
  /\ \A n \in inlinks[s] : TypeCompatible(arg[n].type, stmt[s].kernel.in[1])
  /\ \A n \in outlinks[s] : TypeCompatible(arg[n].type, stmt[s].kernel.out[1])

(* The kernel of an io_copy or a calib does the conversion that the types  *)
(* on both sides announce to its neighbours.                               *)
CastsConvert ==
  step > 0 => \A s \in {t \in Stmts : IsCast(t)} : stmt[s].op # "layout" => Converts(s)

(* "We pick the kernel": a layout operator holds the kernel its pass found *)
(* for the layouts on both sides.                                          *)
LayoutsConvert ==
  step > 0 => \A s \in Stmts : stmt[s].op = "layout" => Converts(s)

CastSource(n) ==
  IF \E s \in Producers(n) : IsCast(s)
  THEN CHOOSE m \in UNION {inlinks[s] : s \in Producers(n)} : TRUE ELSE n

\* At most one cast of each of the three passes stands before an input.
Source(n) == CastSource(CastSource(CastSource(n)))

(* Behind its casts an operator still reads the versions the graph had     *)
(* linked it to.                                                           *)
SourcesKept ==
  step > 0 => \A s \in 1..built : {Source(n) : n \in inlinks[s]} = linked[s]

(* "The argument between them should be persist to make sure it's only run *)
(* once": a cast runs once exactly when what it copies comes from a weight *)
(* that no operator writes.                                                *)
OnceFromWeights ==
  step > 0 => \A s \in {t \in Stmts : IsCast(t)} : \A n \in inlinks[s] :
    stmt[s].once <=> IsWeight(Source(n)) /\ Producers(Source(n)) = {}

(* Every cast writes a variable of its own: the variables are found by     *)
(* name in one scope.                                                      *)
CastNamesUnique ==
  step > 0 => \A s \in {t \in Stmts : IsCast(t)} : \A t \in Stmts \ {s} :
    ToSet(stmt[s].out) \cap ToSet(stmt[t].out) = {}

(* An operator of an int8 model writes int8 only where every reader takes  *)
(* it, so that no calib undoes a quantisation: what it is given is int8    *)
(* only when it is a weight, which has the type its first reader declares. *)
NeverDequantizes ==
  step > 0 => \A s \in Stmts : stmt[s].op = "calib" =>
    \A n \in inlinks[s] : arg[n].type.precision = "int8" => IsWeight(Source(n))

(* The passes end, in a finished graph or with a failed CHECK.             *)
PassesEnd == <>(Finished \/ failed)
=============================================================================

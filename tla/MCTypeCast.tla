----------------------------- MODULE MCTypeCast -----------------------------
(* Programs to give kernels and types to.                                  *)
EXTENDS TypeCast

CONSTANTS feed, fetch, a, b, c, d, w

T(target, precision, layout) == [target |-> target, precision |-> precision, layout |-> layout]
K(in, out) == [in |-> <<in, in>>, out |-> <<out>>]

HostAny == T("host", "any", "any")
HostFloat == T("host", "float", "nchw")
ArmFloat == T("arm", "float", "nchw")
ArmInt8 == T("arm", "int8", "nchw")
ClFloat == T("opencl", "float", "nchw")
FpgaFp16(layout) == T("fpga", "fp16", layout)
FpgaFloat(layout) == T("fpga", "float", layout)

\* Kinds of operators, with their kernels of the highest score.
Kind == [feed |-> {K(HostFloat, HostFloat)}, fetch |-> {K(HostAny, HostAny)},
         reshape |-> {K(HostAny, HostAny)},
         arm |-> {K(ArmFloat, ArmFloat)},
         opencl |-> {K(ClFloat, ClFloat)},
         tie |-> {K(ArmFloat, ArmFloat), K(ClFloat, ClFloat)},
         int8 |-> {K(ArmInt8, ArmInt8), K(ArmInt8, ArmFloat)},
         int8only |-> {K(ArmInt8, ArmInt8)},
         fpga |-> {K(FpgaFp16("nhwc"), FpgaFp16("nhwc"))}]

Op(kind, in, out) == [kind |-> kind, in |-> in, out |-> out]

Prog(build, ops) ==
  [build |-> build,
   ops |-> [k \in DOMAIN ops |-> [type |-> ops[k].kind, in |-> ToSet(ops[k].in),
                                  out |-> ToSet(ops[k].out), target |-> "any"]],
   weights |-> {w},
   desc |-> [k \in DOMAIN ops |->
               [in |-> ops[k].in, out |-> ops[k].out, int8 |-> ops[k].kind \in {"int8", "int8only"},
                kernels |-> {[in |-> [l \in DOMAIN ops[k].in |-> kernel.in[1]], out |-> kernel.out] :
                               kernel \in Kind[ops[k].kind]}]]]

Between(build, ops, result) ==
  Prog(build, <<Op("feed", <<feed>>, <<a>>)>> \o ops \o <<Op("fetch", <<result>>, <<fetch>>)>>)

\* Three operators: the first may read the weight, the second may read one
\* variable twice or overwrite its input, the third may read past the second.
\* Every output is read.  There is no int8only kernel for a float reader and no
\* io_copy for an fpga operator.
Ends == {<<b, <<b>>>>, <<b, <<b, w>>>>, <<c, <<c>>>>, <<c, <<a, c>>>>, <<c, <<b, c>>>>}
Ops == {<<Op(k1, i1, <<b>>), Op(k2, i2, <<end[1]>>), Op(k3, end[2], <<d>>)>> :
          k1 \in {"arm", "tie", "int8", "int8only"}, i1 \in {<<a>>, <<a, w>>},
          k2 \in {"opencl", "tie", "int8", "reshape"}, i2 \in {<<b>>, <<b, b>>, <<a, b>>},
          end \in Ends, k3 \in {"arm", "opencl", "tie", "int8"}}
CastPrograms ==
  {Between("arm", ops, d) : ops \in Ops} \cup {Between("arm", <<Op("fpga", <<a>>, <<b>>)>>, b)}

\* One or two FPGA operators, which may overwrite what was fed.
FpgaPrograms ==
  {Between("fpga", <<Op("fpga", i, <<o>>)>>, o) : i \in {<<a>>, <<a, w>>}, o \in {a, b}} \cup
  {Between("fpga", <<Op("fpga", i, <<o>>), Op("fpga", j, <<c>>)>>, c) :
     i \in {<<a>>, <<a, w>>}, o \in {a, b}, j \in {<<a>>, <<a, w>>}}

\* The kernels of kernels/arm and kernels/opencl.
ArmOpenCLRegistry ==
  [io_copy |-> <<K(HostFloat, ClFloat), K(ClFloat, HostFloat)>>,
   calib |-> <<K(ArmFloat, ArmInt8), K(ArmInt8, ArmFloat)>>,
   layout |-> <<>>]

\* The kernels of kernels/fpga.
FpgaRegistry ==
  [io_copy |-> <<K(HostFloat, FpgaFloat("nchw")), K(FpgaFp16("nhwc"), HostAny)>>,
   calib |-> <<K(FpgaFloat("nchw"), FpgaFp16("nchw")), K(FpgaFp16("nhwc"), FpgaFloat("nhwc"))>>,
   layout |-> <<K(FpgaFp16("nhwc"), FpgaFp16("nchw")), K(FpgaFp16("nchw"), FpgaFp16("nhwc"))>>]

MCRegistered == [arm |-> ArmOpenCLRegistry, fpga |-> FpgaRegistry]
SoundPrograms == CastPrograms \cup FpgaPrograms
ASSUME WeightAssumption == \A p \in SoundPrograms : ReadsWeights(p) /\ Int8Apart(p)

MCName == {feed, fetch, a, b, c, d, w}
MCOpType == DOMAIN Kind
=============================================================================

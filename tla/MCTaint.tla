------------------------------ MODULE MCTaint -------------------------------
(* Methods of three instructions ahead of a sink: a local and two parameters. *)
EXTENDS Taint

MCRegisters == {"v0", "p1", "p2"}
MCCallees == {"source", "sink", "other"}

OneReg(op, a) == [op |-> op, a |-> a]
TwoRegs(op, a, b) == [op |-> op, a |-> a, b |-> b]
CallOf(callee, args, direct) ==
    [op |-> "invoke", callee |-> callee, args |-> args, direct |-> direct]

Menu ==
    {OneReg("clear", a) : a \in {"v0", "p2"}}
      \cup {OneReg("move-result", a) : a \in {"v0", "p1"}}
      \cup {TwoRegs(op, a, b) : op \in {"copy", "aput"}, a \in {"v0", "p2"}, b \in {"v0", "p1"}}
      \cup {TwoRegs("iput", "p2", "v0"), OneReg("sput", "p2")}
      \cup {[op |-> "union", a |-> "v0", b |-> "v0", c |-> c] : c \in {"p1", "p2"}}
      \cup {CallOf("source", <<>>, FALSE), CallOf("sink", <<"p1", "p2">>, FALSE),
            CallOf("other", <<"v0", "p2">>, TRUE), CallOf("other", <<"p2">>, FALSE)}
      \cup {OneReg("new-array", "v0"), [op |-> "filled-new-array", args |-> <<"p2">>]}
      \cup {[op |-> "if", to |-> t] : t \in {4, 5}}
      \cup {[op |-> "goto", to |-> 4], OneReg("return", "p2")}

MethodOf(i, j, k) ==
    [code |-> <<i, j, k, CallOf("sink", <<"v0">>, FALSE), OneReg("return", "p1")>>,
     params |-> <<"p1", "p2">>]

\* A move-result follows the invoke that it belongs to.
MayFollow(i, j) == j.op = "move-result" => i.op \in {"invoke", "filled-new-array"}

MCTaintMethods ==
    {MethodOf(t[1], t[2], t[3]) :
        t \in {u \in Menu \X Menu \X Menu :
                 u[1].op # "move-result" /\ MayFollow(u[1], u[2]) /\ MayFollow(u[2], u[3])}}

\* Those that make no array.
ScalarMethods ==
    {m \in MCTaintMethods : \A i \in DOMAIN m.code : m.code[i].op \notin ArrayOps}

NoOverrides == [c \in MCCallees \cup {"self"} |-> <<>>]
Override(kind, index) == [kind |-> kind, index |-> index]
NoOverrideMaps == {NoOverrides}
MCOverrideMaps ==
    {NoOverrides,
     [NoOverrides EXCEPT !["source"] = <<Override("ReturnTainted", 0), Override("ReturnClean", 0)>>,
                         !["other"] = <<Override("ReturnTainted", 0)>>,
                         !["self"] = <<Override("ParamClean", 1), Override("ParamTainted", 1),
                                       Override("ParamClean", 2)>>],
     [NoOverrides EXCEPT !["other"] = <<Override("ConstantValue", 0)>>]}
=============================================================================

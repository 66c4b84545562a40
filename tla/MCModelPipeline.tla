---------------------------- MODULE MCModelPipeline ---------------------------
(* Graphs of three nodes over an input, a bias, a weight and two constants  *)
(* of other shapes, in any order in the file; one rich model in every style *)
(* and with every fault; models that are not legal.                         *)
EXTENDS ModelPipeline

N(text) == Written(text)
F32(shape) == [shape |-> shape, dtype |-> "float32"]
Data(name, shape, elements) == [name |-> N(name), spec |-> F32(shape), content |-> DataTerm(elements)]
Node(op, inputs, output, attributes) ==
    [op_type |-> op, inputs |-> [i \in DOMAIN inputs |-> N(inputs[i])], outputs |-> <<N(output)>>,
     domain |-> "", attributes |-> attributes]
Plain(op, inputs, output) == Node(op, inputs, output, << >>)

Constants == <<Data("w", <<2, 2>>, <<1, 2, 3, 4>>), Data("b", <<2>>, <<5, 6>>),
               Data("t", <<2, 2>>, <<1, 0, 0, 1>>), Data("u", <<1>>, <<7>>)>>
Inputs == <<[name |-> N("x"), spec |-> F32(<<1, 2>>)]>>

\* The file of some nodes; the specs of the outputs are what they really are.
Model(opset, constants, nodes, outputs) ==
    LET bare == [opset |-> opset, graph |-> [nodes |-> nodes, initializers |-> constants,
                                             inputs |-> Inputs, outputs |-> <<>>]]
        spec(o) == IF N(o) \notin Defined(bare, Initial(bare)) \/ SpecOf(bare, N(o)) = {} THEN F32(<<1>>)
                   ELSE CHOOSE s \in SpecOf(bare, N(o)) : TRUE
    IN  [bare EXCEPT !.graph.outputs = [i \in DOMAIN outputs |->
                                          [name |-> N(outputs[i]), spec |-> spec(outputs[i])]]]

PlainStyle == [packed |-> FALSE, raw |-> FALSE, descending |-> FALSE, foreign |-> FALSE, fault |-> "none"]

First  == {Plain("MatMul", <<"x", "w">>, "p"), Plain("MatMul", <<"w", "t">>, "p"),
           Node("Gemm", <<"x", "w", "b">>, "p", [transB |-> <<"i", 1>>]),
           Plain("Gemm", <<"x", "w">>, "p")}
Second == {Plain("Add", <<"p", "b">>, "q"), Plain("Add", <<"b", "p">>, "q"),
           Plain("Add", <<"p", "t">>, "q"), Plain("Add", <<"p", "p">>, "q"),
           Plain("Relu", <<"p">>, "q"), Plain("MatMul", <<"p", "w">>, "q"),
           Plain("Sub", <<"w", "u">>, "q")}
Third  == {Plain("Relu", <<"q">>, "r"), Plain("Relu", <<"p">>, "r"), Plain("Add", <<"q", "p">>, "r"),
           Plain("Add", <<"q", "b">>, "r"), Plain("Gemm", <<"p", "w", "q">>, "r"),
           Plain("MatMul", <<"t", "q">>, "r")}
Chains == {<<a, b, c>> : a \in First, b \in Second, c \in Third}

Graphs3 == {Model(13, Constants, nodes, outputs)
              : nodes \in Chains, outputs \in {<<"r">>, <<"q", "t">>}}
           \cup {Model(13, Constants, Reverse(nodes), outputs)
                   : nodes \in Chains, outputs \in {<<"r", "p">>, <<"x", "q", "r">>}}

\* Every operator ONNX and the backend share, at the opsets about their first.
OnX(op, attributes) == Node(op, <<"x">>, "y", attributes)
Others ==
    {Model(opset, Constants, <<node>>, <<"y">>)
       : opset \in {12, 13, 17, 20},
         node \in {Plain("Tanh", <<"x">>, "y"), OnX("Softmax", << >>), OnX("Softmax", [axis |-> <<"i", 2>>]),
                   OnX("Gelu", << >>), OnX("Gelu", [approximate |-> <<"s", "tanh">>]),
                   OnX("Gelu", [approximate |-> <<"s", "erf">>]), Plain("Mul", <<"x", "b">>, "y"),
                   Node("LayerNormalization", <<"x", "b">>, "y", [axis |-> <<"i", -1>>, stash_type |-> <<"i", 1>>]),
                   Node("LayerNormalization", <<"x", "b">>, "y", [axis |-> <<"i", 0>>]),
                   Node("Softmax", <<"x">>, "y", [axes |-> <<"is", <<0, 1>> >>]),
                   Plain("Conv", <<"x">>, "y"), [Plain("Relu", <<"x">>, "y") EXCEPT !.domain = "ai.onnx"],
                   [Plain("Relu", <<"x">>, "y") EXCEPT !.domain = "com.microsoft"]}}

\* Graphs that are not legal: a cycle, a name twice, no input, no output.
Broken ==
    {Model(13, Constants, nodes, <<"q">>)
       : nodes \in {<<Plain("Relu", <<"q">>, "p"), Plain("Relu", <<"p">>, "q")>>,
                    <<Plain("Relu", <<"x">>, "q"), Plain("Tanh", <<"x">>, "q")>>,
                    <<Plain("Relu", <<"x">>, "w"), Plain("Tanh", <<"x">>, "q")>>,
                    <<Plain("Relu", <<"z">>, "q")>>,
                    <<Plain("LayerNormalization", <<"x", "b", "">>, "q")>>,
                    <<[Plain("Relu", <<"x">>, "q") EXCEPT !.outputs = <<N("q"), N("s")>>]>>,
                    <<Plain("MatMul", <<"b", "w">>, "q")>>}}
    \cup {Model(13, Constants \o <<Constants[1]>>, <<Plain("Relu", <<"x">>, "q")>>, <<"q">>),
          Model(13, Constants, <<Plain("Relu", <<"x">>, "q")>>, <<>>),
          Model(13, Constants, <<Plain("Relu", <<"x">>, "q")>>, <<"q", "q">>)}

\* A constant named like the importer's own nodes, constants of every type.
Rich ==
    LET own(bars) == [NoName EXCEPT !.node = 1, !.bars = bars]
        typed(name, dtype, elements) ==
            [name |-> name, spec |-> [shape |-> <<Len(elements)>>, dtype |-> dtype],
             content |-> DataTerm(elements)]
        constants == Constants \o <<typed(own(0), "int8", <<-1, 2, -128>>), typed(own(1), "int32", <<-70000, 1>>),
                                    typed(N("h"), "float16", <<65535, 258>>), typed(N("none"), "float32", <<>>)>>
        m == Model(20, constants, <<Plain("Relu", <<"p">>, "q"),
                                    Node("Gemm", <<"x", "w", "b">>, "p", [alpha |-> <<"f", 2>>, transB |-> <<"i", 1>>]),
                                    Node("Gelu", <<"q">>, "r", [approximate |-> <<"s", "tanh">>])>>, <<"r", "q">>)
    IN  [m EXCEPT !.graph.inputs = @ \o <<[name |-> N("w"), spec |-> F32(<<2, 2>>)]>>]

MCFiles ==
    [model : Graphs3 \cup Others \cup Broken, style : {PlainStyle}]
    \cup [model : {Rich}, style : [packed : BOOLEAN, raw : BOOLEAN, descending : BOOLEAN,
                                   foreign : BOOLEAN, fault : Faults]]
==============================================================================

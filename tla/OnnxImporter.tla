----------------------------- MODULE OnnxImporter -----------------------------
(***************************************************************************)
(* The translation of ONNX operators (src/src/model/onnx/                  *)
(* operator_registry.cpp) and the import of a parsed model into a graph    *)
(* (onnx_importer.cpp): initializers and inputs first, then the nodes in   *)
(* rounds, each when its inputs are known, then the outputs.  An import is *)
(* [graph, symbols, inputs, imported]; a step that throws gives no result. *)
(***************************************************************************)
EXTENDS GraphOptimizer

\* The operator of each ONNX operator, and the opset it is known from.
Translators ==
    ("Add" :> <<"Add", 13>>) @@ ("Sub" :> <<"Subtract", 13>>) @@ ("Mul" :> <<"Multiply", 13>>)
    @@ ("MatMul" :> <<"MatMul", 13>>) @@ ("Gemm" :> <<"Gemm", 13>>) @@ ("Relu" :> <<"ReLU", 13>>)
    @@ ("Tanh" :> <<"Tanh", 13>>) @@ ("Softmax" :> <<"Softmax", 13>>)
    @@ ("LayerNormalization" :> <<"LayerNorm", 17>>) @@ ("Gelu" :> <<"GELU", 20>>)

\* Mutant: an absent Gelu attribute is left to the kernel.
DirectGelu(attributes) == {attributes}

\* ONNX takes the exact Gelu where nothing is said; the kernel would not.
TranslateGelu(attributes) ==
    Only(attributes @@ [approximate |-> <<"s", "none">>],
         "approximate" \in DOMAIN attributes =>
            attributes["approximate"] \in {<<"s", "none">>, <<"s", "tanh">>})

\* Only the last axis and the default stash type, which the kernel implies.
TranslateLayerNorm(node) ==
    LET implied == [axis |-> <<"i", -1>>, stash_type |-> <<"i", 1>>]
    IN  Only(Without(node.attributes, DOMAIN implied),
             /\ Len(node.inputs) \in 2 .. 3
             /\ \A a \in DOMAIN implied \cap DOMAIN node.attributes : node.attributes[a] = implied[a])

Translate(node, opset) ==
    LET attributes == CASE node.op_type = "Gelu"               -> TranslateGelu(node.attributes)
                        [] node.op_type = "LayerNormalization" -> TranslateLayerNorm(node)
                        [] OTHER                               -> {node.attributes}
    IN  IF node.op_type \in DOMAIN Translators /\ opset >= Translators[node.op_type][2]
        THEN {[op |-> Translators[node.op_type][1], attributes |-> a] : a \in attributes} ELSE {}

------------------------------------------------------------------------------
\* The initializers are the first constants.
ImportInitializer(s, initializer) ==
    {[s EXCEPT !.graph = g, !.symbols = With(@, initializer.name, NextValue(s.graph))]
        : g \in {x \in AddConstant(s.graph, initializer.name, initializer.spec, initializer.content) :
                   initializer.name \notin DOMAIN s.symbols}}

\* An input with the name of an initializer only repeats its spec.
ImportInput(s, input) ==
    IF input.name \in DOMAIN s.symbols /\ IsConstant(s.graph, s.symbols[input.name])
    THEN Only(s, s.graph.values[s.symbols[input.name]].spec = input.spec)
    ELSE {[s EXCEPT !.graph = g, !.symbols = With(@, input.name, NextValue(s.graph)),
                    !.inputs = Append(@, [name |-> input.name, value |-> NextValue(s.graph)])]
            : g \in {x \in AddInput(s.graph, input.name, input.spec) :
                       input.name \notin DOMAIN s.symbols}}

\* node_name: underscores until no initializer and no input has the name.
NodeName(index, reserved) ==
    LET name(bars) == [NoName EXCEPT !.node = index, !.bars = bars]
    IN  name(Min({k \in 0 .. Cardinality(reserved) : name(k) \notin reserved}))

\* One node of a round: done, not ready yet, or imported now.  reserved holds
\* the names of the initializers and the inputs.
ImportNode(s, index, node, opset) ==
    LET reserved == {s.graph.values[v].name : v \in {u \in ValueIds(s.graph) :
                                                        s.graph.values[u].kind # "intermediate"}}
        ready == Range(node.inputs) \subseteq DOMAIN s.symbols
        add(t) == AddNode(s.graph, NodeName(index, reserved), t.op,
                          [i \in DOMAIN node.inputs |-> s.symbols[node.inputs[i]]], t.attributes)
    IN  IF index \in s.imported THEN {s}
        ELSE IF node.domain \notin {"", "ai.onnx"} THEN {}
        ELSE IF ~ready THEN {s}
        ELSE IF \/ Len(node.outputs) # 1
                \/ node.outputs[1] = NoName \/ node.outputs[1] \in DOMAIN s.symbols THEN {}
        ELSE {[s EXCEPT !.graph = g, !.imported = @ \cup {index},
                        !.symbols = With(@, node.outputs[1], Len(g.values))]
                : g \in UNION {add(t) : t \in Translate(node, opset)}}

\* Rounds over the nodes; one that imports nothing ends them.
ImportNodes(s, nodes, opset) ==
    LET node(x, i) == ImportNode(x, i, nodes[i], opset)
        round(x, r) == Each(node, {x}, [i \in DOMAIN nodes |-> i])
    IN  {x \in Each(round, {s}, nodes) : x.imported = DOMAIN nodes}

\* An output is a known value with the spec the file gives it.
ImportOutput(s, output) ==
    IF output.name \in DOMAIN s.symbols
    THEN {[s EXCEPT !.graph = g, !.outputs = Append(@, [name |-> output.name,
                                                        value |-> s.symbols[output.name]])]
            : g \in {x \in MarkOutput(s.graph, s.symbols[output.name]) :
                       s.graph.values[s.symbols[output.name]].spec = output.spec}}
    ELSE {}

\* import_model
ImportModel(proto) ==
    LET empty == [graph |-> EmptyGraph, symbols |-> << >>, imported |-> {},
                  inputs |-> <<>>, outputs |-> <<>>]
        constants == Each(ImportInitializer, {empty}, proto.graph.initializers)
        inputs    == Bind(constants, LAMBDA s : Each(ImportInput, {s}, proto.graph.inputs))
        nodes     == Bind(inputs, LAMBDA s : ImportNodes(s, proto.graph.nodes, proto.opset))
        outputs   == Bind(nodes, LAMBDA s : Each(ImportOutput, {s}, proto.graph.outputs))
    IN  IF proto.opset < 13 THEN {}
        ELSE Bind(outputs, LAMBDA s : ModelOf(s.graph, s.inputs, s.outputs))

==============================================================================

------------------------------ MODULE ModelGraph ------------------------------
(***************************************************************************)
(* A graph of operators (src/src/graph/graph.cpp), its analysis            *)
(* (graph_analysis.cpp), the model that names its interface                *)
(* (src/src/model/model.cpp) and what a graph computes, as a symbolic      *)
(* term.  Values and nodes are numbered from 1; 0 is no value and no node. *)
(***************************************************************************)
EXTENDS OperatorSchema

None == 0

\* A name is what the user wrote, or derived from it: the number of an ONNX
\* node and the underscores that set it apart, an output of a node.
NoName == [text |-> "", node |-> None, bars |-> 0, output |-> None]
Written(text) == [NoName EXCEPT !.text = text]
OutputName(name) == [name EXCEPT !.output = 1]

------------------------------------------------------------------------------
\* Building a graph.

EmptyGraph == [values |-> <<>>, nodes |-> <<>>, inputs |-> <<>>, outputs |-> <<>>]

ValueIds(g) == DOMAIN g.values
NodeIds(g)  == DOMAIN g.nodes
NextValue(g) == Len(g.values) + 1
IsConstant(g, v) == g.values[v].kind = "constant"

\* require_unique_name: values and nodes share one name space.
FreshName(g, name) ==
    /\ name # NoName
    /\ \A v \in ValueIds(g) : g.values[v].name # name
    /\ \A n \in NodeIds(g) : g.nodes[n].name # name

\* A value, its content when it is a constant, and the node it comes from.
Value(name, spec, kind, content, producer) ==
    [name |-> name, spec |-> spec, kind |-> kind, content |-> content, producer |-> producer]

AddInput(g, name, spec) ==
    Only([g EXCEPT !.values = Append(@, Value(name, spec, "input", <<>>, None)),
                   !.inputs = Append(@, NextValue(g))],
         FreshName(g, name) /\ ValidSpec(spec))

AddConstant(g, name, spec, content) ==
    Only([g EXCEPT !.values = Append(@, Value(name, spec, "constant", content, None))],
         FreshName(g, name) /\ ValidSpec(spec))

\* The node is numbered next, and so is its one output.
AddNode(g, name, op, inputs, attributes) ==
    IF FreshName(g, name) /\ \A i \in DOMAIN inputs : inputs[i] \in ValueIds(g)
    THEN {[g EXCEPT
            !.values = Append(@, Value(OutputName(name), spec, "intermediate", <<>>,
                                       Len(g.nodes) + 1)),
            !.nodes  = Append(@, [name |-> name, op |-> op, inputs |-> inputs,
                                  output |-> NextValue(g), attributes |-> attributes])]
            : spec \in {s \in InferOutputSpecs(op, [i \in DOMAIN inputs |-> g.values[inputs[i]].spec],
                                               attributes)
                          : ValidSpec(s) /\ FreshName(g, OutputName(name))}}
    ELSE {}

MarkOutput(g, v) ==
    Only([g EXCEPT !.outputs = Append(@, v)], v \in ValueIds(g) /\ ~Contains(g.outputs, v))

------------------------------------------------------------------------------
\* Validation and order.

\* The nodes whose outputs a node reads.
Dependencies(g, n) ==
    {g.values[v].producer : v \in Range(g.nodes[n].inputs)} \ {None}

\* What topological_order checks before it sorts.
Consistent(g) ==
    /\ g.outputs # <<>>
    /\ IsInjective(g.inputs) /\ Range(g.inputs) \subseteq ValueIds(g)
    /\ IsInjective(g.outputs) /\ Range(g.outputs) \subseteq ValueIds(g)
    /\ \A v \in ValueIds(g) :
          /\ ValidSpec(g.values[v].spec)
          /\ (g.values[v].kind = "input") = (v \in Range(g.inputs))
          /\ (g.values[v].kind = "intermediate") =
                (\E n \in NodeIds(g) : g.nodes[n].output = v /\ g.values[v].producer = n)
          /\ (g.values[v].kind = "constant") = (g.values[v].content # <<>>)
    /\ IsInjective([v \in ValueIds(g) |-> g.values[v].name] \o [n \in NodeIds(g) |-> g.nodes[n].name])
    /\ \A n \in NodeIds(g) :
          /\ Range(g.nodes[n].inputs) \subseteq ValueIds(g)
          /\ {g.values[g.nodes[n].output].spec} =
                InferOutputSpecs(g.nodes[n].op,
                    [i \in DOMAIN g.nodes[n].inputs |-> g.values[g.nodes[n].inputs[i]].spec],
                    g.nodes[n].attributes)
    /\ IsInjective([n \in NodeIds(g) |-> g.nodes[n].output])

\* topological_order: of the nodes whose dependencies are in, the least next.
TopologicalOrder(g) ==
    LET ready(done) == {n \in NodeIds(g) \ Range(done) : Dependencies(g, n) \subseteq Range(done)}
        order == FoldLeft(LAMBDA done, n : IF ready(done) = {} THEN done
                                           ELSE Append(done, Min(ready(done))),
                          <<>>, g.nodes)
    IN  Only(order, Consistent(g) /\ Len(order) = Len(g.nodes))

\* GraphAnalysis: how often a value is read, and by which nodes.
UseCount(g, v) ==
    FoldLeft(LAMBDA uses, n : uses + Len(SelectSeq(n.inputs, LAMBDA i : i = v)),
             0, g.nodes)
Consumers(g, v) == {n \in NodeIds(g) : v \in Range(g.nodes[n].inputs)}
IsGraphOutput(g, v) == v \in Range(g.outputs)

------------------------------------------------------------------------------
\* Models.

\* Model(graph, inputs, outputs): each name stands for one value of the interface.
ModelOf(g, inputs, outputs) ==
    LET names(bound)  == [i \in DOMAIN bound |-> bound[i].name]
        values(bound) == [i \in DOMAIN bound |-> bound[i].value]
        covers(bound, ids) ==
            /\ IsInjective(names(bound)) /\ NoName \notin Range(names(bound))
            /\ Len(bound) = Len(ids)
            /\ IsInjective(values(bound)) /\ Range(values(bound)) \subseteq Range(ids)
    IN  Only([graph |-> g, inputs |-> inputs, outputs |-> outputs],
             /\ TopologicalOrder(g) # {}
             /\ covers(inputs, g.inputs) /\ covers(outputs, g.outputs))

------------------------------------------------------------------------------
\* Meaning.  A term is a pair of an operator and its arguments: equal terms
\* are equal numbers, whatever the inputs.  Content of a constant is a term.

InputTerm(name) == <<"input", name>>
DataTerm(elements) == <<"data", elements>>

\* The attributes an operator has by default, and the term of an application:
\* alpha * A * B + beta * C is, with every factor 1, a product and a sum, and
\* the fused operator is the activation of its GEMM.  A sum does not tell its
\* two arguments apart.
Defaults(op) ==
    CASE op = "Gemm"      -> [alpha |-> <<"f", 1>>, beta |-> <<"f", 1>>,
                              transA |-> <<"i", 0>>, transB |-> <<"i", 0>>]
      [] op = "GELU"      -> [approximate |-> <<"s", "tanh">>]
      [] op = "Softmax"   -> [axis |-> <<"i", -1>>]
      [] op = "LayerNorm" -> [epsilon |-> <<"f", 5>>]
      [] OTHER            -> << >>

Sum2(a, b) == <<"Add", {a, b}>>
Application(op, args, attributes) ==
    LET plain  == Without(attributes, {"activation"})
        full   == plain @@ Defaults("Gemm")
        gemm   == IF full = Defaults("Gemm")
                  THEN LET product == <<"MatMul", <<args[1], args[2]>>, << >> >>
                       IN  IF Len(args) = 3 THEN Sum2(product, args[3]) ELSE product
                  ELSE <<"Gemm", args, full>>
    IN  CASE op = "Add"                 -> Sum2(args[1], args[2])
          [] op = "Gemm"                -> gemm
          [] op = "FusedGemmActivation" -> <<"ReLU", <<gemm>>, << >> >>
          [] OTHER                      -> <<op, args, attributes @@ Defaults(op)>>

\* The terms of a graph's values: nodes read values made before them.
Terms(g) ==
    FoldLeft(LAMBDA terms, v :
                Append(terms,
                    CASE v.kind = "input"    -> InputTerm(v.name)
                      [] v.kind = "constant" -> v.content
                      [] OTHER ->
                            LET n == g.nodes[v.producer]
                            IN  Application(n.op, [i \in DOMAIN n.inputs |-> terms[n.inputs[i]]],
                                            n.attributes)),
             <<>>, g.values)

==============================================================================

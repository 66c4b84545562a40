---------------------------- MODULE GraphOptimizer ----------------------------
(***************************************************************************)
(* The passes over a model (src/src/graph/optimizer/): GraphRewriter       *)
(* builds the new graph and keeps where each value of the source went, the *)
(* passes drive it, PassManager checks and composes their mappings.        *)
(* A rewrite is [source, graph, mapping]; mapping[v] = None: v has no      *)
(* counterpart.  A pass gives a set of at most one [model, mapping,        *)
(* changed], empty when it throws.                                         *)
(***************************************************************************)
EXTENDS ModelGraph

\* The operators the CPU backend has kernels for.
CONSTANT CpuOps

\* What f gives for every result so far: it stops where the code throws.
Bind(results, f(_)) == IF results = {} THEN {} ELSE f(CHOOSE x \in results : TRUE)
Each(f(_, _), start, items) ==
    FoldLeft(LAMBDA results, item : Bind(results, LAMBDA x : f(x, item)), start, items)

------------------------------------------------------------------------------
\* GraphRewriter

\* The constructor: the inputs come first.
Rewrite(model) ==
    LET g == model.graph
        input(rw, v) ==
            {[rw EXCEPT !.graph = new, !.mapping[v] = NextValue(rw.graph)]
                : new \in AddInput(rw.graph, g.values[v].name, g.values[v].spec)}
    IN  Each(input, {[source |-> model, graph |-> EmptyGraph,
                      mapping |-> [v \in ValueIds(g) |-> None]]}, g.inputs)

\* copy_value: once, and only a constant has no producer to be copied first.
CopyValue(rw, v) ==
    LET value == rw.source.graph.values[v]
    IN  IF rw.mapping[v] # None THEN {rw}
        ELSE IF value.kind = "constant"
        THEN {[rw EXCEPT !.graph = new, !.mapping[v] = NextValue(rw.graph)]
                : new \in AddConstant(rw.graph, value.name, value.spec, value.content)}
        ELSE {}

\* replace_node: the output keeps its spec, and was not rewritten before.
ReplaceNode(rw, n, op, inputs, attributes) ==
    LET node == rw.source.graph.nodes[n]
        replaced(r) ==
            {[r EXCEPT !.graph = new, !.mapping[node.output] = NextValue(r.graph)]
                : new \in {x \in AddNode(r.graph, node.name, op,
                                         [i \in DOMAIN inputs |-> r.mapping[inputs[i]]], attributes)
                             : Last(x.values).spec = rw.source.graph.values[node.output].spec}}
    IN  IF rw.mapping[node.output] # None THEN {}
        ELSE Bind(Each(CopyValue, {rw}, inputs), replaced)

CopyNode(rw, n) ==
    LET node == rw.source.graph.nodes[n]
    IN  ReplaceNode(rw, n, node.op, node.inputs, node.attributes)

\* replace_with_constant: the constant takes the name of the value.
ReplaceWithConstant(rw, v, content) ==
    LET value == rw.source.graph.values[v]
    IN  IF rw.mapping[v] # None THEN {}
        ELSE {[rw EXCEPT !.graph = new, !.mapping[v] = NextValue(rw.graph)]
                : new \in AddConstant(rw.graph, value.name, value.spec, content)}

\* finish: the interface, in the source's order and under its names.
Finish(rw) ==
    LET mapped(bound) == [i \in DOMAIN bound |->
                            [bound[i] EXCEPT !.value = rw.mapping[bound[i].value]]]
        inputs  == mapped(rw.source.inputs)
        outputs == mapped(rw.source.outputs)
        marked  == Each(LAMBDA g, b : MarkOutput(g, b.value), {rw.graph}, outputs)
    IN  IF \E i \in DOMAIN inputs : inputs[i].value = None THEN {}
        ELSE Bind(marked, LAMBDA g : ModelOf(g, inputs, outputs))

\* What every pass ends with: outputs no node made, then the result.
CopyOutputs(rw) == Each(CopyValue, {rw}, rw.source.graph.outputs)
Result(rewrites, changed) ==
    Bind(Bind(rewrites, CopyOutputs),
         LAMBDA rw : {[model |-> m, mapping |-> rw.mapping, changed |-> changed] : m \in Finish(rw)})

\* A pass that finds nothing to do returns the model itself.
Unchanged(model) ==
    {[model |-> model, mapping |-> [v \in ValueIds(model.graph) |-> v], changed |-> FALSE]}

------------------------------------------------------------------------------
\* Dead code elimination.

\* Mutant: a node is live when anything reads its output.
LiveIfRead(g) == {n \in NodeIds(g) : IsGraphOutput(g, g.nodes[n].output)
                                     \/ Consumers(g, g.nodes[n].output) # {}}

\* The nodes the outputs depend on: nodes read only values made before them.
LiveNodes(g) ==
    FoldRight(LAMBDA node, live :
                 IF \/ IsGraphOutput(g, node.output)
                    \/ Consumers(g, node.output) \cap live # {}
                 THEN live \cup {g.values[node.output].producer} ELSE live,
              g.nodes, {})

DeadCodeElimination(model) ==
    LET g == model.graph
        live == LiveNodes(g)
        copy(rw, n) == IF n \in live THEN CopyNode(rw, n) ELSE {rw}
        rewrites == Bind(TopologicalOrder(g), LAMBDA order : Each(copy, Rewrite(model), order))
    IN  {[r EXCEPT !.changed = \/ Len(r.model.graph.nodes) # Len(g.nodes)
                               \/ Len(r.model.graph.values) # Len(g.values)]
            : r \in Result(rewrites, FALSE)}

------------------------------------------------------------------------------
\* Constant folding.

\* evaluate_constant_node runs the node alone; known holds the content of the
\* constants and of the values folded so far.
ConstantFolding(model) ==
    LET g == model.graph
        known == [v \in ValueIds(g) |-> g.values[v].content]
        fold(s, n) ==
            LET node == g.nodes[n]
                args == [i \in DOMAIN node.inputs |-> s.known[node.inputs[i]]]
                value == Application(node.op, args, node.attributes)
            IN  IF node.op \in CpuOps /\ \A i \in DOMAIN args : args[i] # <<>>
                THEN {[rw |-> rw, known |-> [s.known EXCEPT ![node.output] = value], folded |-> TRUE]
                        : rw \in ReplaceWithConstant(s.rw, node.output, value)}
                ELSE {[s EXCEPT !.rw = rw] : rw \in CopyNode(s.rw, n)}
        start == {[rw |-> rw, known |-> known, folded |-> FALSE] : rw \in Rewrite(model)}
        done  == Bind(TopologicalOrder(g), LAMBDA order : Each(fold, start, order))
    IN  Bind(done, LAMBDA s : Result({s.rw}, s.folded))

------------------------------------------------------------------------------
\* The two passes that fuse a producer into its only reader.

\* Mutant: that it is an output of the graph is forgotten.
ReadOnce(g, v, reader) == UseCount(g, v) = 1 /\ Consumers(g, v) = {reader}

\* The producer's output may go: the reader reads it once, and nobody else does.
OnlyReadBy(g, v, reader) ==
    UseCount(g, v) = 1 /\ ~IsGraphOutput(g, v) /\ Consumers(g, v) = {reader}

\* The fused operator must give the reader's output its spec.
KeepsSpec(g, reader, op, inputs, attributes) ==
    InferOutputSpecs(op, [i \in DOMAIN inputs |-> g.values[inputs[i]].spec], attributes)
        = {g.values[g.nodes[reader].output].spec}

Fusion(producer, op, inputs, attributes) ==
    [producer |-> producer, op |-> op, inputs |-> inputs, attributes |-> attributes]

\* An Add of a product, on either side, and a bias; of two products, neither.
MatMulAdd(g, n) ==
    LET node == g.nodes[n]
        made(i) == g.values[node.inputs[i]].producer
        products == {i \in DOMAIN node.inputs : made(i) # None /\ g.nodes[made(i)].op = "MatMul"}
        fusion(i) == Fusion(made(i), "Gemm", g.nodes[made(i)].inputs \o <<node.inputs[3 - i]>>,
                            Defaults("Gemm"))
    IN  IF node.op # "Add" \/ Cardinality(products) # 1 THEN {}
        ELSE {f \in {fusion(i) : i \in products} :
                 /\ OnlyReadBy(g, g.nodes[f.producer].output, n)
                 /\ KeepsSpec(g, n, f.op, f.inputs, f.attributes)}

\* A ReLU of a GEMM.
GemmReLU(g, n) ==
    LET node == g.nodes[n]
        made == g.values[node.inputs[1]].producer
        fusion == Fusion(made, "FusedGemmActivation", g.nodes[made].inputs,
                         g.nodes[made].attributes @@ ("activation" :> <<"s", "relu">>))
    IN  IF node.op # "ReLU" \/ made = None THEN {}
        ELSE {f \in Only(fusion, g.nodes[made].op = "Gemm") :
                 /\ OnlyReadBy(g, g.nodes[f.producer].output, n)
                 /\ KeepsSpec(g, n, f.op, f.inputs, f.attributes)}

\* Both passes leave the producers out, put the fusions in, and keep the
\* constants nobody reads.
FusionPass(model, match(_, _)) ==
    LET g == model.graph
        fusions == [n \in NodeIds(g) |-> match(g, n)]
        removed == {f.producer : f \in UNION Range(fusions)}
        step(rw, n) ==
            IF n \in removed THEN {rw}
            ELSE IF fusions[n] = {} THEN CopyNode(rw, n)
            ELSE Bind(fusions[n], LAMBDA f : ReplaceNode(rw, n, f.op, f.inputs, f.attributes))
        keep(rw, v) == IF IsConstant(g, v) THEN CopyValue(rw, v) ELSE {rw}
        rewrites == Bind(TopologicalOrder(g), LAMBDA order : Each(step, Rewrite(model), order))
    IN  IF removed = {} THEN Unchanged(model)
        ELSE Result(Bind(rewrites, LAMBDA rw : Each(keep, {rw}, [v \in ValueIds(g) |-> v])), TRUE)

MatMulAddCanonicalization(model) == FusionPass(model, MatMulAdd)
GemmActivationFusion(model)      == FusionPass(model, GemmReLU)

------------------------------------------------------------------------------
\* PassManager

Run(pass, model) ==
    CASE pass = "noop"         -> Unchanged(model)
      [] pass = "fold"         -> ConstantFolding(model)
      [] pass = "eliminate"    -> DeadCodeElimination(model)
      [] pass = "canonicalize" -> MatMulAddCanonicalization(model)
      [] pass = "fuse"         -> GemmActivationFusion(model)

\* validate_interface: the names stay, and the mapping leads to their values.
InterfaceKept(before, r) ==
    LET kept(old, new) ==
            /\ Len(old) = Len(new)
            /\ \A i \in DOMAIN old : old[i].name = new[i].name /\ r.mapping[old[i].value] = new[i].value
    IN  /\ Len(r.mapping) = Len(before.graph.values)
        /\ Range(r.mapping) \subseteq ValueIds(r.model.graph) \cup {None}
        /\ kept(before.inputs, r.model.inputs) /\ kept(before.outputs, r.model.outputs)

\* A value a pass dropped stays dropped.
Composed(first, second) ==
    [v \in DOMAIN first |-> IF first[v] = None THEN None ELSE second[first[v]]]

==============================================================================

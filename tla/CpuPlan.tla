------------------------------- MODULE CpuPlan --------------------------------
(***************************************************************************)
(* Prepared execution on the CPU (src/src/backend/cpu/execution_plan.cpp): *)
(* the nodes in order, the constant right-hand sides of the products       *)
(* packed once, and a run over them.  A run works on terms: the matrix     *)
(* kernels and their epilogues are TensorKernels, the buffers are          *)
(* MemoryPlan and Executor.                                                *)
(***************************************************************************)
EXTENDS GraphOptimizer

MatrixOps == {"MatMul", "Gemm", "FusedGemmActivation"}

\* Mutant: a weight packed for one orientation serves the other.
PackedAnyway(weights, value, transposed) ==
    {i \in DOMAIN weights : weights[i].value = value}

\* The packed weight for a right-hand side, if there is one.
Packed(weights, value, transposed) ==
    {i \in DOMAIN weights : weights[i].value = value /\ weights[i].transposed = transposed}

\* The step of a node, and the weights with its own.  weight = None: the
\* ordinary kernel, as for a right-hand side known only when it runs.
PrepareStep(g, plan, n) ==
    LET node == g.nodes[n]
        rhs  == node.inputs[2]
        transposed == AttributeOr(node.attributes, "transB", 0)
        packs == node.op \in MatrixOps /\ IsConstant(g, rhs)
        found == Packed(plan.weights, rhs, transposed)
        new   == [value |-> rhs, transposed |-> transposed, content |-> g.values[rhs].content]
        step(weight) == [node |-> n, weight |-> weight]
    IN  IF ~packs THEN [plan EXCEPT !.steps = Append(@, step(None))]
        ELSE IF found # {} THEN [plan EXCEPT !.steps = Append(@, step(Min(found)))]
        ELSE [plan EXCEPT !.weights = Append(@, new),
                          !.steps   = Append(@, step(Len(plan.weights) + 1))]

\* CpuExecutionPlan(model): every operator has a kernel.
PreparedPlan(model) ==
    LET g == model.graph
        prepare(plan, n) == PrepareStep(g, plan, n)
        empty == [model |-> model, steps |-> <<>>, weights |-> <<>>]
    IN  {FoldLeft(prepare, empty, order)
            : order \in {o \in TopologicalOrder(g) : \A n \in NodeIds(g) : g.nodes[n].op \in CpuOps}}

\* A packed product takes the weight of its step in the place of the node's.
StepTerm(plan, step, terms) ==
    LET node == plan.model.graph.nodes[step.node]
        args == [i \in DOMAIN node.inputs |-> terms[node.inputs[i]]]
        weight == plan.weights[step.weight]
        attributes == IF node.op = "MatMul" THEN node.attributes
                      ELSE With(node.attributes, "transB", <<"i", weight.transposed>>)
    IN  IF step.weight = None THEN Application(node.op, args, node.attributes)
        ELSE Application(node.op, [args EXCEPT ![2] = weight.content], attributes)

\* CpuExecutionContext::run with every input bound to itself, and the outputs
\* by their names.
RunPlan(plan) ==
    LET g == plan.model.graph
        bound == [v \in ValueIds(g) |-> IF g.values[v].kind = "input" THEN InputTerm(g.values[v].name)
                                        ELSE g.values[v].content]
        run(terms, step) ==
            [terms EXCEPT ![g.nodes[step.node].output] = StepTerm(plan, step, terms)]
        terms == FoldLeft(run, bound, plan.steps)
    IN  [i \in DOMAIN plan.model.outputs |->
            [name |-> plan.model.outputs[i].name, term |-> terms[plan.model.outputs[i].value]]]

==============================================================================

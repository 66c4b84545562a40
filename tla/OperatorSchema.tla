---------------------------- MODULE OperatorSchema ---------------------------
(***************************************************************************)
(* The schema of every operator and the inference of its output spec       *)
(* (src/src/ops/operator_schema.cpp).  A spec is [shape, dtype]; the       *)
(* attributes of a node are a function from names to values, a value being *)
(* a pair of its variant and its content ("i" integer, "f" float, "s"      *)
(* string, "is" integers), floats standing as integers.  Code that may     *)
(* throw is a set of at most one result, as in TensorLayout.               *)
(***************************************************************************)
EXTENDS TensorLayout, Maps

Bytes(dtype) == CASE dtype = "float16" -> 2 [] dtype = "int8" -> 1 [] OTHER -> 4

\* TensorLayout(shape) and size_bytes(dtype) throw on an illegal shape or size.
ValidSpec(spec) ==
    /\ LayoutOf(spec.shape) # {}
    /\ Fits(Numel(spec.shape) * Bytes(spec.dtype))

\* Attributes are optional, but for the activation of the fused operator.
GemmAttributes == [alpha |-> "f", beta |-> "f", transA |-> "i", transB |-> "i"]
Schema(op) ==
    LET schema(least, most, types, required) ==
            [arity |-> least .. most, types |-> types, required |-> required]
    IN  CASE op \in {"Add", "Multiply", "Subtract", "MatMul"} -> schema(2, 2, << >>, {})
          [] op = "Gemm"      -> schema(2, 3, GemmAttributes, {})
          [] op = "FusedGemmActivation" ->
                 schema(2, 3, GemmAttributes @@ ("activation" :> "s"), {"activation"})
          [] op \in {"ReLU", "Tanh"} -> schema(1, 1, << >>, {})
          [] op = "GELU"      -> schema(1, 1, [approximate |-> "s"], {})
          [] op = "Softmax"   -> schema(1, 1, [axis |-> "i"], {})
          [] op = "LayerNorm" -> schema(1, 3, [epsilon |-> "f"], {})

\* The content of an attribute, or what its reader takes when it is absent.
AttributeOr(attributes, name, absent) ==
    IF name \in DOMAIN attributes THEN attributes[name][2] ELSE absent

ValidAttributes(op, attributes) ==
    /\ \A name \in DOMAIN attributes :
          name \in DOMAIN Schema(op).types /\ attributes[name][1] = Schema(op).types[name]
    /\ Schema(op).required \subseteq DOMAIN attributes

\* The shape of a broadcast operation over two operands.
InferElementwise(xs) == BroadcastShape(<<xs[1].shape, xs[2].shape>>)

InferMatMul(xs) ==
    IF Len(xs[1].shape) = 2 /\ Len(xs[2].shape) = 2
    THEN Only(<<xs[1].shape[1], xs[2].shape[2]>>, xs[1].shape[2] = xs[2].shape[1])
    ELSE {}

\* The bias of a Gemm must broadcast to the product, and not past it.
InferGemm(xs, attributes) ==
    LET a == AttributeOr(attributes, "transA", 0)
        b == AttributeOr(attributes, "transB", 0)
        as(x, transposed) == [x EXCEPT !.shape = IF transposed = 1 THEN Reverse(@) ELSE @]
        fits(shape) == Len(xs) = 3 => BroadcastShape(<<shape, xs[3].shape>>) = {shape}
    IN  IF /\ AttributeOr(attributes, "activation", "relu") = "relu"
           /\ a \in {0, 1} /\ b \in {0, 1}
        THEN {shape \in InferMatMul(<<as(xs[1], a), as(xs[2], b)>>) : fits(shape)}
        ELSE {}

\* The axis of a softmax, counted from the back when negative.
NormalizedAxis(x, attributes) ==
    LET axis == AttributeOr(attributes, "axis", -1)
        from == IF axis < 0 THEN axis + Len(x.shape) ELSE axis
    IN  IF from \in 0 .. Len(x.shape) - 1 THEN Only(from, x.shape[from + 1] # 0) ELSE {}

InferLayerNorm(xs, attributes) ==
    Only(xs[1].shape,
         /\ xs[1].shape # <<>> /\ Last(xs[1].shape) # 0
         /\ \A i \in 2 .. Len(xs) : xs[i].shape = <<Last(xs[1].shape)>>
         /\ AttributeOr(attributes, "epsilon", 0) >= 0)

\* infer_output_specs: every operator computes in float32 and has one output.
InferOutputSpecs(op, xs, attributes) ==
    LET shapes ==
            CASE op \in {"Add", "Multiply", "Subtract"} -> InferElementwise(xs)
              [] op = "MatMul"                          -> InferMatMul(xs)
              [] op \in {"Gemm", "FusedGemmActivation"} -> InferGemm(xs, attributes)
              [] op \in {"ReLU", "Tanh"}                -> {xs[1].shape}
              [] op = "GELU"      -> Only(xs[1].shape, AttributeOr(attributes, "approximate", "none")
                                                           \in {"none", "tanh"})
              [] op = "Softmax"   -> Only(xs[1].shape, NormalizedAxis(xs[1], attributes) # {})
              [] op = "LayerNorm" -> InferLayerNorm(xs, attributes)
    IN  IF /\ Len(xs) \in Schema(op).arity
           /\ \A i \in DOMAIN xs : ValidSpec(xs[i]) /\ xs[i].dtype = "float32"
           /\ ValidAttributes(op, attributes)
        THEN {[shape |-> shape, dtype |-> xs[1].dtype] : shape \in shapes}
        ELSE {}

==============================================================================

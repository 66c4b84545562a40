------------------------------ MODULE OnnxParser ------------------------------
(***************************************************************************)
(* The protobuf reader of ONNX files                                       *)
(* (src/src/model/onnx/protobuf_model_parser.cpp).  A message is the       *)
(* sequence of its fields [number, wire, value]: wire type 0 carries an    *)
(* integer, 5 the bits of a float, 2 a message, a name, or a packed        *)
(* sequence of either number.  Numbers stay within 32 bits.  A reader      *)
(* gives a set of at most one result, empty when it throws.                *)
(***************************************************************************)
EXTENDS ModelGraph

\* The payloads of a field, in order; its last one; the numbers of a repeated
\* field, which come one by one, packed, or both.
All(m, number) ==
    LET of == SelectSeq(m, LAMBDA f : f.number = number)
    IN  [i \in DOMAIN of |-> of[i].value]
LastOf(m, number, absent) ==
    LET values == All(m, number) IN IF values = <<>> THEN absent ELSE Last(values)
Numbers(m, number) ==
    LET of == SelectSeq(m, LAMBDA f : f.number = number)
    IN  FlattenSeq([i \in DOMAIN of |-> IF of[i].wire = 2 THEN of[i].value ELSE <<of[i].value>>])

\* A known field has one of its wire types; any other is skipped.
Wires(m, known) ==
    \A i \in DOMAIN m : m[i].wire \in IF m[i].number \in DOMAIN known THEN known[m[i].number]
                                      ELSE {0, 1, 2, 5}

\* Every message of a repeated field, read in order.
Each1(read(_), messages) ==
    IF \E i \in DOMAIN messages : read(messages[i]) = {} THEN {}
    ELSE {[i \in DOMAIN messages |-> CHOOSE x \in read(messages[i]) : TRUE]}

------------------------------------------------------------------------------
\* Tensors.

DataTypes == (1 :> "float32") @@ (3 :> "int8") @@ (6 :> "int32") @@ (10 :> "float16")

\* The n-th number (from 0) of little-endian bytes; a float is its bits.
LittleEndian(bytes, width, n, signed) ==
    LET byte(k) == bytes[n * width + k]
        top     == IF signed /\ byte(width) > 127 THEN byte(width) - 256 ELSE byte(width)
    IN  FoldLeft(LAMBDA high, k : high * 256 + byte(width - k), top, [k \in 1 .. width - 1 |-> k])

\* What the int32 numbers of a tensor may be, by its type.
Holds(dtype, v) == CASE dtype = "float16" -> v \in 0 .. 65535
                     [] dtype = "int8"    -> v \in -128 .. 127
                     [] OTHER             -> TRUE

\* decode_tensor: raw bytes if there are any, else the numbers of its type.
DecodeTensor(shape, type, raw, floats, ints) ==
    LET spec  == [shape |-> shape, dtype |-> DataTypes[type]]
        width == Bytes(spec.dtype)
        numbers == IF spec.dtype = "float32" THEN floats ELSE ints
        elements == IF raw # <<>>
                    THEN [n \in 1 .. Numel(shape) |->
                            LittleEndian(raw, width, n - 1, spec.dtype # "float16")]
                    ELSE numbers
        complete == IF raw # <<>> THEN Len(raw) = Numel(shape) * width
                    ELSE /\ Len(numbers) = Numel(shape)
                         /\ \A i \in DOMAIN numbers : Holds(spec.dtype, numbers[i])
    IN  IF type \in DOMAIN DataTypes /\ ValidSpec(spec) /\ complete
        THEN {[spec |-> spec, content |-> DataTerm(elements)]} ELSE {}

\* parse_tensor and the initializer made of it: the data is elsewhere when the
\* last field about its place says so.
ParseTensor(m) ==
    LET place == SelectSeq(m, LAMBDA f : f.number \in {13, 14})
        external == place # <<>> /\ (Last(place).number = 13 \/ Last(place).value # 0)
        name == LastOf(m, 8, NoName)
    IN  IF /\ Wires(m, (1 :> {0, 2}) @@ (2 :> {0}) @@ (4 :> {2, 5}) @@ (5 :> {0, 2})
                       @@ (8 :> {2}) @@ (9 :> {2}) @@ (13 :> {2}) @@ (14 :> {0}))
           /\ name # NoName /\ ~external
        THEN {[name |-> name, spec |-> t.spec, content |-> t.content]
                : t \in DecodeTensor(Numbers(m, 1), LastOf(m, 2, 0), LastOf(m, 9, <<>>),
                                     Numbers(m, 4), Numbers(m, 5))}
        ELSE {}

------------------------------------------------------------------------------
\* Types of values.

\* A dimension is a number, and has no symbol.
ParseDimension(m) ==
    IF Wires(m, (1 :> {0}) @@ (2 :> {2})) /\ All(m, 1) # <<>> /\ All(m, 2) = <<>>
    THEN {Last(All(m, 1))} ELSE {}

ParseShape(m) == IF Wires(m, 1 :> {2}) THEN Each1(ParseDimension, All(m, 1)) ELSE {}

\* The last type and the last shape count, but every one must be legal.
ParseTensorType(m) ==
    LET types == All(m, 1)
    IN  IF /\ Wires(m, (1 :> {0}) @@ (2 :> {2}))
           /\ types # <<>> /\ Range(types) \subseteq DOMAIN DataTypes
        THEN {[shape |-> Last(shapes), dtype |-> DataTypes[Last(types)]]
                : shapes \in Each1(ParseShape, All(m, 2)) \ {<<>>}}
        ELSE {}

ParseType(m) ==
    IF Wires(m, 1 :> {2})
    THEN {Last(specs) : specs \in Each1(ParseTensorType, All(m, 1)) \ {<<>>}} ELSE {}

ParseValueInfo(m) ==
    IF Wires(m, (1 :> {2}) @@ (2 :> {2})) /\ LastOf(m, 1, NoName) # NoName
    THEN {[name |-> LastOf(m, 1, NoName), spec |-> Last(specs)]
            : specs \in Each1(ParseType, All(m, 2)) \ {<<>>}}
    ELSE {}

------------------------------------------------------------------------------
\* Nodes, graphs, models.

\* The declared type of an attribute, else that of the first content it has.
ParseAttribute(m) ==
    LET declared == LastOf(m, 20, 0)
        type == IF declared # 0 THEN declared
                ELSE IF All(m, 2) # <<>> THEN 1 ELSE IF All(m, 3) # <<>> THEN 2
                ELSE IF All(m, 4) # <<>> THEN 3 ELSE IF Numbers(m, 8) # <<>> THEN 7 ELSE 0
        value == CASE type = 1 -> <<"f", Last(All(m, 2))>> [] type = 2 -> <<"i", Last(All(m, 3))>>
                   [] type = 3 -> <<"s", Last(All(m, 4))>> [] OTHER    -> <<"is", Numbers(m, 8)>>
    IN  IF /\ Wires(m, (1 :> {2}) @@ (2 :> {5}) @@ (3 :> {0}) @@ (4 :> {2}) @@ (8 :> {0, 2}) @@ (20 :> {0}))
           /\ LastOf(m, 1, "") # "" /\ type \in {1, 2, 3, 7}
        THEN {[name |-> Last(All(m, 1)), value |-> value]} ELSE {}

ParseNode(m) ==
    IF Wires(m, [n \in {1, 2, 3, 4, 5, 7} |-> {2}]) /\ LastOf(m, 4, "") # ""
    THEN {[op_type |-> LastOf(m, 4, ""), inputs |-> All(m, 1), outputs |-> All(m, 2),
           domain |-> LastOf(m, 7, ""),
           attributes |-> [a \in {list[i].name : i \in DOMAIN list} |->
                             (CHOOSE b \in Range(list) : b.name = a).value]]
            : list \in {l \in Each1(ParseAttribute, All(m, 5)) :
                          IsInjective([i \in DOMAIN l |-> l[i].name])}}
    ELSE {}

ParseGraph(m) ==
    IF Wires(m, [n \in {1, 2, 5, 11, 12} |-> {2}])
    THEN {[nodes |-> nodes, initializers |-> initializers, inputs |-> inputs, outputs |-> outputs]
            : nodes \in Each1(ParseNode, All(m, 1)), initializers \in Each1(ParseTensor, All(m, 5)),
              inputs \in Each1(ParseValueInfo, All(m, 11)), outputs \in Each1(ParseValueInfo, All(m, 12))}
    ELSE {}

ParseOpset(m) ==
    Only([domain |-> LastOf(m, 1, ""), version |-> LastOf(m, 2, 0)], Wires(m, (1 :> {2}) @@ (2 :> {0})))

\* The last graph, and the last version of the default domain.
ParseModel(m) ==
    LET default(sets) == SelectSeq(sets, LAMBDA s : s.domain \in {"", "ai.onnx"})
    IN  IF Wires(m, [n \in {7, 8} |-> {2}])
        THEN {[opset |-> Last(default(sets)).version, graph |-> Last(graphs)]
                : graphs \in Each1(ParseGraph, All(m, 7)) \ {<<>>},
                  sets \in {s \in Each1(ParseOpset, All(m, 8)) :
                              default(s) # <<>> /\ Last(default(s)).version # 0}}
        ELSE {}

==============================================================================

------------------------------ MODULE OnnxWriter ------------------------------
(***************************************************************************)
(* The other side of OnnxParser: the messages an exporter writes for a     *)
(* model.  Protobuf leaves the exporter some freedom, its style: whether   *)
(* repeated numbers are packed, tensors raw, fields in descending order,   *)
(* fields of other versions among them.  A fault makes the file illegal.   *)
(***************************************************************************)
EXTENDS OnnxParser

\* A file that keeps to the format, and the ways a file may not.
Faults == {"none", "no graph", "no opset", "symbolic dimension", "external data",
           "short data", "wire type", "attribute twice", "no type"}

Field(number, wire, value) == [number |-> number, wire |-> wire, value |-> value]
One(number, wire, value) == <<Field(number, wire, value)>>
Every(number, values) == [i \in DOMAIN values |-> Field(number, 2, values[i])]

\* Repeated numbers: packed in two parts, or one by one.
NumbersOf(style, number, wire, values) ==
    LET half == Len(values) \div 2
    IN  IF style.packed
        THEN <<Field(number, 2, SubSeq(values, 1, half)),
               Field(number, 2, SubSeq(values, half + 1, Len(values)))>>
        ELSE [i \in DOMAIN values |-> Field(number, wire, values[i])]

\* A message of groups of fields; only the order within a field is fixed.
Message(style, groups) ==
    LET foreign == IF style.foreign THEN One(77, 5, 1) ELSE <<>>
    IN  foreign \o FlattenSeq(IF style.descending THEN Reverse(groups) ELSE groups)

Code(dtype) == CHOOSE c \in DOMAIN DataTypes : DataTypes[c] = dtype

\* Little-endian two's complement.
BytesOf(v, width) == [k \in 1 .. width |-> (v \div (256 ^ (k - 1))) % 256]

WriteTensor(style, t) ==
    LET elements == IF style.fault = "short data" THEN Front(t.content[2]) ELSE t.content[2]
        data == IF style.raw /\ elements # <<>>
                THEN One(9, 2, FlattenSeq([i \in DOMAIN elements |->
                                             BytesOf(elements[i], Bytes(t.spec.dtype))]))
                ELSE IF t.spec.dtype = "float32" THEN NumbersOf(style, 4, 5, elements)
                ELSE NumbersOf(style, 5, 0, elements)
    IN  Message(style, <<NumbersOf(style, 1, 0, t.spec.shape), One(2, 0, Code(t.spec.dtype)), data,
                         One(8, 2, t.name),
                         IF style.fault = "external data" THEN One(13, 2, <<>>) \o One(14, 0, 1)
                         ELSE One(14, 0, 0)>>)

WriteDimension(style, n) ==
    IF style.fault = "symbolic dimension" THEN One(2, 2, "batch") ELSE Message(style, <<One(1, 0, n)>>)

WriteValue(style, v) ==
    LET shape == Message(style, <<Every(1, [i \in DOMAIN v.spec.shape |->
                                              WriteDimension(style, v.spec.shape[i])])>>)
        tensor == Message(style, <<One(1, 0, Code(v.spec.dtype)), One(2, 2, shape)>>)
        type == Message(style, IF style.fault = "no type" THEN <<>> ELSE <<One(1, 2, tensor)>>)
    IN  Message(style, <<One(1, IF style.fault = "wire type" THEN 0 ELSE 2, v.name), One(2, 2, type)>>)

WriteAttribute(style, name, value) ==
    LET kind == value[1]
        content == CASE kind = "f" -> One(2, 5, value[2]) [] kind = "i" -> One(3, 0, value[2])
                     [] kind = "s" -> One(4, 2, value[2]) [] OTHER -> NumbersOf(style, 8, 0, value[2])
        code == CASE kind = "f" -> 1 [] kind = "i" -> 2 [] kind = "s" -> 3 [] OTHER -> 7
    IN  Message(style, <<One(1, 2, name), content, IF style.packed THEN <<>> ELSE One(20, 0, code)>>)

WriteNode(style, node) ==
    LET names == SetToSeq(DOMAIN node.attributes)
        twice == IF style.fault = "attribute twice" THEN names \o names ELSE names
    IN  Message(style, <<Every(1, node.inputs), Every(2, node.outputs), One(4, 2, node.op_type),
                         Every(5, [i \in DOMAIN twice |->
                                     WriteAttribute(style, twice[i], node.attributes[twice[i]])]),
                         IF node.domain = "" THEN <<>> ELSE One(7, 2, node.domain)>>)

\* Another domain's opset is imported, too.
WriteModel(style, w) ==
    LET each(write(_, _), items) == [i \in DOMAIN items |-> write(style, items[i])]
        graph == Message(style, <<Every(1, each(WriteNode, w.graph.nodes)), One(2, 2, "main"),
                                  Every(5, each(WriteTensor, w.graph.initializers)),
                                  Every(11, each(WriteValue, w.graph.inputs)),
                                  Every(12, each(WriteValue, w.graph.outputs))>>)
        opset(domain, version) == Message(style, <<One(1, 2, domain), One(2, 0, version)>>)
    IN  Message(style,
            <<IF style.fault = "no graph" THEN <<>> ELSE One(7, 2, graph),
              IF style.fault = "no opset" THEN <<>> ELSE One(8, 2, opset("", w.opset)),
              One(8, 2, opset("ai.onnx.ml", 3))>>)

==============================================================================

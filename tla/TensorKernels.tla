---------------------------- MODULE TensorKernels ----------------------------
(***************************************************************************)
(* The CPU operators: elementwise (include/tinyinfer/ops/kernel_runner.h,  *)
(* src/src/ops/basic_ops.cpp), reductions, softmax, layer norm, the matrix *)
(* products (src/src/backend/cpu/matmul_kernel.cpp) and GEMM with its      *)
(* epilogue (src/src/ops/gemm.cpp, src/src/backend/cpu/gemm_epilogue.cpp). *)
(* An operand is [layout, data]: data maps storage offsets to integers,    *)
(* which stand for floats summed exactly.  exp, erf, tanh and sqrt stay    *)
(* uninterpreted: an output is the tuple of the numbers it is made from.   *)
(* As in TensorLayout, code that may throw is a set of at most one result. *)
(***************************************************************************)
EXTENDS TensorLayout

\* Lanes of one vector register.
CONSTANT SimdWidth

ASSUME SimdAssumption == SimdWidth \in Nat \ {0}

\* What a read outside the operand's storage gives.
Outside == 99
Load(x, offset) == IF offset \in DOMAIN x.data THEN x.data[offset] ELSE Outside
Element(x, coordinates) == Load(x, Dot(coordinates, x.layout.strides))

\* The row-major operand with given elements.
Dense(shape, values) ==
    [layout |-> [shape |-> shape, strides |-> ContiguousStrides(shape)], data |-> values]

\* Tensor(const Tensor&): the elements in logical order.
Copied(x) ==
    Dense(x.layout.shape, [n \in 0 .. Numel(x.layout.shape) - 1 |-> Load(x, StorageOffset(x.layout, n))])

Above0(v) == IF v > 0 THEN v ELSE 0
Total(s) == FoldSeq(+, 0, s)
Highest(s) == FoldSeq(LAMBDA v, m : IF v > m THEN v ELSE m, s[1], s)

------------------------------------------------------------------------------
\* Elementwise kernels: run_unary_kernel_into and run_binary_kernel_into.

\* The arguments the scalar function gets at each index of the output.
Elementwise(xs) ==
    LET layouts == [o \in DOMAIN xs |-> xs[o].layout]
    IN  {LET dims == Coalesced(layouts, shape)
             fast == \A o \in DOMAIN xs : WalksContiguously(layouts[o], shape)
             at(o, n) == IF fast THEN n ELSE OperandOffset(dims, o, n)
         IN  Dense(shape, [n \in 0 .. Numel(shape) - 1 |-> [o \in DOMAIN xs |-> Load(xs[o], at(o, n))]])
            : shape \in BroadcastShape([o \in DOMAIN xs |-> layouts[o].shape])}

\* add, sub, mul and relu; tanh and gelu keep their argument.
Scalar(op, args) ==
    CASE op = "add"  -> args[1] + args[2]
      [] op = "sub"  -> args[1] - args[2]
      [] op = "mul"  -> args[1] * args[2]
      [] op = "relu" -> Above0(args[1])
      [] OTHER       -> args

ElementwiseOut(op, xs) ==
    {Dense(args.layout.shape, [n \in DOMAIN args.data |-> Scalar(op, args.data[n])])
        : args \in Elementwise(xs)}

------------------------------------------------------------------------------
\* Reductions

\* The offset of the n-th input of an output group, by the fast path or not.
ReducedOffset(r, group, n) ==
    IF r.trailing THEN group * r.numel + n ELSE InputOffset(r, group, n)

Group(x, r, group) == [n \in 1 .. r.numel |-> Load(x, ReducedOffset(r, group, n - 1))]
Groups(r) == 0 .. Product([i \in DOMAIN r.kept |-> r.layout.shape[r.kept[i]]]) - 1

ReduceSum(x, axes, keepdim) ==
    {Dense(r.shape, [group \in Groups(r) |-> Total(Group(x, r, group))])
        : r \in Reduction(x.layout, axes, keepdim)}

ReduceMax(x, axes, keepdim) ==
    {Dense(r.shape, [group \in Groups(r) |-> Highest(Group(x, r, group))])
        : r \in {s \in Reduction(x.layout, axes, keepdim) : s.numel # 0}}

\* Where the n-th element of a group goes in the output.
OutputIndex(r, group, n) ==
    IF r.trailing THEN group * r.numel + n ELSE InputLogicalIndex(r, group, n)

\* softmax_out: exp(value - maximum) over the sum of the same along the axis.
SoftmaxWrites(x, axis) ==
    {LET terms(group) == LET v == Group(x, r, group)
                         IN  [n \in DOMAIN v |-> v[n] - Highest(v)]
     IN  {<<OutputIndex(r, group, n - 1), terms(group)[n], terms(group)>>
            : group \in Groups(r), n \in 1 .. r.numel}
        : r \in {s \in Reduction(x.layout, <<axis>>, FALSE) : s.numel # 0}}

\* layer_norm_impl: a value, its row (mean and variance), weight and bias.
LayerNormWrites(x, parameters) ==
    LET shape == x.layout.shape
        fits  == /\ shape # <<>> /\ shape[Len(shape)] > 0
                 /\ \A p \in DOMAIN parameters : parameters[p].layout.shape = <<shape[Len(shape)]>>
        at(p, n) == Load(parameters[p], StorageOffset(parameters[p].layout, n))
    IN  IF ~fits THEN {} ELSE
        {{LET row == Group(x, r, group)
          IN  <<OutputIndex(r, group, n - 1), row[n], row, [p \in DOMAIN parameters |-> at(p, n - 1)]>>
            : group \in Groups(r), n \in 1 .. r.numel}
            : r \in Reduction(x.layout, <<-1>>, FALSE)}

------------------------------------------------------------------------------
\* Matrix products

Rows(x) == x.layout.shape[1]
Columns(x) == x.layout.shape[2]
Multiply(x, y) == Rank(x.layout) = 2 /\ Rank(y.layout) = 2 /\ Columns(x) = Rows(y)

\* The product of a rows x inner and an inner x columns matrix, entry by entry.
Matrix(rows, columns, entry(_, _)) ==
    Dense(<<rows, columns>>, [n \in 0 .. rows * columns - 1 |-> entry(n \div columns, n % columns)])

SumOver(from, to, term(_)) == FoldFunctionOnSet(+, 0, [k \in from .. to - 1 |-> term(k)], from .. to - 1)

\* matmul_reference
MatMulReference(x, y) ==
    LET entry(i, j) == SumOver(0, Columns(x), LAMBDA k : Element(x, <<i, k>>) * Element(y, <<k, j>>))
    IN  Only(Matrix(Rows(x), Columns(y), entry), Multiply(x, y))

\* matmul_strided
MatMulStrided(x, y) ==
    LET s == x.layout.strides
        t == y.layout.strides
        entry(i, j) == SumOver(0, Columns(x), LAMBDA k : Load(x, i * s[1] + k * s[2]) * Load(y, k * t[1] + j * t[2]))
    IN  Only(Matrix(Rows(x), Columns(y), entry), Multiply(x, y))

\* The half-open blocks of a loop over 0 .. n - 1 in steps of size.
BlocksOf(n, size) ==
    [b \in 1 .. (n + size - 1) \div size |->
        [begin |-> (b - 1) * size, end |-> IF b * size < n THEN b * size ELSE n]]

\* matmul_blocked: each inner block adds its part to the output.
MatMulBlocked(x, y, block) ==
    LET s == x.layout.strides
        t == y.layout.strides
        part(i, j, b) == SumOver(b.begin, b.end, LAMBDA k : Load(x, i * s[1] + k * s[2]) * Load(y, k * t[1] + j * t[2]))
        entry(i, j) == FoldLeft(LAMBDA acc, b : acc + part(i, j, b), 0, BlocksOf(Columns(x), block.inner))
    IN  Only(Matrix(Rows(x), Columns(y), entry), Multiply(x, y))

\* PackedMatMulRhs: an inner x columns copy, transposed while it is read.
Packed(y, transpose) ==
    LET d == IF transpose THEN <<2, 1>> ELSE <<1, 2>>
        columns == y.layout.shape[d[2]]
    IN  IF Rank(y.layout) # 2 THEN {}
        ELSE {[inner |-> y.layout.shape[d[1]], columns |-> columns,
               data |-> [n \in 0 .. y.layout.shape[d[1]] * columns - 1 |->
                            Load(y, (n \div columns) * y.layout.strides[d[1]]
                                    + (n % columns) * y.layout.strides[d[2]])]]}

------------------------------------------------------------------------------
\* The GEMM epilogue; an optional operand is a sequence of at most one.

\* The constructor, from shapes and attributes alone.
Epilogue(shape, bias, alpha, beta, relu) ==
    LET of      == [alpha |-> alpha, beta |-> beta, relu |-> relu, shape |-> shape,
                    rowStride |-> 0, columnStride |-> 0, data |-> <<>>, bias |-> <<>>]
        b       == bias[1].layout.shape
        rows    == IF Len(b) = 2 THEN b[1] ELSE 1
        columns == IF Len(b) > 0 THEN b[Len(b)] ELSE 1
    IN  IF bias = <<>> THEN {of @@ [kind |-> "None"]}
        ELSE Only(of @@ [kind |-> CASE rows = 1 /\ columns = 1 -> "Scalar"
                                    [] rows = 1 /\ columns # 1 -> "Row"
                                    [] rows # 1 /\ columns = 1 -> "Column"
                                    [] OTHER -> "Full"],
                  Len(b) <= 2 /\ rows \in {1, shape[1]} /\ columns \in {1, shape[2]})

\* bind: the strides and storage of the bias of this call.
Bind(e, bias) ==
    IF e.kind = "None" THEN e
    ELSE LET layout == bias[1].layout
             rank   == Rank(layout)
         IN  [e EXCEPT !.bias = bias, !.data = bias[1].data,
                       !.rowStride = IF rank = 2 /\ layout.shape[1] # 1 THEN layout.strides[1] ELSE 0,
                       !.columnStride = IF rank > 0 /\ layout.shape[rank] # 1 THEN layout.strides[rank] ELSE 0]

IsIdentity(e) == e.kind = "None" /\ e.alpha = 1 /\ ~e.relu
SupportsSpecialization(e) == e.kind = "None" \/ (e.alpha = 1 /\ e.beta = 1)

\* Mutant: a bias whose columns are apart is fused too.
FusesAnyStride(e) == ~IsIdentity(e) /\ SupportsSpecialization(e)

SupportsFusion(e) == ~IsIdentity(e) /\ e.columnStride <= 1 /\ SupportsSpecialization(e)

BiasAt(e, row, column) == Load(e, row * e.rowStride + column * e.columnStride)
Activated(e, value) == IF e.relu THEN Above0(value) ELSE value

\* finish, for one entry of the output.
Finish(e, value, row, column) ==
    Activated(e, IF e.kind # "None" THEN e.alpha * value + e.beta * BiasAt(e, row, column)
                 ELSE e.alpha * value)

\* ops::detail::apply_gemm_epilogue, over a broadcasting iterator.
ApplyByIterator(output, bias, alpha, beta, relu) ==
    LET layouts == <<output.layout, bias[1].layout>>
        dims    == Coalesced(layouts, output.layout.shape)
        e       == [relu |-> relu]
    IN  IF bias = <<>>
        THEN {Dense(output.layout.shape, [n \in DOMAIN output.data |-> Activated(e, alpha * output.data[n])])}
        ELSE {Dense(output.layout.shape, [n \in DOMAIN output.data |->
                    Activated(e, alpha * output.data[n] + beta * Load(bias[1], OperandOffset(dims, 2, n)))])
                : shape \in BroadcastShape([o \in 1 .. 2 |-> layouts[o].shape]) \cap {output.layout.shape}}

\* cpu::apply_gemm_epilogue: row by row with direct strides where that is exact.
ApplyEpilogue(output, e) ==
    IF e.kind = "None" \/ ~SupportsSpecialization(e)
    THEN ApplyByIterator(output, e.bias, e.alpha, e.beta, e.relu)
    ELSE {Matrix(Rows(output), Columns(output),
                 LAMBDA i, j : Finish(e, output.data[i * Columns(output) + j], i, j))}

\* One lane of accumulate_simd_dot in its final block: beta is left out, and
\* the bias is either one value or the lanes that follow each other in memory.
FinishLane(e, value, row, first, lane) ==
    LET scaled == IF e.alpha # 1 \/ e.relu THEN e.alpha * value ELSE value
        bias   == Load(e, row * e.rowStride + (IF e.columnStride = 0 THEN 0 ELSE first + lane))
    IN  Activated(e, IF e.kind = "None" THEN scaled ELSE scaled + bias)

\* run_packed: fused is the epilogue, or empty.
RunPacked(x, packed, block, fused) ==
    LET s == x.layout.strides
        part(i, j, b) == SumOver(b.begin, b.end, LAMBDA k : Load(x, i * s[1] + k * s[2]) * packed.data[k * packed.columns + j])
        begin(j)   == (j \div block.columns) * block.columns
        end(j)     == IF begin(j) + block.columns < packed.columns THEN begin(j) + block.columns ELSE packed.columns
        lane(j)    == (j - begin(j)) % SimdWidth
        inVector(j) == SimdWidth > 1 /\ j - lane(j) + SimdWidth <= end(j)
        final(i, j, v) == IF fused = <<>> THEN v
                          ELSE IF inVector(j) THEN FinishLane(fused[1], v, i, j - lane(j), lane(j))
                          ELSE Finish(fused[1], v, i, j)
        add(i, j, b, acc) == IF b.end = packed.inner THEN final(i, j, acc + part(i, j, b)) ELSE acc + part(i, j, b)
        entry(i, j) == FoldLeft(LAMBDA acc, b : add(i, j, b, acc), 0, BlocksOf(packed.inner, block.inner))
        product == Matrix(Rows(x), packed.columns, entry)
    IN  IF Rank(x.layout) # 2 \/ Columns(x) # packed.inner THEN {}
        ELSE IF fused # <<>> /\ (packed.inner = 0 \/ product.data = <<>>)
        THEN ApplyEpilogue(product, fused[1])
        ELSE {product}

\* matmul_packed_gemm: nothing to fuse, not exact to fuse, or fused.
PackedGemm(x, packed, block, e) ==
    IF IsIdentity(e) THEN RunPacked(x, packed, block, <<>>)
    ELSE IF ~SupportsFusion(e)
    THEN UNION {ApplyEpilogue(product, e) : product \in RunPacked(x, packed, block, <<>>)}
    ELSE RunPacked(x, packed, block, <<e>>)

\* run_gemm: transposed operands are copied, then transposed as views.
Gemm(x, y, bias, alpha, beta, transA, transB, relu, block) ==
    LET operand(z, transposed) ==
            IF transposed
            THEN {[Copied(z) EXCEPT !.layout = l] : l \in Transposed(Copied(z).layout, 1, 2)}
            ELSE {z}
    IN  UNION {UNION {UNION {ApplyByIterator(product, bias, alpha, beta, relu)
                        : product \in RunPacked(ops[1], packed, block, <<>>)}
                      : packed \in Packed(ops[2], FALSE)}
               : ops \in operand(x, transA) \X operand(y, transB)}

------------------------------------------------------------------------------
\* What the operators mean, element by element.

\* The element of x at coordinates of a shape it is repeated over.
Repeated(x, coordinates) ==
    LET lead == Len(coordinates) - Rank(x.layout)
    IN  Element(x, [d \in DOMAIN x.layout.shape |->
                        IF x.layout.shape[d] = 1 THEN 0 ELSE coordinates[lead + d]])

Broadcasts(xs) ==
    \A o, q \in DOMAIN xs : \A d \in 1 .. 3 :
        LET m == FromLast(xs[o].layout.shape, d)
            n == FromLast(xs[q].layout.shape, d)
        IN  m = n \/ m = 1 \/ n = 1

ElementwiseRight(op, xs) ==
    /\ Broadcasts(xs) <=> ElementwiseOut(op, xs) # {}
    /\ \A out \in ElementwiseOut(op, xs) : \A n \in DOMAIN out.data :
          out.data[n] = Scalar(op, [o \in DOMAIN xs |->
                                        Repeated(xs[o], Coordinates(out.layout.shape, n))])

\* The elements, in logical order, that agree with coordinates but for axes.
Along(x, coordinates, axes) ==
    LET shape == x.layout.shape
        same(n) == \A d \in DOMAIN shape \ axes : Coordinates(shape, n)[d] = coordinates[d]
        indices == SelectSeq([n \in 1 .. Numel(shape) |-> n - 1], same)
    IN  [i \in DOMAIN indices |-> Element(x, Coordinates(shape, indices[i]))]

ReductionRight(x, axes) ==
    LET shape == x.layout.shape
        given == {axes[i] + 1 : i \in DOMAIN axes}
    IN  given \subseteq DOMAIN shape =>
        /\ ReduceSum(x, axes, TRUE) # {}
        /\ \A out \in ReduceSum(x, axes, TRUE), bare \in ReduceSum(x, axes, FALSE) :
              /\ out.data = bare.data
              /\ \A n \in DOMAIN out.data :
                    out.data[n] = Total(Along(x, Coordinates(out.layout.shape, n), given))
        /\ \A out \in ReduceMax(x, axes, TRUE) : \A n \in DOMAIN out.data :
              out.data[n] = Highest(Along(x, Coordinates(out.layout.shape, n), given))

NormalisationRight(x, d) ==
    LET shape == x.layout.shape
        row(n) == Along(x, Coordinates(shape, n), {d})
        value(n) == Element(x, Coordinates(shape, n))
    IN  d \in DOMAIN shape =>
        \A writes \in SoftmaxWrites(x, d - 1) :
            writes = {<<n, value(n) - Highest(row(n)), [i \in DOMAIN row(n) |-> row(n)[i] - Highest(row(n))]>>
                        : n \in 0 .. Numel(shape) - 1}

LayerNormRight(x, parameters) ==
    LET shape == x.layout.shape
        last(n) == Coordinates(shape, n)[Len(shape)]
    IN  \A writes \in LayerNormWrites(x, parameters) :
            writes = {<<n, Element(x, Coordinates(shape, n)), Along(x, Coordinates(shape, n), {Len(shape)}),
                        [p \in DOMAIN parameters |-> Element(parameters[p], <<last(n)>>)]>>
                        : n \in 0 .. Numel(shape) - 1}

\* Entry (i, j) of alpha x y + beta bias, with y read transposed or not.
GemmEntry(x, y, transA, transB, bias, alpha, beta, relu, i, j) ==
    LET a(k) == Element(x, IF transA THEN <<k, i>> ELSE <<i, k>>)
        b(k) == Element(y, IF transB THEN <<j, k>> ELSE <<k, j>>)
        v    == alpha * SumOver(0, x.layout.shape[IF transA THEN 1 ELSE 2], LAMBDA k : a(k) * b(k))
                + (IF bias = <<>> THEN 0 ELSE beta * Repeated(bias[1], <<i, j>>))
    IN  IF relu THEN Above0(v) ELSE v

ProductRight(out, x, y, transA, transB, bias, alpha, beta, relu) ==
    \A i \in 0 .. Rows(out) - 1, j \in 0 .. Columns(out) - 1 :
        out.data[i * Columns(out) + j] = GemmEntry(x, y, transA, transB, bias, alpha, beta, relu, i, j)

MatMulRight(x, y, block) ==
    Multiply(x, y) =>
        LET products == MatMulReference(x, y) \cup MatMulStrided(x, y) \cup MatMulBlocked(x, y, block)
        IN  \E out \in products :
                products = {out} /\ ProductRight(out, x, y, FALSE, FALSE, <<>>, 1, 1, FALSE)

\* The prepared product, its bias bound late, and the operator's own path.
GemmRight(x, y, bias, block, transA, transB, alpha, beta, relu) ==
    LET m == x.layout.shape[IF transA THEN 2 ELSE 1]
        n == y.layout.shape[IF transB THEN 1 ELSE 2]
    IN  (Rank(x.layout) = 2 /\ Rank(y.layout) = 2
         /\ x.layout.shape[IF transA THEN 1 ELSE 2] = y.layout.shape[IF transB THEN 2 ELSE 1]) =>
        \A e \in Epilogue(<<m, n>>, bias, alpha, beta, relu) :
            LET plain    == Gemm(x, y, bias, alpha, beta, transA, transB, relu, block)
                prepared == IF transA THEN {}
                            ELSE UNION {PackedGemm(x, packed, block, Bind(e, bias)) : packed \in Packed(y, transB)}
            IN  /\ plain # {} /\ (transA \/ prepared # {})
                /\ \A out \in plain \cup prepared :
                      ProductRight(out, x, y, transA, transB, bias, alpha, beta, relu)
==============================================================================

----------------------------- MODULE TensorLayout ----------------------------
(***************************************************************************)
(* Shapes and strides (src/src/core/tensor_layout.cpp), the broadcasting   *)
(* iterator (tensor_iterator.cpp) and the reduction iterator               *)
(* (reduction_iterator.cpp) as operators.  An operator whose code may      *)
(* throw returns a set: empty when it throws, else its one result.         *)
(***************************************************************************)
EXTENDS Integers, SequencesExt, FiniteSetsExt

\* The largest size_t: arithmetic that would pass it throws.
CONSTANT MaxSize

ASSUME LayoutAssumption == MaxSize \in Nat

Fits(n) == n <= MaxSize
Only(x, ok) == IF ok THEN {x} ELSE {}
Product(s) ==
    LET upTo[d \in 0 .. Len(s)] == IF d = 0 THEN 1 ELSE upTo[d - 1] * s[d]
    IN  upTo[Len(s)]

------------------------------------------------------------------------------
\* TensorLayout

Numel(shape) == Product(shape)
Rank(layout) == Len(layout.shape)

\* The running product of the extents behind each dimension.
ContiguousStrides(shape) ==
    [d \in DOMAIN shape |-> Product(SubSeq(shape, d + 1, Len(shape)))]

\* The constructor for a shape.
LayoutOf(shape) ==
    Only([shape |-> shape, strides |-> ContiguousStrides(shape)],
         /\ \A d \in DOMAIN shape : shape[d] >= 0
         /\ Fits(Numel(shape))
         /\ \A d \in DOMAIN shape : Fits(ContiguousStrides(shape)[d]))

IsContiguous(layout) == layout.strides = ContiguousStrides(layout.shape)

\* One past the largest offset any element has.
StorageSpan(layout) ==
    IF \E d \in DOMAIN layout.shape : layout.shape[d] = 0 THEN 0
    ELSE 1 + FoldSeq(+, 0, [d \in DOMAIN layout.shape |->
                                (layout.shape[d] - 1) * layout.strides[d]])

\* The constructor for given strides.
StridedLayout(shape, strides) ==
    LET layout == [shape |-> shape, strides |-> strides]
    IN  Only(layout, Fits(StorageSpan(layout)))

\* The coordinates of the n-th element (from 0) of a shape, last one fastest.
Coordinates(shape, n) ==
    [d \in DOMAIN shape |-> (n \div ContiguousStrides(shape)[d]) % shape[d]]

Dot(coordinates, strides) ==
    FoldSeq(+, 0, [d \in DOMAIN coordinates |-> coordinates[d] * strides[d]])

\* storage_offset: divide and take the remainder, from the last dimension on.
StorageOffset(layout, n) ==
    LET step(d, acc) ==
            [index |-> acc.index \div layout.shape[d],
             offset |-> acc.offset + (acc.index % layout.shape[d]) * layout.strides[d]]
    IN  FoldRightDomain(step, layout.shape, [index |-> n, offset |-> 0]).offset

Swapped(s, i, j) == [s EXCEPT ![i] = s[j], ![j] = s[i]]

Transposed(layout, i, j) ==
    IF i \in DOMAIN layout.shape /\ j \in DOMAIN layout.shape
    THEN StridedLayout(Swapped(layout.shape, i, j), Swapped(layout.strides, i, j))
    ELSE {}

\* resolve_reshape_shape: one dimension may be -1 and is inferred.
ResolveShape(shape, numel) ==
    LET inferred == {d \in DOMAIN shape : shape[d] = -1}
        known    == Product([d \in DOMAIN shape |-> IF d \in inferred THEN 1 ELSE shape[d]])
        resolved == [d \in DOMAIN shape |->
                        IF d \in inferred /\ known # 0 THEN numel \div known ELSE shape[d]]
    IN  Only(resolved, /\ Cardinality(inferred) <= 1
                       /\ \A d \in DOMAIN shape : shape[d] >= -1
                       /\ inferred # {} => known # 0
                       /\ Fits(known) /\ Product(resolved) = numel)

Reshaped(layout, shape) ==
    IF IsContiguous(layout)
    THEN UNION {LayoutOf(s) : s \in ResolveShape(shape, Numel(layout.shape))}
    ELSE {}

------------------------------------------------------------------------------
\* TensorIterator

\* Dimension d, counted from the last one (1), of a shape; 1 when there is none.
FromLast(shape, d) == IF d <= Len(shape) THEN shape[Len(shape) - d + 1] ELSE 1

\* Extents other than 1 must agree.
BroadcastShape(shapes) ==
    LET rank      == Max({0} \cup {Len(shapes[i]) : i \in DOMAIN shapes})
        extents(d) == {FromLast(shapes[i], rank - d + 1) : i \in DOMAIN shapes} \ {1}
    IN  Only([d \in 1 .. rank |-> IF extents(d) = {} THEN 1 ELSE CHOOSE n \in extents(d) : TRUE],
             \A d \in 1 .. rank : Cardinality(extents(d)) <= 1)

\* The strides of an operand over the output shape: 0 where it is repeated.
BroadcastStrides(layout, shape) ==
    LET lead == Len(shape) - Rank(layout)
    IN  [d \in DOMAIN shape |->
            IF d > lead /\ layout.shape[d - lead] = shape[d]
            THEN layout.strides[d - lead] ELSE 0]

\* One dimension of an iteration: its extent, and the stride of each operand.
Dimensions(layouts, shape) ==
    [d \in DOMAIN shape |->
        [extent |-> shape[d],
         strides |-> [o \in DOMAIN layouts |-> BroadcastStrides(layouts[o], shape)[d]]]]

\* Mutant: neighbours merge when the first operand alone allows it.
FirstOperandMerges(outer, inner) == outer.strides[1] = inner.strides[1] * inner.extent

\* Every operand steps evenly across the boundary of two neighbours.
Merges(outer, inner) ==
    /\ \A o \in DOMAIN outer.strides : outer.strides[o] = inner.strides[o] * inner.extent
    /\ Fits(outer.extent * inner.extent)

\* coalesce_dimensions: extents of 1 go, then neighbours merge from the inside.
Coalesced(layouts, shape) ==
    LET dims == SelectSeq(Dimensions(layouts, shape), LAMBDA d : d.extent # 1)
        merge(d, acc) ==
            IF acc # <<>> /\ Merges(d, Head(acc))
            THEN <<[Head(acc) EXCEPT !.extent = @ * d.extent]>> \o Tail(acc)
            ELSE <<d>> \o acc
    IN  IF dims = <<>> THEN <<[extent |-> 1, strides |-> [o \in DOMAIN layouts |-> 0]]>>
        ELSE FoldRight(merge, dims, <<>>)

\* operand_offset
OperandOffset(dims, o, n) ==
    LET step(d, acc) ==
            [index |-> acc.index \div d.extent,
             offset |-> acc.offset + (acc.index % d.extent) * d.strides[o]]
    IN  FoldRight(step, dims, [index |-> n, offset |-> 0]).offset

\* detect_contiguous_operands: kernels walk such an operand by one pointer.
WalksContiguously(layout, shape) ==
    LET strides == BroadcastStrides(layout, shape)
        moving  == {d \in DOMAIN shape : shape[d] > 1}
    IN  Numel(shape) = 0 \/ \A d \in moving : strides[d] = ContiguousStrides(shape)[d]

------------------------------------------------------------------------------
\* ReductionIterator

\* The constructor: axes from the back are negative, each is given once.
Reduction(layout, axes, keepdim) ==
    LET rank    == Rank(layout)
        axis(i) == IF axes[i] < 0 THEN axes[i] + rank + 1 ELSE axes[i] + 1
        reduced == {axis(i) : i \in DOMAIN axes}
        kept    == SelectSeq([d \in 1 .. rank |-> d], LAMBDA d : d \notin reduced)
        sorted  == SelectSeq([d \in 1 .. rank |-> d], LAMBDA d : d \in reduced)
    IN  Only([layout  |-> layout, axes |-> sorted, kept |-> kept,
              shape   |-> IF keepdim
                          THEN [d \in 1 .. rank |-> IF d \in reduced THEN 1 ELSE layout.shape[d]]
                          ELSE [i \in DOMAIN kept |-> layout.shape[kept[i]]],
              numel   |-> Product([i \in DOMAIN sorted |-> layout.shape[sorted[i]]]),
              trailing |-> IsContiguous(layout) /\ reduced = rank - Len(axes) + 1 .. rank],
             axes # <<>> /\ reduced \subseteq 1 .. rank /\ Cardinality(reduced) = Len(axes))

\* Split an index over some dimensions, and add up its offset.
OffsetOver(layout, dims, n, strides) ==
    Dot(Coordinates([i \in DOMAIN dims |-> layout.shape[dims[i]]], n),
        [i \in DOMAIN dims |-> strides[dims[i]]])

\* input_offset, and input_logical_index over the strides of the bare shape.
InputOffset(r, out, n) ==
    OffsetOver(r.layout, r.kept, out, r.layout.strides)
    + OffsetOver(r.layout, r.axes, n, r.layout.strides)
InputLogicalIndex(r, out, n) ==
    OffsetOver(r.layout, r.kept, out, ContiguousStrides(r.layout.shape))
    + OffsetOver(r.layout, r.axes, n, ContiguousStrides(r.layout.shape))
==============================================================================

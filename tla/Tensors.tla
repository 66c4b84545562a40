------------------------------- MODULE Tensors -------------------------------
(***************************************************************************)
(* Tensors as views of shared buffers (src/src/core/tensor.cpp, memory/    *)
(* storage.cpp, buffer.cpp) that an arena hands out (arena_allocator.cpp). *)
(* A slot is a variable of the program that owns a Tensor or is empty; a   *)
(* buffer lives while some tensor's Storage refers to it.  One element is  *)
(* the unit of memory.  Two ghosts say what the views mean: cells, the     *)
(* cells of a buffer a tensor stands for in logical order, and held, what  *)
(* was put in each cell.                                                   *)
(***************************************************************************)
EXTENDS TensorKernels, Maps

CONSTANTS Slots, Capacity, ArenaAlignment,
          Shapes,       \* shapes of constructed tensors
          ViewShapes,   \* arguments of view, reshape and from_storage
          Narrows,      \* <<dimension, start, length>>
          Slices,       \* <<dimension, start, end, step>>
          MaxDepth,     \* bound: operations stacked to make one tensor
          Axes,         \* axes of reductions
          Blocks,       \* [columns, inner]: block sizes of products
          Factors       \* <<alpha, beta, relu>>

\* Negative arguments and steps below 1 are refused at once.
ASSUME ArenaAssumption ==
    /\ Capacity \in Nat /\ ArenaAlignment \in Nat \ {0}
    /\ IsFiniteSet(Slots)
    /\ Shapes \subseteq Seq(Int) /\ ViewShapes \subseteq Seq(Int)
    /\ Narrows \subseteq Nat \X Nat \X Nat
    /\ Slices \subseteq Nat \X Nat \X Nat \X (Nat \ {0})

VARIABLES allocator, \* the arena, [offset, active]: the bump pointer and live allocations
          memory,   \* address -> value
          buffers,  \* live buffers: id -> [base, size]
          tensors,  \* occupied slots -> [layout, buffer, offset, size, depth]
          cells,    \* occupied slots -> sequence of <<buffer, k>>
          contents   \* live buffers: id -> k -> value

tensorsVars == <<allocator, memory, buffers, tensors, cells, contents>>

Null == -1
Live == DOMAIN tensors
BufferIds == 1 .. Cardinality(Slots) + 1

------------------------------------------------------------------------------
\* ArenaAllocator

\* allocate: where, and the arena after it; nothing when it is full.
ArenaAllocate(size) ==
    LET aligned == ((allocator.offset + ArenaAlignment - 1) \div ArenaAlignment) * ArenaAlignment
    IN  IF size = 0 THEN {[base |-> Null, arena |-> allocator]}
        ELSE Only([base |-> aligned,
                   arena |-> [offset |-> aligned + size, active |-> allocator.active + 1]],
                  aligned <= Capacity /\ size <= Capacity - aligned)

\* Mutant: the destructor of an empty buffer counts as a release.
CountsNull(a, base) == IF a.active = 0 THEN a ELSE [a EXCEPT !.active = @ - 1]

\* deallocate: only the count goes down, and not for a null pointer.
ArenaDeallocate(a, base) ==
    IF base = Null \/ a.active = 0 \/ base \notin 0 .. Capacity - 1 THEN a
    ELSE [a EXCEPT !.active = @ - 1]

\* reset: refused while anything is active.
ArenaReset ==
    /\ allocator.active = 0 /\ allocator.offset # 0
    /\ allocator' = [allocator EXCEPT !.offset = 0]
    /\ UNCHANGED <<memory, buffers, tensors, cells, contents>>

------------------------------------------------------------------------------
\* Storage and Tensor

Address(t, n) ==
    buffers[tensors[t].buffer].base + tensors[t].offset + StorageOffset(tensors[t].layout, n)
Elements(t) == 0 .. Numel(tensors[t].layout.shape) - 1

\* The operand a kernel sees.
Operand(t) ==
    [layout |-> tensors[t].layout,
     data |-> [o \in 0 .. tensors[t].size - 1 |->
                  memory[buffers[tensors[t].buffer].base + tensors[t].offset + o]]]

\* The arena after a slot lets go of its buffer, and whether that destroyed it.
LastOwner(s) == \A t \in Live \ {s} : tensors[t].buffer # tensors[s].buffer
Released(a, s) ==
    IF s \in Live /\ LastOwner(s) THEN ArenaDeallocate(a, buffers[tensors[s].buffer].base) ELSE a
Dead(s) == IF s \in Live /\ LastOwner(s) THEN {tensors[s].buffer} ELSE {}

\* Memory without the values of a destroyed buffer, which nothing reads.
Kept(s) ==
    [x \in DOMAIN memory |->
        IF \E b \in Dead(s) : x - buffers[b].base \in 0 .. buffers[b].size - 1 THEN 0 ELSE memory[x]]

\* Slot s gets a tensor in a new buffer with these values; what it held goes
\* after the allocation.
Materialise(s, layout, values, depth) ==
    LET size == Numel(layout.shape)
        b    == CHOOSE i \in BufferIds : i \notin DOMAIN buffers
                                         /\ \A j \in BufferIds : j < i => j \in DOMAIN buffers
    IN  \E a \in ArenaAllocate(size) :
            /\ depth <= MaxDepth
            /\ allocator' = Released(a.arena, s)
            /\ buffers' = With(Without(buffers, Dead(s)), b, [base |-> a.base, size |-> size])
            /\ memory' = [x \in DOMAIN memory |->
                             IF size # 0 /\ x \in a.base .. a.base + size - 1
                             THEN values[x - a.base] ELSE Kept(s)[x]]
            /\ tensors' = With(tensors, s, [layout |-> layout, buffer |-> b, offset |-> 0,
                                            size |-> size, depth |-> depth])
            /\ cells' = With(cells, s, [n \in 1 .. size |-> <<b, n - 1>>])
            /\ contents' = With(Without(contents, Dead(s)), b, values)

\* Tensor(shape, dtype, allocator), then the caller's values through data.
Construct(s, shape) ==
    /\ s \notin Live
    /\ \E layout \in LayoutOf(shape) :
          Materialise(s, layout, [k \in 0 .. Numel(shape) - 1 |-> k - 2], 0)

\* The copy constructor into an empty slot, or the copy and swap of operator=.
CopyTensor(s, t) ==
    /\ t \in Live /\ s # t
    /\ \E layout \in LayoutOf(tensors[t].layout.shape) :
          Materialise(s, layout, [k \in Elements(t) |-> memory[Address(t, k)]], tensors[t].depth + 1)

\* contiguous: a view in another order moves to a buffer of its own.
Contiguous(s) ==
    /\ s \in Live /\ ~IsContiguous(tensors[s].layout)
    /\ \E layout \in LayoutOf(tensors[s].layout.shape) :
          Materialise(s, layout, [k \in Elements(s) |-> memory[Address(s, k)]], tensors[s].depth + 1)

\* The layout changes in place and the cells are read in another order.
Relayout(s, layout, order) ==
    /\ tensors[s].depth < MaxDepth
    /\ tensors' = [tensors EXCEPT ![s].layout = layout, ![s].depth = @ + 1]
    /\ cells' = [cells EXCEPT ![s] = order]
    /\ UNCHANGED <<allocator, memory, buffers, contents>>

Reshape(s, shape) ==
    /\ s \in Live
    /\ \E layout \in Reshaped(tensors[s].layout, shape) : Relayout(s, layout, cells[s])

\* The logical index, in the shape of t, of given coordinates.
IndexOf(shape, coordinates) == Dot(coordinates, ContiguousStrides(shape))

Transpose(s, i, j) ==
    /\ s \in Live
    /\ \E layout \in Transposed(tensors[s].layout, i, j) :
          LET old == tensors[s].layout.shape
          IN  Relayout(s, layout,
                       [n \in 1 .. Numel(old) |->
                            cells[s][IndexOf(old, Swapped(Coordinates(layout.shape, n - 1), i, j)) + 1]])

\* Slot s becomes a view of the storage of t.
Alias(s, t, layout, offset, size, of) ==
    /\ tensors[t].depth < MaxDepth
    /\ tensors' = With(tensors, s, [layout |-> layout, buffer |-> tensors[t].buffer,
                                    offset |-> offset, size |-> size,
                                    depth |-> tensors[t].depth + 1])
    /\ cells' = With(cells, s, of)
    /\ UNCHANGED <<allocator, memory, buffers, contents>>

View(s, t, shape) ==
    /\ s \notin Live /\ t \in Live
    /\ \E layout \in Reshaped(tensors[t].layout, shape) :
          Alias(s, t, layout, tensors[t].offset, tensors[t].size, cells[t])

\* Mutant: the offset inside the buffer is the one inside the parent view.
DropsParentOffset(t, layout, offset) ==
    LET span == StorageSpan(layout)
        from == IF span = 0 THEN 0 ELSE offset
    IN  Only([offset |-> from, size |-> span],
             from <= tensors[t].size /\ span <= tensors[t].size - from)

\* as_strided_view: the range of the view inside the storage of t.
StridedRange(t, layout, offset) ==
    LET span == StorageSpan(layout)
        from == IF span = 0 THEN 0 ELSE offset
    IN  Only([offset |-> tensors[t].offset + from, size |-> span],
             from <= tensors[t].size /\ span <= tensors[t].size - from)

\* Every step-th index of a dimension from start on; narrow has step 1.
Strided(s, t, d, start, length, step) ==
    LET old    == tensors[t].layout
        shape  == [old.shape EXCEPT ![d] = length]
        source(n) == [Coordinates(shape, n) EXCEPT ![d] = start + @ * step]
    IN  \E layout \in StridedLayout(shape, [old.strides EXCEPT ![d] = @ * step]) :
          \E range \in StridedRange(t, layout, start * old.strides[d]) :
              Alias(s, t, layout, range.offset, range.size,
                    [n \in 1 .. Numel(shape) |-> cells[t][IndexOf(old.shape, source(n - 1)) + 1]])

Narrow(s, t, a) ==
    LET d == a[1]  start == a[2]  length == a[3] IN
    /\ s \notin Live /\ t \in Live
    /\ d \in DOMAIN tensors[t].layout.shape
    /\ start + length <= tensors[t].layout.shape[d]
    /\ Strided(s, t, d, start, length, 1)

Slice(s, t, a) ==
    LET d == a[1]  start == a[2]  end == a[3]  step == a[4] IN
    /\ s \notin Live /\ t \in Live
    /\ d \in DOMAIN tensors[t].layout.shape
    /\ start <= end /\ end <= tensors[t].layout.shape[d]
    /\ Strided(s, t, d, start, (end - start + step - 1) \div step, step)

\* from_storage: another tensor over the same storage, if it is large enough.
FromStorage(s, t, shape) ==
    /\ s \notin Live /\ t \in Live
    /\ \E layout \in LayoutOf(shape) :
          /\ Numel(shape) <= tensors[t].size
          /\ Alias(s, t, layout, tensors[t].offset, tensors[t].size,
                   [n \in 1 .. Numel(shape) |-> <<tensors[t].buffer, tensors[t].offset + n - 1>>])

\* The destructor.
Drop(s) ==
    /\ s \in Live
    /\ allocator' = Released(allocator, s)
    /\ buffers' = Without(buffers, Dead(s))
    /\ contents' = Without(contents, Dead(s))
    /\ tensors' = Without(tensors, {s})
    /\ cells' = Without(cells, {s})
    /\ memory' = Kept(s)

TensorsInit ==
    /\ allocator = [offset |-> 0, active |-> 0]
    /\ memory = [x \in 0 .. Capacity - 1 |-> 0]
    /\ buffers = <<>> /\ tensors = <<>> /\ cells = <<>> /\ contents = <<>>

Pairs == {<<1, 2>>, <<1, 3>>, <<2, 3>>}

TensorsNext ==
    \/ ArenaReset
    \/ \E s \in Slots :
          \/ \E shape \in Shapes : Construct(s, shape)
          \/ \E shape \in ViewShapes : Reshape(s, shape)
          \/ \E p \in Pairs : Transpose(s, p[1], p[2])
          \/ Contiguous(s)
          \/ Drop(s)
    \/ \E s, t \in Slots :
          \/ CopyTensor(s, t)
          \/ \E shape \in ViewShapes : View(s, t, shape)
          \/ \E shape \in ViewShapes : FromStorage(s, t, shape)
          \/ \E a \in Narrows : Narrow(s, t, a)
          \/ \E a \in Slices : Slice(s, t, a)

TensorsSpec == TensorsInit /\ [][TensorsNext]_tensorsVars

------------------------------------------------------------------------------
\* Properties

\* The buffers that own memory.
Holding == {b \in DOMAIN buffers : buffers[b].size # 0}

\* Live allocations lie inside the arena, aligned and apart from each other,
\* and the arena counts exactly those that hold memory: reset, which trusts
\* the count, can never hand out memory that a view still reads.
BuffersApart ==
    /\ allocator.active = Cardinality(Holding)
    /\ DOMAIN buffers = {tensors[t].buffer : t \in Live}
    /\ allocator.offset <= Capacity
    /\ \A b \in Holding :
          /\ buffers[b].base % ArenaAlignment = 0
          /\ buffers[b].base + buffers[b].size <= allocator.offset
          /\ \A c \in Holding \ {b} :
                \/ buffers[b].base + buffers[b].size <= buffers[c].base
                \/ buffers[c].base + buffers[c].size <= buffers[b].base

\* However views, transposes, narrows, slices, copies and reshapes were
\* stacked, the layout finds each element in the cell it stands for, inside
\* the tensor's own storage, and the cell still holds what was put in it.
TensorsReadTheirCells ==
    \A t \in Live :
        /\ Len(cells[t]) = Numel(tensors[t].layout.shape)
        /\ \A n \in Elements(t) :
              LET cell   == cells[t][n + 1]
                  buffer == buffers[tensors[t].buffer]
              IN  /\ StorageOffset(tensors[t].layout, n) < tensors[t].size
                  /\ cell[1] = tensors[t].buffer
                  /\ Address(t, n) = buffer.base + cell[2]
                  /\ cell[2] < buffer.size
                  /\ memory[Address(t, n)] = contents[cell[1]][cell[2]]

\* Every elementwise kernel, reduction, softmax and layer norm computes, from
\* the operands a program can build, what its definition says element by
\* element: whether the iterator merges dimensions, repeats an operand, walks
\* one pointer, or a reduction takes its trailing path.
ElementsAgree ==
    \A t \in Live :
        LET x == Operand(t)
        IN  /\ ElementwiseRight("relu", <<x>>)
            /\ \A axes \in Axes : ReductionRight(x, axes)
            /\ \A d \in 1 .. 3 : NormalisationRight(x, d)
            /\ \A u \in Live : /\ ElementwiseRight("sub", <<x, Operand(u)>>)
                                /\ LayerNormRight(x, <<Operand(u), Operand(u)>>)

\* Every matrix product does: strided, blocked or packed, its right operand
\* transposed while it is packed or copied and transposed before, the bias
\* scalar, row, column or full over any strides, fused into the last inner
\* block of vector lanes and tail columns or applied afterwards.
ProductsAgree ==
    \A t, u \in Live :
        LET x == Operand(t)
            y == Operand(u)
        IN  \A block \in Blocks :
              /\ MatMulRight(x, y, block)
              /\ \A bias \in {<<>>, <<x>>, <<y>>}, f \in Factors, transA, transB \in BOOLEAN :
                    GemmRight(x, y, bias, block, transA, transB, f[1], f[2], f[3])
==============================================================================

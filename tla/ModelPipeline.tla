---------------------------- MODULE ModelPipeline -----------------------------
(***************************************************************************)
(* A model from its file to its result: OnnxImporter::load reads and       *)
(* imports the file, PassManager::run applies passes in any order,         *)
(* CpuExecutionPlan prepares the model and a context runs it.              *)
(***************************************************************************)
EXTENDS OnnxWriter, OnnxImporter, CpuPlan

CONSTANTS
    Files,      \* [model, style]: what an exporter wrote, and how
    Passes,     \* the passes of a pipeline
    MaxPasses   \* bound: passes of one pipeline

VARIABLES
    file,       \* the file on disk
    stage,      \* how far its model is: "file", "refused", "model", "failed", "prepared", "ran"
    source,     \* the imported model
    model,      \* the model after the passes so far
    mapping,    \* where the pipeline took each value of the source
    last,       \* the last pass, or "none"
    passes,     \* how many there were
    plan,       \* the prepared plan
    results     \* the outputs of its run, by name

vars == <<file, stage, source, model, mapping, last, passes, plan, results>>

Nothing == <<>>

Init ==
    /\ file \in Files
    /\ stage = "file"
    /\ source = Nothing /\ model = Nothing /\ mapping = Nothing
    /\ last = "none" /\ passes = 0
    /\ plan = Nothing /\ results = Nothing

\* ProtobufModelParser::parse and OnnxImporter::import_model.
Imported(f) == Bind(ParseModel(WriteModel(f.style, f.model)), ImportModel)

\* OnnxImporter::load: any failure is one OnnxImportError.
Load ==
    /\ stage = "file"
    /\ IF Imported(file) = {}
       THEN stage' = "refused" /\ UNCHANGED <<source, model, mapping>>
       ELSE \E m \in Imported(file) :
              /\ stage' = "model"
              /\ source' = m /\ model' = m
              /\ mapping' = [v \in ValueIds(m.graph) |-> v]
    /\ UNCHANGED <<file, last, passes, plan, results>>

\* One round of PassManager::run.
Optimize(pass) ==
    LET kept == {r \in Run(pass, model) : InterfaceKept(model, r)}
    IN  /\ stage = "model" /\ passes < MaxPasses
        /\ last' = pass /\ passes' = passes + 1
        /\ IF kept = {}
           THEN stage' = "failed" /\ UNCHANGED <<model, mapping>>
           ELSE \E r \in kept :
                  /\ model' = r.model
                  /\ mapping' = Composed(mapping, r.mapping)
                  /\ UNCHANGED stage
        /\ UNCHANGED <<file, source, plan, results>>

\* CpuExecutionPlan's constructor.
Prepare ==
    /\ stage = "model"
    /\ IF PreparedPlan(model) = {}
       THEN stage' = "failed" /\ UNCHANGED plan
       ELSE stage' = "prepared" /\ plan' \in PreparedPlan(model)
    /\ UNCHANGED <<file, source, model, mapping, last, passes, results>>

\* CpuExecutionContext::run, and output for each name.
Execute ==
    /\ stage = "prepared"
    /\ stage' = "ran"
    /\ results' = RunPlan(plan)
    /\ UNCHANGED <<file, source, model, mapping, last, passes, plan>>

Next ==
    \/ Load
    \/ \E pass \in Passes : Optimize(pass)
    \/ Prepare
    \/ Execute

Spec == Init /\ [][Next]_vars

------------------------------------------------------------------------------
\* What a file means: a legal one has one graph of values known by name.

NamesOf(items) == [i \in DOMAIN items |-> items[i].name]
Initial(w) == Range(NamesOf(w.graph.initializers) \o NamesOf(w.graph.inputs))
Maker(w, name) == CHOOSE i \in DOMAIN w.graph.nodes : w.graph.nodes[i].outputs[1] = name

\* The names a graph defines, in whatever order its nodes come.
RECURSIVE Defined(_, _)
Defined(w, names) ==
    LET more == {n.outputs[1] : n \in {x \in Range(w.graph.nodes) : Range(x.inputs) \subseteq names}}
    IN  IF more \subseteq names THEN names ELSE Defined(w, names \cup more)

\* The spec of a name (a set), and its number as a term with ONNX's defaults.
RECURSIVE SpecOf(_, _)
SpecOf(w, name) ==
    LET given == SelectSeq(w.graph.initializers \o w.graph.inputs, LAMBDA x : x.name = name)
        node  == w.graph.nodes[Maker(w, name)]
        specs == [i \in DOMAIN node.inputs |-> SpecOf(w, node.inputs[i])]
    IN  IF given # <<>> THEN {given[1].spec}
        ELSE IF \E i \in DOMAIN specs : specs[i] = {} THEN {}
        ELSE UNION {InferOutputSpecs(t.op, [i \in DOMAIN specs |-> CHOOSE s \in specs[i] : TRUE],
                                     t.attributes) : t \in Translate(node, w.opset)}

RECURSIVE Meaning(_, _)
Meaning(w, name) ==
    LET data == SelectSeq(w.graph.initializers, LAMBDA x : x.name = name)
        node == w.graph.nodes[Maker(w, name)]
        args == [i \in DOMAIN node.inputs |-> Meaning(w, node.inputs[i])]
        said == Without(node.attributes, {"stash_type"})
    IN  IF data # <<>> THEN data[1].content
        ELSE IF name \in Initial(w) THEN InputTerm(name)
        ELSE CASE node.op_type = "Gelu" -> <<"GELU", args, said @@ [approximate |-> <<"s", "none">>]>>
               [] node.op_type = "LayerNormalization" ->
                     <<"LayerNorm", args, Without(said, {"axis"}) @@ [epsilon |-> <<"f", 5>>]>>
               [] OTHER -> Application(Translators[node.op_type][1], args, said)

\* The inputs a caller must bind.
Interface(w) == SelectSeq(NamesOf(w.graph.inputs),
                          LAMBDA n : n \notin Range(NamesOf(w.graph.initializers)))

Legal(w) ==
    /\ w.opset >= 13
    /\ IsInjective(NamesOf(w.graph.initializers)) /\ IsInjective(Interface(w))
    /\ \A i \in DOMAIN w.graph.inputs : SpecOf(w, w.graph.inputs[i].name) = {w.graph.inputs[i].spec}
    /\ \A i \in DOMAIN w.graph.nodes :
          /\ w.graph.nodes[i].domain \in {"", "ai.onnx"}
          /\ Len(w.graph.nodes[i].outputs) = 1 /\ w.graph.nodes[i].outputs[1] # NoName
    /\ IsInjective([i \in DOMAIN w.graph.nodes |-> w.graph.nodes[i].outputs[1]])
    /\ \A n \in Range(w.graph.nodes) :
          /\ n.outputs[1] \notin Initial(w)
          /\ Range(n.inputs) \subseteq Defined(w, Initial(w))
          /\ SpecOf(w, n.outputs[1]) # {}
    /\ w.graph.outputs # <<>> /\ IsInjective(NamesOf(w.graph.outputs))
    /\ \A o \in Range(w.graph.outputs) :
          o.name \in Defined(w, Initial(w)) /\ SpecOf(w, o.name) = {o.spec}

------------------------------------------------------------------------------
\* Properties

\* A file is refused exactly when it breaks the format or its graph is not
\* legal, whatever order its nodes and fields come in; what is imported has
\* the file's interface and computes what the file says.
\* (protobuf_model_parser.cpp and onnx_importer.cpp as a whole)
ImportsTheModel ==
    LET w == file.model
    IN  /\ stage = "refused" => file.style.fault # "none" \/ ~Legal(w)
        /\ stage = "model" /\ passes = 0 =>
              /\ file.style.fault = "none" /\ Legal(w)
              /\ NamesOf(source.inputs) = Interface(w)
              /\ NamesOf(source.outputs) = NamesOf(w.graph.outputs)
              /\ \A i \in DOMAIN source.outputs :
                    Terms(source.graph)[source.outputs[i].value]
                        = Meaning(w, source.outputs[i].name)

\* No pass ever fails on a legal model, and whatever passes ran before, every
\* value that is still mapped is the number it was in the source model; the
\* interface is mapped, and an unmapped value is gone for good.
\* (what PassManager::run checks, and what the fusing passes rely on)
PassesKeepTheModel ==
    /\ stage # "failed"
    /\ stage = "model" =>
          LET before == Terms(source.graph)
              after  == Terms(model.graph)
          IN  /\ \A v \in DOMAIN mapping : mapping[v] # None => after[mapping[v]] = before[v]
              /\ \A i \in DOMAIN source.inputs :
                    mapping[source.inputs[i].value] = model.inputs[i].value
              /\ \A i \in DOMAIN source.outputs :
                    mapping[source.outputs[i].value] = model.outputs[i].value

\* A pass leaves nothing of its own kind to do: the same pass run again finds
\* no dead value, no constant to fold, no pair to fuse.
OnePassIsEnough ==
    stage = "model" /\ last # "none" => \A r \in Run(last, model) : ~r.changed

\* A prepared run gives each output of the imported model its value, with the
\* weights packed once for all the products that share them.
PreparedRunAgrees ==
    stage = "ran" =>
        results = [i \in DOMAIN source.outputs |->
                      [name |-> source.outputs[i].name,
                       term |-> Terms(source.graph)[source.outputs[i].value]]]

==============================================================================

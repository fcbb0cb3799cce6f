---------------------------- MODULE MCPipelines -----------------------------
(* Pipelines of three stages a, b, c, each needing the one before it.      *)
EXTENDS Definitions, TLC

CONSTANTS a, b, c, k1, k2, Unknown

Stages == {a, b, c}

Chain == [s \in Stages |-> CASE s = a -> {} [] s = b -> {a} [] s = c -> {b}]

Shape(lanes, samples, scope, form, if, retention, input) ==
  [lanes |-> lanes, samples |-> samples, order |-> <<a, b, c>>, needs |-> Chain,
   scope |-> scope, form |-> form, if |-> if, retention |-> retention, input |-> input]

By(x, y, z) == (a :> x) @@ (b :> y) @@ (c :> z)

(* Runner, a script per lane, a script that reports on all lanes.          *)
Report == Shape(2, {k1}, By("matrix", "matrix", "pipeline"), By("runner", "script", "script"),
                By("success()", "success()", "always()"),
                By("matrix", "pipeline", "keep"), By(Dataset, Dataset, Dataset))

(* Two lanes, a script that reports on both, a runner at all events.       *)
Gather == [Report EXCEPT !.scope = By("matrix", "pipeline", "pipeline"),
                         !.form = By("runner", "script", "runner"),
                         !.if = By("success()", "success()", "always()"),
                         !.retention = By("matrix", "keep", "keep")]

(* A script prepares the dataset, generator and evaluator per lane; the    *)
(* evaluator has the shortest name and comes first.                        *)
Evaluate ==
  [Shape(2, {k1}, By("pipeline", "matrix", "matrix"), By("script", "runner", "runner"),
         By("success()", "success()", "success()"),
         By("none", "matrix", "keep"), By(Dataset, Dataset, b))
   EXCEPT !.order = <<c, a, b>>]

(* A runner for the whole pipeline reads every lane, which is refused when *)
(* both have the sample; a script follows.                                 *)
Collect == [Gather EXCEPT !.form = By("runner", "runner", "script"),
                          !.if = By("success()", "success()", "success()"),
                          !.input = By(Dataset, a, Dataset)]

(* One lane, two samples: a runner needs another and the script whose      *)
(* output it reads, which goes with the lane.                              *)
Prepared ==
  [Shape(1, {k1, k2}, By("matrix", "matrix", "matrix"), By("runner", "script", "runner"),
         By("success()", "success()", "success()"),
         By("matrix", "matrix", "keep"), By(Dataset, Dataset, b))
   EXCEPT !.order = <<c, a, b>>, !.needs = By({}, {a}, {a, b})]

(* The dataset target matches no sample.                                   *)
Vacant == [Evaluate EXCEPT !.samples = {}]

Definitions == {Gather, Evaluate, Collect, Prepared, Vacant}
Reports == {Report}
Keys == {k1, k2}

(* Pipeline files: every graph of three stages with up to two needs each,  *)
(* and every choice of the fields of one stage and of what it reads.       *)
Runner == [runner |-> TRUE, image |-> FALSE, run |-> FALSE, needs |-> Absent, if |-> Absent,
           scope |-> Absent, retention |-> Absent, input |-> Absent]
Ids == Stages \cup {Unknown}
Lists == {<<>>} \cup {<<s>> : s \in Ids} \cup (Ids \X Ids)
File(fields, matrix) == [order |-> <<a, b, c>>, field |-> fields, matrix |-> matrix]
Graphs3 == {File([s \in Stages |-> [Runner EXCEPT !.needs = needs[s]]], <<>>) :
             needs \in [Stages -> Lists \cup {Absent}]}
Fields == [runner : BOOLEAN, image : BOOLEAN, run : BOOLEAN, needs : {Absent, <<a>>, <<c, a>>},
           if : {Absent, "always()", Unknown}, scope : {Absent, "pipeline", Unknown},
           retention : {Absent, "none", Unknown}, input : {Absent, Dataset, a, b, c, Unknown}]
FieldChoices == {File(By([Runner EXCEPT !.retention = first], field, Runner), <<<<1>>, <<1, 2>>>>) :
             first \in {Absent, "none"}, field \in Fields}
Matrices == {File(By(Runner, Runner, Runner), m) : m \in {<<>>, <<<<>>>>, <<<<1, 2>>, <<>>>>, <<<<1, 1>>>>}}
Files == Graphs3 \cup FieldChoices \cup Matrices
=============================================================================

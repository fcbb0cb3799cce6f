---------------------------- MODULE Definitions ----------------------------
(***************************************************************************)
(* load_pipeline (domain/pipelines.py): which pipeline files are accepted  *)
(* and what becomes of them.  Valid, which Pipelines assumes of its        *)
(* definitions, is the reference for what is accepted; here it is computed *)
(* as the code does, with its search for cycles.                           *)
(***************************************************************************)
EXTENDS Pipelines, SequencesExt

CONSTANTS Absent,       \* the value of a field that is not there or is empty
          Raw           \* pipeline files: the ids of their stages in a row, the fields of
                        \* each stage, the lists of the matrix

Or(value, default) == IF value = Absent THEN default ELSE value

\* A loop: step[found][item], over the items of a sequence in their order.
Along(step, start, seq) ==
  LET found[i \in 0 .. Len(seq)] == IF i = 0 THEN start ELSE step[found[i - 1]][seq[i]]
  IN found[Len(seq)]

(***************************************************************************)
(* Needs: one id or a list of them, without repetition.                    *)
(***************************************************************************)
NormalizeNeeds(raw) ==
  IF raw = Absent THEN <<>>
  ELSE Along([needs \in Seq(ToSet(raw)) |-> [id \in ToSet(raw) |->
                IF Contains(needs, id) THEN needs ELSE Append(needs, id)]], <<>>, raw)

NeedsAccepted(s, raw) == raw # Absent => raw # <<>> /\ ~Contains(raw, s)

\* Where the search is: the stages on the way to it, those it is done with.
Search == [visiting : SUBSET Stage, visited : SUBSET Stage, cycle : BOOLEAN]

\* A stage that is met again while it is being visited closes a cycle.
VisitStage(below, needs, search, s) ==
  IF search.cycle \/ s \in search.visited THEN search
  ELSE IF s \in search.visiting THEN [search EXCEPT !.cycle = TRUE]
  ELSE [Along(below, [search EXCEPT !.visiting = @ \cup {s}], needs[s])
          EXCEPT !.visiting = @ \ {s}, !.visited = @ \cup {s}]

\* Depth first.  A visit below as many others as there are stages meets one of them again.
Visit(needs, depth) ==
  LET visit[d \in 0 .. depth] ==
        IF d = 0 THEN [search \in Search |-> [s \in Stage |-> [search EXCEPT !.cycle = TRUE]]]
        ELSE [search \in Search |-> [s \in Stage |-> VisitStage(visit[d - 1], needs, search, s)]]
  IN visit[depth]

NothingVisited == [visiting |-> {}, visited |-> {}, cycle |-> FALSE]

\* Mutant: visits what the first stage depends on.
VisitFromFirst(order, needs) ==
  /\ \A s \in ToSet(order) : ToSet(needs[s]) \subseteq ToSet(order)
  /\ ~Visit(needs, Len(order))[NothingVisited][Head(order)].cycle

ValidateDependencyGraph(order, needs) ==
  /\ \A s \in ToSet(order) : ToSet(needs[s]) \subseteq ToSet(order)
  /\ ~Along(Visit(needs, Len(order)), NothingVisited, order).cycle

(***************************************************************************)
(* The fields of a stage: those of a runner or those of a script.          *)
(***************************************************************************)
StageAccepted(s, field) ==
  /\ field.runner # (field.image \/ field.run)
  /\ ~field.runner => field.image /\ field.run /\ field.input = Absent
  /\ NeedsAccepted(s, field.needs)
  /\ field.if \in {Absent, "success()", "always()"}
  /\ field.scope \in {Absent, "matrix", "pipeline"}
  /\ field.retention \in {Absent, "keep", "pipeline", "matrix", "none"}

\* A stage whose outputs are read is needed and keeps them.
InputsAccepted(needs, retention, input) ==
  \A s \in DOMAIN input : input[s] # Dataset =>
    Contains(needs[s], input[s]) /\ retention[input[s]] # "none"

\* matrix_lanes: the product of the matrix's lists; one lane without a matrix.
MatrixLanes(matrix) ==
  Along([lanes \in Nat |-> [values \in Nat |-> lanes * values]], 1,
        [i \in 1 .. Len(matrix) |-> Len(matrix[i])])

(***************************************************************************)
(* What is a file here: its stages are the keys of a mapping, so that each *)
(* id of Stage comes once; needs, if they are there, and the matrix are    *)
(* lists, of no more lanes than MaxLanes says.                             *)
(***************************************************************************)
ASSUME RawAssumption ==
  \A raw \in Raw :
    /\ raw.order \in Seq(Stage) /\ ToSet(raw.order) = Stage
    /\ \A i, k \in 1 .. Len(raw.order) : raw.order[i] = raw.order[k] => i = k
    /\ \A s \in Stage : raw.field[s].needs # Absent =>
         raw.field[s].needs \in Seq(ToSet(raw.field[s].needs))
    /\ raw.matrix \in Seq(ToSet(raw.matrix)) /\ MatrixLanes(raw.matrix) <= MaxLanes
    /\ \A i \in 1 .. Len(raw.matrix) :
         raw.matrix[i] \in Seq(ToSet(raw.matrix[i])) /\ Len(raw.matrix[i]) <= MaxLanes

(***************************************************************************)
(* The result: no definition, or the one that is stored for a run.         *)
(***************************************************************************)
LoadPipeline(raw) ==
  LET ids == ToSet(raw.order)
      needs == [s \in ids |-> NormalizeNeeds(raw.field[s].needs)]
      retention == [s \in ids |-> Or(raw.field[s].retention, "keep")]
      input == [s \in ids |-> Or(raw.field[s].input, Dataset)]
  IN IF /\ \A i \in 1..Len(raw.matrix) : raw.matrix[i] # <<>>
        /\ \A s \in ids : StageAccepted(s, raw.field[s])
        /\ ValidateDependencyGraph(raw.order, needs)
        /\ InputsAccepted(needs, retention, input)
     THEN {[lanes |-> MatrixLanes(raw.matrix), samples |-> Key, order |-> raw.order,
            needs |-> [s \in ids |-> ToSet(needs[s])],
            scope |-> [s \in ids |-> Or(raw.field[s].scope, "matrix")],
            form |-> [s \in ids |-> IF raw.field[s].runner THEN "runner" ELSE "script"],
            if |-> [s \in ids |-> Or(raw.field[s].if, "success()")],
            retention |-> retention, input |-> input]}
     ELSE {}

(***************************************************************************)
(* Property.                                                               *)
(***************************************************************************)
\* A lane has one value, given by its place, of every list of the matrix.
Combinations(matrix) ==
  {values \in [1 .. Len(matrix) -> 1 .. MaxLanes] :
     \A i \in 1 .. Len(matrix) : values[i] <= Len(matrix[i])}

\* What the file says, read field by field, whether or not it makes sense.
Meant(raw) ==
  [lanes |-> Cardinality(Combinations(raw.matrix)), samples |-> Key, order |-> raw.order,
   needs |-> [s \in Stage |-> IF raw.field[s].needs = Absent THEN {} ELSE ToSet(raw.field[s].needs)],
   scope |-> [s \in Stage |-> Or(raw.field[s].scope, "matrix")],
   form |-> [s \in Stage |-> IF raw.field[s].runner THEN "runner" ELSE "script"],
   if |-> [s \in Stage |-> Or(raw.field[s].if, "success()")],
   retention |-> [s \in Stage |-> Or(raw.field[s].retention, "keep")],
   input |-> [s \in Stage |-> Or(raw.field[s].input, Dataset)]]

LoadsTheValid ==
  \A raw \in Raw :
    LoadPipeline(raw) = IF (\A s \in Stage : StageAccepted(s, raw.field[s])) /\ Valid(Meant(raw))
                        THEN {Meant(raw)} ELSE {}

\* The configuration that a pass fetches was accepted by load_pipeline, which accepts a
\* file whose stages pass their own checks if and only if what the file means is
\* Valid: ids known, no cycle anywhere, inputs needed and kept.  A stage that is
\* reached in several ways is no cycle, a cycle that the first stage does not
\* lead to is found, and a repeated need counts once.
FetchedIsValid == at = "fetch" => Valid(config) /\ LoadsTheValid
=============================================================================

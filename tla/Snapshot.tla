------------------------------ MODULE Snapshot ------------------------------
(***************************************************************************)
(* _repl_collect_vars (repl/prefix.py) and the rehydrate frame             *)
(* (repl/kernel.py): what of a namespace comes through a restart of the    *)
(* kernel, what does not, and what the next cell is told of it.            *)
(*                                                                         *)
(* A cell binds a name to an object.  What matters of it is what dill does *)
(* with it: a "stuck" object fails at dumps, one "by reference" at loads   *)
(* in a new kernel, a "big" one is over _REPL_VAR_SIZE_MAX.  Policies go   *)
(* by value or by their source, constraint classes by a recipe.            *)
(***************************************************************************)
EXTENDS Constraints

CONSTANTS
  Vars,        \* names that cells bind to values and constraints
  Policies,    \* names of authored policies
  Specs        \* what authors bind to names

ASSUME SpecsAssumption == Specs \subseteq Terms

VARIABLES
  main,        \* __main__: names bound by cells
  snap,        \* the last snapshot, in the parent
  notes,       \* names in the rehydrate notes of this kernel
  written,     \* history: what the author of each constraint wrote
  saved,       \* history: main when the snapshot was taken
  fresh        \* history: no cell has run since the restart

vars == <<main, snap, notes, written, saved, fresh>>

ValueKinds  == {"plain", "stuck", "byref", "big"}
PolicyKinds == {"value", "foreign", "source", "broken"}

Plain(kind) == [kind |-> kind]

\* dill.dumps fails for a class policy, whose source then stands for it, and for what holds a
\* lock; a function that refers to a class of the old __main__ fails at loads.
Dumps(obj) == obj.kind \notin {"stuck", "source", "broken"}
Loads(obj) == obj.kind \notin {"byref", "foreign"}

RecipeDumps(class) == "locked" \notin FunctionsOf(class)
RecipeLoads(class) == "foreign" \notin FunctionsOf(class)

Pick(f, S) == [n \in DOMAIN f \cap S |-> f[n]]

-----------------------------------------------------------------------------
(* Taking a snapshot *)

Constraints(m) == {n \in DOMAIN m : m[n].kind = "class"}
Saved(m)       == {n \in DOMAIN m \ Constraints(m) : Dumps(m[n]) /\ m[n].kind # "big"}

\* Mutated: a name whose probe fails is left out without a word.
Dropped_Silently(m) == {n \in Constraints(m) : ~RecipeDumps(m[n].class)}

\* _constraint_dropped and _var_dropped
Dropped(m) ==
  {n \in Constraints(m) : ~RecipeDumps(m[n].class)}
    \cup {n \in DOMAIN m \ Constraints(m) : ~Dumps(m[n])}

\* The wrapper: the combined blob, unless its dump failed, and a blob for each object.
Collect(m, combined) ==
  [combined |-> combined,
   vars     |-> Pick(m, Saved(m)),
   policies |-> Pick(m, Saved(m) \cap Policies),
   sources  |-> Pick(m, Policies \ Saved(m)),
   recipes  |-> [n \in {c \in Constraints(m) : RecipeDumps(m[c].class)} |-> ToRecipe(m[n].class)],
   foreign  |-> {n \in Constraints(m) : ~RecipeLoads(m[n].class)},
   dropped  |-> Dropped(m)]

-----------------------------------------------------------------------------
(* Rehydrating *)

Rebuilt(recipe) == [kind |-> "class", class |-> FromRecipe(recipe)]

Unloadable(s) ==
  {n \in DOMAIN s.vars : ~Loads(s.vars[n])} \cup (s.foreign \cap DOMAIN s.recipes)

CombinedLoads(s) == s.combined /\ Unloadable(s) = {}

\* Objects that do not load one by one: vars, policies without a source, and recipes.
LoadFailures(s) == IF CombinedLoads(s) THEN {} ELSE Unloadable(s)

\* Sources whose body does not run again.
ReplayFailures(s) == {p \in DOMAIN s.sources : s.sources[p].kind = "broken"}

Recovered(s) ==
  LET byValue  == DOMAIN s.vars \ LoadFailures(s)
      bySource == DOMAIN s.sources \ ReplayFailures(s)
      byRecipe == DOMAIN s.recipes \ LoadFailures(s)
  IN  [n \in byValue \cup bySource \cup byRecipe |->
         IF n \in byRecipe THEN Rebuilt(s.recipes[n])
         ELSE IF n \in bySource THEN s.sources[n] ELSE s.vars[n]]

NotesOf(s) == s.dropped \cup LoadFailures(s) \cup ReplayFailures(s)

-----------------------------------------------------------------------------
Init ==
  /\ main = <<>> /\ notes = {} /\ written = <<>> /\ saved = <<>> /\ fresh = FALSE
  /\ snap = Collect(<<>>, TRUE)

\* A cell ends with m in __main__: its answer carries a snapshot of it.
CellEnds(m) ==
  /\ main' = m /\ saved' = m /\ fresh' = FALSE /\ notes' = {}
  /\ \E combined \in BOOLEAN : snap' = Collect(m, combined)

With(f, n, x) == [m \in DOMAIN f \cup {n} |-> IF m = n THEN x ELSE f[m]]

BindValue(n, kind) ==
  /\ CellEnds(With(main, n, Plain(kind)))
  /\ written' = Pick(written, DOMAIN main \ {n})

\* A class statement or a call of Constraint.field, with bounds that can be met.
BindConstraint(n, spec) ==
  /\ Definable(spec)
  /\ CellEnds(With(main, n, [kind |-> "class", class |-> Define(spec)]))
  /\ written' = With(Pick(written, DOMAIN main), n, spec)

Delete(n) ==
  /\ n \in DOMAIN main
  /\ CellEnds(Pick(main, DOMAIN main \ {n}))
  /\ written' = Pick(written, DOMAIN main \ {n})

\* A new kernel is given the last snapshot.
Restart ==
  /\ main' = Recovered(snap)
  /\ notes' = NotesOf(snap)
  /\ fresh' = TRUE
  /\ UNCHANGED <<snap, written, saved>>

Next ==
  \/ \E n \in Vars, kind \in ValueKinds : BindValue(n, kind)
  \/ \E p \in Policies, kind \in PolicyKinds : BindValue(p, kind)
  \/ \E n \in Vars, spec \in Specs : BindConstraint(n, spec)
  \/ \E n \in Vars \cup Policies : Delete(n)
  \/ Restart

Spec == Init /\ [][Next]_vars

-----------------------------------------------------------------------------
(* Properties *)

\* What does not come through a restart is named in the notes of the next cell, whichever step
\* lost it and whichever path restored the rest (kernel.py:217-218), but for variables over the
\* size limit, which prefix.py:196-197 leaves out without a word.
LostIsNamed ==
  fresh => {n \in DOMAIN saved \ DOMAIN main : saved[n].kind # "big"} \subseteq notes

Live == {n \in DOMAIN main : main[n].kind = "class"}

\* A constraint does with every value what its author wrote, the coercers from left to right,
\* then the type, then every check and validator, however often it was rebuilt from its recipe
\* (base.py:102-103; the recipe "validates IDENTICALLY", tests/test_constraint.py:1383-1385).
ConstraintsMean ==
  \A n \in Live, v \in Inputs : Validate(main[n].class, v) = Means(written[n], v)

\* The schema that steers the model agrees with the checks: it admits what validate() returns,
\* and nothing that a bound rejects, also for nested constraints (base.py:751-752).
BoundsExported ==
  \A n \in Live, v \in Inputs :
    LET class  == main[n].class
        schema == Schema(class)
        result == Validate(class, v)
    IN  /\ result # Reject => Admits(schema, result)
        /\ Admits(schema, v) => PassesBounds(class, v)

\* What the proofs use: the last snapshot is one of the namespace as the last cell left it, and
\* the namespace is still that one, or what the restart made of the snapshot.
IsSnapshot(s, m) == \E combined \in BOOLEAN : s = Collect(m, combined)

SavedOrRecovered ==
  IF fresh THEN main = Recovered(snap) /\ notes = NotesOf(snap) ELSE main = saved

IInv == IsSnapshot(snap, saved) /\ SavedOrRecovered

=============================================================================

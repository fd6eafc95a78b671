----------------------------- MODULE Constraints -----------------------------
(***************************************************************************)
(* constraint/base.py and constraint/snapshot.py: Constraint.field and     *)
(* structural constraints as the engine builds them, what validate() and   *)
(* json_schema() do with them, and the recipe by which they survive a      *)
(* restart of the kernel.                                                  *)
(*                                                                         *)
(* A value is a pair of a tag and its content.  A term is a type or a      *)
(* constraint as its author writes it, a record with a kind:               *)
(*   int;  list: the type of its elements;                                 *)
(*   field: the type, the coercers and the refining kwargs;                *)
(*   structural: its fields, class variables and validators.               *)
(* Classes and recipes are records of the same kinds.                      *)
(*                                                                         *)
(* What the engine does follows this structure.  Each operator that does   *)
(* is a constant, and its body, XBody for X, says what it does with one    *)
(* level, in terms of what X does below.  SnapshotMC gives each X its      *)
(* body, which closes the recursion; the proofs take it as an equation.    *)
(***************************************************************************)
EXTENDS Integers, Sequences, FiniteSets, SequencesExt

CONSTANTS
  None,
  Terms,     \* what authors write, with everything that is nested in it
  Inputs     \* values to validate, with everything that is nested in them

CONSTANTS
  Define(_), Validate(_, _), Schema(_), ToRecipe(_), FromRecipe(_), FunctionsOf(_),
  Means(_, _), Admits(_, _), PassesBounds(_, _),
  FromLast(_, _), FromFirst(_, _),   \* coercers, run from the last to the first and back
  Merged(_, _),                      \* a schema's keywords with a set of fragments
  Depth(_)                           \* of a term

Num(n)  == <<"num", n>>
Text(n) == <<"text", n>>      \* a string of digits
Arr(s)  == <<"list", s>>
Obj(f)  == <<"obj", f>>
Reject  == <<"reject">>       \* ConstraintViolation

List(type) == [kind |-> "list", of |-> type]

-----------------------------------------------------------------------------
(* Predicates: a kwarg with its argument *)

Intervals == {"int_range", "float_range"}
Bounds    == {"int_gt", "int_ge", "int_lt", "int_le",
              "float_gt", "float_ge", "float_lt", "float_le"}
Sizes     == {"list_length", "set_length"}
Refining  == Intervals \cup Bounds \cup Sizes
               \cup {"multiple_of", "not_one_of", "not_empty", "unique", "sorted", "monotonic",
                     "predicate"}

Between(m, range) == /\ range[1] # None => m >= range[1]
                     /\ range[2] # None => m <= range[2]

\* _cmp_check, by the last two letters of the kwarg
Compares(kw, m, bound) ==
  /\ kw \in {"int_gt", "float_gt"} => m > bound
  /\ kw \in {"int_ge", "float_ge"} => m >= bound
  /\ kw \in {"int_lt", "float_lt"} => m < bound
  /\ kw \in {"int_le", "float_le"} => m <= bound

Ascending(s, strict) ==
  /\ \A i \in DOMAIN s : s[i][1] = "num"
  /\ \A i \in 1 .. Len(s) - 1 : IF strict THEN s[i][2] < s[i + 1][2] ELSE s[i][2] <= s[i + 1][2]

\* A value that a check cannot evaluate is rejected by it: _wrap_predicate.
NumberCheck(kw, arg, m) ==
  CASE kw \in Intervals     -> Between(m, arg)
    [] kw \in Bounds        -> Compares(kw, m, arg)
    [] kw = "multiple_of"   -> m % arg = 0
    [] kw = "not_one_of"    -> m \notin arg
    [] kw = "predicate"     -> m % 2 = 0     \* every function a cell defines: even numbers pass
    [] OTHER                -> FALSE

ListCheck(kw, arg, s) ==
  CASE kw \in Sizes         -> Between(Len(s), arg)
    [] kw = "not_empty"     -> Len(s) > 0
    [] kw = "unique"        -> IsInjective(s)
    [] kw = "sorted"        -> Ascending(s, FALSE)
    [] kw = "monotonic"     -> Ascending(s, arg = "strict")
    [] kw = "not_one_of"    -> TRUE
    [] OTHER                -> FALSE

Holds(kw, arg, v) ==
  CASE v[1] = "num"  -> NumberCheck(kw, arg, v[2])
    [] v[1] = "list" -> ListCheck(kw, arg, v[2])
    [] OTHER         -> kw = "not_one_of"

\* The keywords that a predicate adds to the schema, with their values.
Fragment(kw, arg) ==
  LET pair(lo, hi) == {<<lo, arg[1]>>, <<hi, arg[2]>>}
      frag == CASE kw \in Intervals              -> pair("minimum", "maximum")
                [] kw \in Sizes                  -> pair("minItems", "maxItems")
                [] kw \in {"int_gt", "float_gt"} -> {<<"exclusiveMinimum", arg>>}
                [] kw \in {"int_ge", "float_ge"} -> {<<"minimum", arg>>}
                [] kw \in {"int_lt", "float_lt"} -> {<<"exclusiveMaximum", arg>>}
                [] kw \in {"int_le", "float_le"} -> {<<"maximum", arg>>}
                [] kw = "multiple_of"            -> {<<"multipleOf", arg>>}
                [] kw = "unique"                 -> {<<"uniqueItems", 1>>}
                [] OTHER                         -> {}
  IN  {f \in frag : f[2] # None}

-----------------------------------------------------------------------------
(* Building *)

\* Bounds in the wrong order, and multiples of zero, are refused.
Buildable(refine) ==
  /\ \A kw \in DOMAIN refine \cap (Intervals \cup Sizes) :
       None \notin {refine[kw][1], refine[kw][2]} => refine[kw][1] <= refine[kw][2]
  /\ "multiple_of" \in DOMAIN refine => refine["multiple_of"] # 0

\* The metadata of the annotation: each coercer is wrapped around those that follow it.
Annotate(coercers) == Reverse(coercers)

Definable(spec) == spec.kind = "field" => Buildable(spec.refine)

\* _build_factory, and the facade that Constraint.field makes of it.
Build(type, coercers, refine) ==
  [kind |-> "field", type |-> type, before |-> Annotate(coercers), after |-> refine,
   kwargs |-> [type |-> type, coercers |-> coercers, refine |-> refine]]

\* type(name, (Constraint,), namespace): a later validator of the same key replaces an earlier.
Class(fields, members, validators) ==
  [kind |-> "structural", fields |-> fields, members |-> members, validators |-> validators]

\* A type with its constraints compiled.
Compiled(type) == IF type.kind = "list" THEN List(Define(type.of)) ELSE type

\* What an author wrote becomes a class.
DefineBody(term) ==
  CASE term.kind = "field"      -> Build(Define(term.type), term.coercers, term.refine)
    [] term.kind = "structural" -> Class([f \in DOMAIN term.fields |-> Define(term.fields[f])],
                                         term.members, term.validators)
    [] OTHER                    -> Compiled(term)

-----------------------------------------------------------------------------
(* validate() *)

Coercers == {"double", "inc"}

\* A coercer that fails on a value rejects it: _wrap_coercer.
Coerced(coercer, v) ==
  IF v[1] # "num" THEN Reject
  ELSE CASE coercer = "double" -> Num(2 * v[2])
         [] coercer = "inc"    -> Num(v[2] + 1)

\* A validator of a class: a rule on its fields and class variables.
Obeys(class, rule, obj) ==
  CASE rule = "ordered" -> obj["low"][2] <= obj["high"][2]
    [] rule = "capped"  -> "cap" \in DOMAIN class.members /\ obj["high"][2] <= class.members["cap"]

\* Pydantic runs the coercers from the last in the metadata to the first.
FromLastBody(coercers, v) ==
  IF coercers = <<>> THEN v ELSE FromLast(Front(coercers), Coerced(Last(coercers), v))

AsNumber(v) == IF v[1] \in {"num", "text"} THEN Num(v[2]) ELSE Reject

\* Each element, unless one is rejected.
Elements(s) == IF \E i \in DOMAIN s : s[i] = Reject THEN Reject ELSE Arr(s)

Typed(type, v) ==
  IF type.kind = "int" THEN AsNumber(v)
  ELSE IF v[1] # "list" THEN Reject
  ELSE Elements([i \in DOMAIN v[2] |-> Validate(type.of, v[2][i])])

ValidField(class, v) ==
  LET pre == FromLast(class.before, v)
      w   == IF pre = Reject THEN Reject ELSE Validate(class.type, pre)
  IN  IF w # Reject /\ \A kw \in DOMAIN class.after : Holds(kw, class.after[kw], w)
        THEN w ELSE Reject

ValidObject(class, v) ==
  IF ~(v[1] = "obj" /\ DOMAIN class.fields \subseteq DOMAIN v[2]) THEN Reject
  ELSE LET obj == [f \in DOMAIN class.fields |-> Validate(class.fields[f], v[2][f])]
       IN  IF /\ \A f \in DOMAIN obj : obj[f] # Reject
              /\ \A key \in DOMAIN class.validators : Obeys(class, class.validators[key].rule, obj)
             THEN Obj(obj) ELSE Reject

ValidateBody(class, v) ==
  CASE class.kind = "field"      -> ValidField(class, v)
    [] class.kind = "structural" -> ValidObject(class, v)
    [] OTHER                     -> Typed(class, v)

-----------------------------------------------------------------------------
(* json_schema(): a type, its keywords, and the schemas of its items or properties *)

TightenMax == {"minimum", "exclusiveMinimum", "minItems"}
TightenMin == {"maximum", "exclusiveMaximum", "maxItems"}

Larger(a, b)  == IF a >= b THEN a ELSE b
Smaller(a, b) == IF a <= b THEN a ELSE b

\* Mutated: the last bound wins.
Merge_LastWins(keys, frag) ==
  [k \in DOMAIN keys \cup {frag[1]} |-> IF k = frag[1] THEN frag[2] ELSE keys[k]]

\* _merge_schema_fragment
Merge(keys, frag) ==
  [k \in DOMAIN keys \cup {frag[1]} |->
     IF k # frag[1] THEN keys[k]
     ELSE IF k \notin DOMAIN keys THEN frag[2]
     ELSE IF k \in TightenMax THEN Larger(keys[k], frag[2])
     ELSE IF k \in TightenMin THEN Smaller(keys[k], frag[2])
     ELSE frag[2]]

MergedBody(keys, frags) ==
  IF frags = {} THEN keys
  ELSE LET frag == CHOOSE f \in frags : TRUE
       IN  Merged(Merge(keys, frag), frags \ {frag})

\* The keywords of all predicates.
Fragments(refine) == UNION {Fragment(kw, refine[kw]) : kw \in DOMAIN refine}

\* The type gives the skeleton; the fragments are merged into it.
Skeleton(type) ==
  IF type.kind = "int" THEN [type |-> "integer", keys |-> <<>>, nested |-> {}]
  ELSE [type |-> "array", keys |-> <<>>, nested |-> Schema(type.of)]

SchemaBody(class) ==
  CASE class.kind = "field" ->
         LET base == Schema(class.type)
         IN  [type |-> base.type, nested |-> base.nested,
              keys |-> Merged(base.keys, Fragments(class.after))]
    [] class.kind = "structural" ->
         [type |-> "object", keys |-> <<>>,
          nested |-> [f \in DOMAIN class.fields |-> Schema(class.fields[f])]]
    [] OTHER -> Skeleton(class)

-----------------------------------------------------------------------------
(* Recipes *)

\* Mutated: a validator is known by the name of its function.
ValidatorsOf_ByName(class) ==
  LET names == {class.validators[k].name : k \in DOMAIN class.validators}
  IN  [n \in names |-> CHOOSE v \in Range(class.validators) : v.name = n]

\* Validators travel under the names they have in the class.
ValidatorsOf(class) == class.validators

TypeSpec(type) == IF type.kind = "list" THEN List(ToRecipe(type.of)) ELSE type

ToRecipeBody(class) ==
  CASE class.kind = "field"      -> [kind |-> "field",
                                     kwargs |-> [class.kwargs EXCEPT !.type = ToRecipe(@)]]
    [] class.kind = "structural" -> [kind |-> "structural",
                                     fields |-> [f \in DOMAIN class.fields |->
                                                   ToRecipe(class.fields[f])],
                                     members |-> class.members,
                                     validators |-> ValidatorsOf(class)]
    [] OTHER                     -> TypeSpec(class)

SpecType(spec) == IF spec.kind = "list" THEN List(FromRecipe(spec.of)) ELSE spec

FromRecipeBody(recipe) ==
  CASE recipe.kind = "field"      -> Build(FromRecipe(recipe.kwargs.type),
                                           recipe.kwargs.coercers, recipe.kwargs.refine)
    [] recipe.kind = "structural" -> Class([f \in DOMAIN recipe.fields |->
                                              FromRecipe(recipe.fields[f])],
                                           recipe.members, recipe.validators)
    [] OTHER                      -> SpecType(recipe)

\* The functions that a class carries: dill has to pickle them with the recipe.
FunctionsIn(type) == IF type.kind = "list" THEN FunctionsOf(type.of) ELSE {}

FunctionsOfBody(class) ==
  CASE class.kind = "field"      -> FunctionsOf(class.type)
                                      \cup {class.after[kw] : kw \in DOMAIN class.after
                                                                        \cap {"predicate"}}
    [] class.kind = "structural" -> UNION {FunctionsOf(class.fields[f]) : f \in DOMAIN class.fields}
    [] OTHER                     -> FunctionsIn(class)

-----------------------------------------------------------------------------
(* What a constraint means, and what a schema says *)

\* "coercer(s) -> type coercer -> predicate(s)", left to right (base.py:102-103).
FromFirstBody(coercers, v) ==
  IF coercers = <<>> THEN v ELSE FromFirst(Tail(coercers), Coerced(Head(coercers), v))

MeansBody(term, v) ==
  CASE term.kind = "int"        -> AsNumber(v)
    [] term.kind = "list"       ->
         IF v[1] = "list" /\ \A i \in DOMAIN v[2] : Means(term.of, v[2][i]) # Reject
           THEN Arr([i \in DOMAIN v[2] |-> Means(term.of, v[2][i])]) ELSE Reject
    [] term.kind = "field"      ->
         LET w == Means(term.type, FromFirst(term.coercers, v))
         IN  IF w # Reject /\ \A kw \in DOMAIN term.refine : Holds(kw, term.refine[kw], w)
               THEN w ELSE Reject
    [] term.kind = "structural" ->
         IF /\ v[1] = "obj" /\ DOMAIN term.fields \subseteq DOMAIN v[2]
            /\ \A f \in DOMAIN term.fields : Means(term.fields[f], v[2][f]) # Reject
           THEN LET obj == [f \in DOMAIN term.fields |-> Means(term.fields[f], v[2][f])]
                IN  IF \A key \in DOMAIN term.validators :
                            Obeys(term, term.validators[key].rule, obj)
                      THEN Obj(obj) ELSE Reject
           ELSE Reject

\* JSON Schema: v satisfies the keyword k with the value x.
Satisfies(k, x, v) ==
  /\ k = "minimum"          => v[2] >= x
  /\ k = "exclusiveMinimum" => v[2] > x
  /\ k = "maximum"          => v[2] <= x
  /\ k = "exclusiveMaximum" => v[2] < x
  /\ k = "multipleOf"       => v[2] % x = 0
  /\ k = "minItems"         => Len(v[2]) >= x
  /\ k = "maxItems"         => Len(v[2]) <= x
  /\ k = "uniqueItems"      => IsInjective(v[2])

AdmitsBody(schema, v) ==
  CASE schema.type = "integer" ->
         v[1] = "num" /\ \A k \in DOMAIN schema.keys : Satisfies(k, schema.keys[k], v)
    [] schema.type = "array" ->
         /\ v[1] = "list" /\ \A k \in DOMAIN schema.keys : Satisfies(k, schema.keys[k], v)
         /\ \A i \in DOMAIN v[2] : Admits(schema.nested, v[2][i])
    [] schema.type = "object" ->
         /\ v[1] = "obj" /\ DOMAIN schema.nested \subseteq DOMAIN v[2]
         /\ \A f \in DOMAIN schema.nested : Admits(schema.nested[f], v[2][f])

\* v passes every check of the class that the schema states as a bound, whatever its coercers,
\* validators and other checks do.
PassesBoundsBody(class, v) ==
  CASE class.kind = "int"        -> TRUE
    [] class.kind = "list"       ->
         v[1] = "list" /\ \A i \in DOMAIN v[2] : PassesBounds(class.of, v[2][i])
    [] class.kind = "field"      ->
         /\ PassesBounds(class.type, v)
         /\ \A kw \in DOMAIN class.after :
              kw \in Intervals \cup Bounds \cup Sizes => Holds(kw, class.after[kw], v)
    [] class.kind = "structural" ->
         /\ v[1] = "obj" /\ DOMAIN class.fields \subseteq DOMAIN v[2]
         /\ \A f \in DOMAIN class.fields : PassesBounds(class.fields[f], v[2][f])

-----------------------------------------------------------------------------
(* Terms and values *)

Parts(term) ==
  CASE term.kind = "int"        -> {}
    [] term.kind = "list"       -> {term.of}
    [] term.kind = "field"      -> {term.type}
    [] term.kind = "structural" -> Range(term.fields)

DepthBody(term) == Max({0} \cup {1 + Depth(part) : part \in Parts(term)})

\* What is on each side of an interval.
Ends == Int \cup {None}

\* Coercers and kwargs that Constraint.field knows, with arguments of their types.
WellFormed(field) ==
  /\ field.coercers \in Seq(Coercers)
  /\ DOMAIN field.refine \subseteq Refining
  /\ \A kw \in DOMAIN field.refine :
       /\ kw \in Intervals \cup Sizes => field.refine[kw] \in Ends \X Ends
       /\ kw \in Bounds => field.refine[kw] \in Int

\* Bounds are on numbers and sizes on lists.  The engine builds others too: they accept no value
\* at all, and their schemas do not say so.
BoundsFit ==
  \A field \in Terms : field.kind = "field" =>
    \A kw \in DOMAIN field.refine :
      /\ kw \in Intervals \cup Bounds => Schema(Define(field.type)).type = "integer"
      /\ kw \in Sizes => Schema(Define(field.type)).type = "array"

\* The recursion is closed: each operator does with one level of a term what its body says.
TermCloses(term) ==
  LET class  == Define(term)
      recipe == ToRecipe(class)
      schema == Schema(class)
  IN  /\ class = DefineBody(term)
      /\ recipe = ToRecipeBody(class)
      /\ FromRecipe(recipe) = FromRecipeBody(recipe)
      /\ schema = SchemaBody(class)

ValueCloses(term, v) ==
  LET class  == Define(term)
      schema == Schema(class)
  IN  /\ Validate(class, v) = ValidateBody(class, v)
      /\ Means(term, v) = MeansBody(term, v)
      /\ Admits(schema, v) <=> AdmitsBody(schema, v)
      /\ PassesBounds(class, v) <=> PassesBoundsBody(class, v)

ASSUME NoneAssumption == None \notin Int

\* A term is nested finitely deep.
ASSUME TermsAssumption ==
  \A term \in Terms :
    /\ term.kind \in {"int", "list", "field", "structural"}
    /\ Parts(term) \subseteq Terms
    /\ Depth(term) \in Nat /\ \A part \in Parts(term) : Depth(part) < Depth(term)
    /\ term.kind = "field" => WellFormed(term)

ASSUME InputsAssumption ==
  \A v \in Inputs :
    /\ v[1] = "num" => v[2] \in Int
    /\ v[1] = "list" => v[2] \in Seq(Inputs)
    /\ v[1] = "obj" => Range(v[2]) \subseteq Inputs

=============================================================================

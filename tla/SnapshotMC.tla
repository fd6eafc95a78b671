----------------------------- MODULE SnapshotMC -----------------------------
(* Instances of Snapshot for TLC. *)
EXTENDS Snapshot

MCNumber == [kind |-> "int"]
Field(type, coercers, refine) ==
  [kind |-> "field", type |-> type, coercers |-> coercers, refine |-> refine]
Struct(fields, members, validators) ==
  [kind |-> "structural", fields |-> fields, members |-> members, validators |-> validators]
Validator(name, rule) == [name |-> name, rule |-> rule]

MCInt   == Field(MCNumber, <<>>, <<>>)
MCInner == Field(MCNumber, <<"inc">>, "int_range" :> <<1, 4>> @@ "multiple_of" :> 2)
MCSpan  == Struct([low |-> MCInt, high |-> Field(MCNumber, <<"double">>, "int_ge" :> 2)],
                  "cap" :> 4,
                  [_order |-> Validator("_check", "ordered"), _cap |-> Validator("_check", "capped")])

MCSpecs ==
  { Field(MCNumber, <<"double", "inc">>, "int_lt" :> 6 @@ "float_range" :> <<1, None>>
                                         @@ "not_one_of" :> {3}),
    Field(MCNumber, <<>>, "int_range" :> <<1, 5>> @@ "float_ge" :> 3 @@ "predicate" :> "even"),
    Field(MCInner, <<"inc">>, "int_range" :> <<None, 6>> @@ "int_gt" :> 2),
    Field(List(MCInner), <<>>,
          "list_length" :> <<1, 2>> @@ "set_length" :> <<None, 3>> @@ "unique" :> TRUE
            @@ "sorted" :> TRUE),
    Field(List(MCNumber), <<>>, "monotonic" :> "strict" @@ "not_empty" :> TRUE),
    Field(MCNumber, <<>>, "predicate" :> "locked"),
    Field(List(Field(MCNumber, <<>>, "predicate" :> "foreign")), <<>>, <<>>),
    Field(MCNumber, <<>>, "int_range" :> <<3, 1>>),
    Field(MCNumber, <<>>, "multiple_of" :> 0),
    MCSpan,
    Struct([span |-> Field(MCSpan, <<>>, <<>>)], <<>>, <<>>),
    Field(List(MCSpan), <<>>, "list_length" :> <<None, 1>>) }

\* With what is nested in them: four levels.
WithParts(S) == S \cup UNION {Parts(term) : term \in S}
MCTerms == WithParts(WithParts(WithParts(WithParts(MCSpecs))))

MCNums  == {Num(n) : n \in 0 .. 6}
MCLists == {Arr(s) : s \in UNION {[1 .. k -> {Num(n) : n \in 0 .. 4}] : k \in 0 .. 3}}
MCSpans == {Obj([low |-> l, high |-> h]) : l \in MCNums, h \in {Num(n) : n \in 0 .. 5}}

MCInputs ==
  MCNums \cup {Text(2), Obj([low |-> Num(1)])} \cup MCLists \cup MCSpans
    \cup {Obj([span |-> s]) : s \in MCSpans} \cup {Arr(<<s>>) : s \in MCSpans}

(* Each recursive operator is given its body, which closes the recursion.  The body has a LET of
   its own, without which the cost model of TLC's -coverage would follow the operator for ever. *)
MCDefine(term) == LET level(t) == DefineBody(t) IN level(term)
MCSchema(class) == LET level(c) == SchemaBody(c) IN level(class)
MCToRecipe(class) == LET level(c) == ToRecipeBody(c) IN level(class)
MCFromRecipe(recipe) == LET level(r) == FromRecipeBody(r) IN level(recipe)
MCFunctionsOf(class) == LET level(c) == FunctionsOfBody(c) IN level(class)
MCDepth(term) == LET level(t) == DepthBody(t) IN level(term)
MCValidate(class, v) == LET level(c, w) == ValidateBody(c, w) IN level(class, v)
MCMeans(term, v) == LET level(t, w) == MeansBody(t, w) IN level(term, v)
MCAdmits(schema, v) == LET level(s, w) == AdmitsBody(s, w) IN level(schema, v)
MCPassesBounds(class, v) == LET level(c, w) == PassesBoundsBody(c, w) IN level(class, v)
MCFromLast(coercers, v) == LET level(c, w) == FromLastBody(c, w) IN level(coercers, v)
MCFromFirst(coercers, v) == LET level(c, w) == FromFirstBody(c, w) IN level(coercers, v)
MCMerged(keys, frags) == LET level(k, f) == MergedBody(k, f) IN level(keys, frags)

\* Each operator does with one level what its body says.
ASSUME RecursionIsClosed ==
  \A term \in MCTerms : Definable(term) =>
    TermCloses(term) /\ \A v \in MCInputs : ValueCloses(term, v)

ASSUME BoundsFitTheirTypes == BoundsFit

\* One name is as good as another.
Names == Permutations(Vars)

=============================================================================

-------------------------- MODULE ConstraintsProofs --------------------------
(***************************************************************************)
(* Proofs about Constraints, for all terms.  An operator that follows the  *)
(* structure of terms is only known by its equation with its body, Closed; *)
(* what it does with every term follows by induction over their depth,     *)
(* which rests on the least element of a set of numbers.                   *)
(***************************************************************************)
EXTENDS Constraints, FiniteSetTheorems, WellFoundedInduction, TLAPS

-----------------------------------------------------------------------------
(* Induction *)

LEMMA Least ==
  ASSUME NEW T \in SUBSET Nat, T # {}
  PROVE  \E n \in T : \A m \in T : n <= m
<1>1. IsWellFoundedOn(OpToRel(<, Nat), Nat)
  BY NatLessThanWellFounded
<1> DEFINE R == OpToRel(<, Nat)
<1>2. \A a, b \in Nat : <<a, b>> \in R <=> a < b
  BY DEF OpToRel
<1> HIDE DEF R
<1>3. IsWellFoundedOn(R, Nat)
  BY <1>1 DEF R
<1>4. PICK n \in T : \A m \in T : ~(<<m, n>> \in R)
  BY <1>3, WFMin
<1>5. ASSUME NEW m \in T
      PROVE  n <= m
  <2>1. m \in Nat /\ n \in Nat
    OBVIOUS
  <2>2. ~(m < n)
    BY <1>2, <1>4, <2>1, Zenon
  <2> QED
    BY <2>1, <2>2
<1> QED
  BY <1>5

\* A set with every number whose predecessor it has.
LEMMA NumberInduction ==
  ASSUME NEW Good, 0 \in Good, \A n \in Nat : n \in Good => n + 1 \in Good
  PROVE  Nat \subseteq Good
<1> DEFINE Bad == {n \in Nat : n \notin Good}
<1> SUFFICES ASSUME Bad # {} PROVE FALSE
  OBVIOUS
<1>1. PICK n \in Bad : \A m \in Bad : n <= m
  <2>1. Bad \in SUBSET Nat
    OBVIOUS
  <2> HIDE DEF Bad
  <2> QED
    BY <2>1, Least
<1>2. n # 0 /\ n \in Nat
  OBVIOUS
<1>3. n - 1 \in Nat /\ n - 1 \notin Bad
  BY <1>1, <1>2
<1> QED
  BY <1>2, <1>3

\* A set with every term whose parts it has.
LEMMA TermInduction ==
  ASSUME NEW Good, \A term \in Terms : Parts(term) \subseteq Good => term \in Good
  PROVE  Terms \subseteq Good
<1> DEFINE Bad == {term \in Terms : term \notin Good}
           Depths == {Depth(term) : term \in Bad}
<1> SUFFICES ASSUME Bad # {} PROVE FALSE
  OBVIOUS
<1>1. PICK n \in Depths : \A m \in Depths : n <= m
  <2>1. Depths \in SUBSET Nat /\ Depths # {}
    BY TermsAssumption
  <2> HIDE DEF Depths
  <2> QED
    BY <2>1, Least
<1>2. PICK term \in Bad : n = Depth(term)
  OBVIOUS
<1>3. ASSUME NEW part \in Parts(term)
      PROVE  part \in Good
  <2>1. part \in Terms /\ Depth(part) \in Nat /\ Depth(term) \in Nat /\ Depth(part) < Depth(term)
    BY TermsAssumption
  <2>2. ~(n <= Depth(part))
    BY <1>2, <2>1
  <2> QED
    BY <1>1, <2>1, <2>2
<1> QED
  BY <1>2, <1>3

-----------------------------------------------------------------------------
(* The equations *)

\* Every operator does with one level what its body says.
Closed ==
  /\ \A term \in Terms : TermCloses(term) /\ \A v : ValueCloses(term, v)
  /\ \A cs \in Seq(Coercers) : \A v : /\ FromFirst(cs, v) = FromFirstBody(cs, v)
                                      /\ FromLast(cs, v) = FromLastBody(cs, v)
  /\ \A keys, frags : IsFiniteSet(frags) => Merged(keys, frags) = MergedBody(keys, frags)

\* The class of a term, by its kind.
LEMMA ClassOf ==
  ASSUME Closed, NEW term \in Terms
  PROVE  /\ term.kind = "int" => Define(term) = term
         /\ term.kind = "list" => Define(term) = List(Define(term.of))
         /\ term.kind = "field" =>
              Define(term) = Build(Define(term.type), term.coercers, term.refine)
         /\ term.kind = "structural" =>
              Define(term) = Class([f \in DOMAIN term.fields |-> Define(term.fields[f])],
                                   term.members, term.validators)
         /\ Define(term).kind = term.kind
<1>1. Define(term) = DefineBody(term)
  BY DEF Closed, TermCloses, ValueCloses
<1>2. term.kind \in {"int", "list", "field", "structural"}
  BY TermsAssumption
<1> QED
  BY <1>1, <1>2 DEF DefineBody, Compiled, Build, Class, List

LEMMA PartsOf ==
  ASSUME NEW term \in Terms
  PROVE  /\ term.kind \in {"int", "list", "field", "structural"}
         /\ Parts(term) \subseteq Terms
         /\ term.kind = "list" => term.of \in Parts(term)
         /\ term.kind = "field" => term.type \in Parts(term)
         /\ term.kind = "structural" => \A f \in DOMAIN term.fields : term.fields[f] \in Parts(term)
BY TermsAssumption DEF Parts, Range

-----------------------------------------------------------------------------
(* Recipes *)

\* The engine makes of a recipe the class it was made of, whatever is nested in it
\* (constraint/snapshot.py:191-271, 289-343).
THEOREM RoundTrips ==
  ASSUME Closed
  PROVE  \A term \in Terms : FromRecipe(ToRecipe(Define(term))) = Define(term)
<1> DEFINE Good == {term \in Terms : FromRecipe(ToRecipe(Define(term))) = Define(term)}
<1>1. ASSUME NEW term \in Terms, Parts(term) \subseteq Good
      PROVE  term \in Good
  <2> DEFINE class  == Define(term)
             recipe == ToRecipe(class)
  <2>1. recipe = ToRecipeBody(class) /\ FromRecipe(recipe) = FromRecipeBody(recipe)
    BY DEF Closed, TermCloses, ValueCloses
  <2>2. class.kind = term.kind
    BY ClassOf
  <2> HIDE DEF class, recipe
  <2>3. CASE term.kind = "int"
    BY <2>1, <2>2, <2>3 DEF ToRecipeBody, TypeSpec, FromRecipeBody, SpecType, class, recipe
  <2>4. CASE term.kind = "list"
    <3>1. class = List(Define(term.of))
      BY <2>4, ClassOf DEF class
    <3>2. recipe = List(ToRecipe(Define(term.of)))
      BY <2>1, <3>1 DEF ToRecipeBody, TypeSpec, List
    <3>3. FromRecipe(recipe) = List(FromRecipe(ToRecipe(Define(term.of))))
      BY <2>1, <3>2 DEF FromRecipeBody, SpecType, List
    <3>4. term.of \in Good
      BY <1>1, <2>4, PartsOf
    <3> QED
      BY <3>1, <3>3, <3>4 DEF class, recipe
  <2>5. CASE term.kind = "field"
    <3>1. class = Build(Define(term.type), term.coercers, term.refine)
      BY <2>5, ClassOf DEF class
    <3>2. recipe = [kind |-> "field",
                    kwargs |-> [type |-> ToRecipe(Define(term.type)), coercers |-> term.coercers,
                                refine |-> term.refine]]
      BY <2>1, <3>1 DEF ToRecipeBody, Build
    <3>3. FromRecipe(recipe) = Build(FromRecipe(ToRecipe(Define(term.type))), term.coercers,
                                     term.refine)
      BY <2>1, <3>2 DEF FromRecipeBody
    <3>4. term.type \in Good
      BY <1>1, <2>5, PartsOf
    <3> QED
      BY <3>1, <3>3, <3>4 DEF class, recipe
  <2>6. CASE term.kind = "structural"
    <3>1. class = Class([f \in DOMAIN term.fields |-> Define(term.fields[f])], term.members,
                        term.validators)
      BY <2>6, ClassOf DEF class
    <3>2. recipe = [kind |-> "structural",
                    fields |-> [f \in DOMAIN term.fields |-> ToRecipe(Define(term.fields[f]))],
                    members |-> term.members, validators |-> term.validators]
      BY <2>1, <3>1 DEF ToRecipeBody, Class, ValidatorsOf
    <3>3. FromRecipe(recipe)
            = Class([f \in DOMAIN term.fields |-> FromRecipe(ToRecipe(Define(term.fields[f])))],
                    term.members, term.validators)
      BY <2>1, <3>2 DEF FromRecipeBody
    <3>4. \A f \in DOMAIN term.fields : term.fields[f] \in Good
      BY <1>1, <2>6, PartsOf
    <3>5. [f \in DOMAIN term.fields |-> FromRecipe(ToRecipe(Define(term.fields[f])))]
            = [f \in DOMAIN term.fields |-> Define(term.fields[f])]
      BY <3>4
    <3> QED
      BY <3>1, <3>3, <3>5 DEF class, recipe
  <2> QED
    BY <2>3, <2>4, <2>5, <2>6, PartsOf DEF class, recipe
<1> HIDE DEF Good
<1>2. Terms \subseteq Good
  BY <1>1, TermInduction
<1> QED
  BY <1>2 DEF Good

-----------------------------------------------------------------------------
(* What validate() does *)

\* Wrapped one around the other, coercers run in the order they are written.
LEMMA CoercersInOrder ==
  ASSUME Closed
  PROVE  \A cs \in Seq(Coercers) : \A v : FromLast(Annotate(cs), v) = FromFirst(cs, v)
<1> DEFINE Good == {n \in Nat : \A cs \in Seq(Coercers) : Len(cs) = n =>
                      \A v : FromLast(Reverse(cs), v) = FromFirst(cs, v)}
<1>1. \A cs \in Seq(Coercers) : \A v : /\ FromFirst(cs, v) = FromFirstBody(cs, v)
                                       /\ FromLast(cs, v) = FromLastBody(cs, v)
  BY DEF Closed, TermCloses, ValueCloses
<1>2. 0 \in Good
  <2> SUFFICES ASSUME NEW cs \in Seq(Coercers), Len(cs) = 0, NEW v
               PROVE  FromLast(Reverse(cs), v) = FromFirst(cs, v)
    OBVIOUS
  <2>1. cs = <<>> /\ Reverse(cs) = <<>>
    BY DEF Reverse
  <2> QED
    BY <1>1, <2>1 DEF FromFirstBody, FromLastBody
<1>3. ASSUME NEW n \in Nat, n \in Good
      PROVE  n + 1 \in Good
  <2> SUFFICES ASSUME NEW cs \in Seq(Coercers), Len(cs) = n + 1, NEW v
               PROVE  FromLast(Reverse(cs), v) = FromFirst(cs, v)
    OBVIOUS
  <2>1. /\ cs # <<>> /\ Tail(cs) \in Seq(Coercers) /\ Len(Tail(cs)) = n
        /\ \A i \in 1 .. n : Tail(cs)[i] = cs[i + 1]
    OBVIOUS
  <2>2. /\ Reverse(cs) \in Seq(Coercers) /\ Reverse(cs) # <<>> /\ Len(Reverse(cs)) = n + 1
        /\ Reverse(cs)[n + 1] = cs[1]
        /\ \A i \in 1 .. n : Reverse(cs)[i] = cs[n + 2 - i]
    BY DEF Reverse
  <2>3. /\ Reverse(Tail(cs)) \in Seq(Coercers) /\ Len(Reverse(Tail(cs))) = n
        /\ \A i \in 1 .. n : Reverse(Tail(cs))[i] = Tail(cs)[n + 1 - i]
    BY <2>1 DEF Reverse
  <2>4. Last(Reverse(cs)) = Head(cs)
    BY <2>1, <2>2 DEF Last
  <2>5. Front(Reverse(cs)) = Reverse(Tail(cs))
    <3>1. /\ Front(Reverse(cs)) \in Seq(Coercers) /\ Len(Front(Reverse(cs))) = n
          /\ \A i \in 1 .. n : Front(Reverse(cs))[i] = Reverse(cs)[i]
      BY <2>2 DEF Front
    <3>2. \A i \in 1 .. n : Front(Reverse(cs))[i] = Reverse(Tail(cs))[i]
      BY <2>1, <2>2, <2>3, <3>1
    <3> QED
      BY <2>3, <3>1, <3>2
  <2>6. FromLast(Reverse(cs), v) = FromLast(Reverse(Tail(cs)), Coerced(Head(cs), v))
    BY <1>1, <2>2, <2>4, <2>5 DEF FromLastBody
  <2>7. FromFirst(cs, v) = FromFirst(Tail(cs), Coerced(Head(cs), v))
    BY <1>1, <2>1 DEF FromFirstBody
  <2>8. \A w : FromLast(Reverse(Tail(cs)), w) = FromFirst(Tail(cs), w)
    BY <1>3, <2>1
  <2> QED
    BY <2>6, <2>7, <2>8
<1> HIDE DEF Good
<1>4. Nat \subseteq Good
  BY <1>2, <1>3, NumberInduction
<1> QED
  BY <1>4 DEF Good, Annotate

\* What a coercer rejected stays rejected by those that follow.
LEMMA RejectedByCoercers ==
  ASSUME Closed
  PROVE  \A cs \in Seq(Coercers) : FromFirst(cs, Reject) = Reject
<1> DEFINE Good == {n \in Nat : \A cs \in Seq(Coercers) : Len(cs) = n =>
                      FromFirst(cs, Reject) = Reject}
<1>1. \A cs \in Seq(Coercers) : \A v : FromFirst(cs, v) = FromFirstBody(cs, v)
  BY DEF Closed, TermCloses, ValueCloses
<1>2. 0 \in Good
  BY <1>1 DEF FromFirstBody
<1>3. ASSUME NEW n \in Nat, n \in Good
      PROVE  n + 1 \in Good
  <2> SUFFICES ASSUME NEW cs \in Seq(Coercers), Len(cs) = n + 1
               PROVE  FromFirst(cs, Reject) = Reject
    OBVIOUS
  <2>1. cs # <<>> /\ Tail(cs) \in Seq(Coercers) /\ Len(Tail(cs)) = n
    OBVIOUS
  <2>2. Coerced(Head(cs), Reject) = Reject
    BY DEF Coerced, Reject
  <2> QED
    BY <1>1, <1>3, <2>1, <2>2 DEF FromFirstBody
<1> HIDE DEF Good
<1>4. Nat \subseteq Good
  BY <1>2, <1>3, NumberInduction
<1> QED
  BY <1>4 DEF Good

\* And by the type.
LEMMA RejectedByMeaning ==
  ASSUME Closed
  PROVE  \A term \in Terms : Means(term, Reject) = Reject
<1> DEFINE Good == {term \in Terms : Means(term, Reject) = Reject}
<1>1. ASSUME NEW term \in Terms, Parts(term) \subseteq Good
      PROVE  term \in Good
  <2>1. Means(term, Reject) = MeansBody(term, Reject)
    BY DEF Closed, TermCloses, ValueCloses
  <2>2. Reject[1] = "reject"
    BY DEF Reject
  <2>3. CASE term.kind \in {"int", "list", "structural"}
    BY <2>1, <2>2, <2>3 DEF MeansBody, AsNumber
  <2>4. CASE term.kind = "field"
    <3>1. term.type \in Good /\ term.coercers \in Seq(Coercers)
      BY <1>1, <2>4, PartsOf, TermsAssumption DEF WellFormed
    <3>2. Means(term.type, FromFirst(term.coercers, Reject)) = Reject
      BY <3>1, RejectedByCoercers
    <3> QED
      BY <2>1, <2>4, <3>2 DEF MeansBody
  <2> QED
    BY <2>3, <2>4, PartsOf
<1> HIDE DEF Good
<1>2. Terms \subseteq Good
  BY <1>1, TermInduction
<1> QED
  BY <1>2 DEF Good

\* validate() does with every value what the author wrote (constraint/base.py:102-103, 413-450).
THEOREM ValidatesAsMeant ==
  ASSUME Closed
  PROVE  \A term \in Terms : \A v : Validate(Define(term), v) = Means(term, v)
<1> DEFINE Good == {term \in Terms : \A v : Validate(Define(term), v) = Means(term, v)}
<1>1. ASSUME NEW term \in Terms, Parts(term) \subseteq Good
      PROVE  term \in Good
  <2> DEFINE class == Define(term)
  <2> SUFFICES ASSUME NEW v PROVE Validate(class, v) = Means(term, v)
    OBVIOUS
  <2>1. Validate(class, v) = ValidateBody(class, v) /\ Means(term, v) = MeansBody(term, v)
    BY DEF Closed, TermCloses, ValueCloses
  <2>2. class.kind = term.kind
    BY ClassOf
  <2> HIDE DEF class
  <2>3. CASE term.kind = "int"
    BY <2>1, <2>2, <2>3 DEF ValidateBody, Typed, MeansBody
  <2>4. CASE term.kind = "list"
    <3>1. class.of = Define(term.of)
      <4>1. class = List(Define(term.of))
        BY <2>4, ClassOf DEF class
      <4> QED
        BY <4>1 DEF List
    <3>2. \A w : Validate(class.of, w) = Means(term.of, w)
      BY <1>1, <2>4, <3>1, PartsOf
    <3>3. CASE v[1] # "list"
      BY <2>1, <2>2, <2>4, <3>3 DEF ValidateBody, Typed, MeansBody
    <3>4. CASE v[1] = "list"
      <4> DEFINE s == [i \in DOMAIN v[2] |-> Means(term.of, v[2][i])]
      <4>1. [i \in DOMAIN v[2] |-> Validate(class.of, v[2][i])] = s
        BY <3>2
      <4>2. Validate(class, v) = Elements(s)
        BY <2>1, <2>2, <2>4, <3>4, <4>1 DEF ValidateBody, Typed
      <4>3. Means(term, v) = IF \A i \in DOMAIN v[2] : Means(term.of, v[2][i]) # Reject
                               THEN Arr(s) ELSE Reject
        BY <2>1, <2>4, <3>4 DEF MeansBody
      <4> QED
        BY <4>2, <4>3 DEF Elements
    <3> QED
      BY <3>3, <3>4
  <2>5. CASE term.kind = "field"
    <3>1. /\ class.type = Define(term.type) /\ class.before = Annotate(term.coercers)
          /\ class.after = term.refine
      <4>1. class = Build(Define(term.type), term.coercers, term.refine)
        BY <2>5, ClassOf DEF class
      <4> QED
        BY <4>1 DEF Build
    <3>2. term.type \in Good /\ term.coercers \in Seq(Coercers)
      BY <1>1, <2>5, PartsOf, TermsAssumption DEF WellFormed
    <3> DEFINE pre == FromFirst(term.coercers, v)
               w   == Means(term.type, pre)
    <3>3. FromLast(class.before, v) = pre
      BY <3>1, <3>2, CoercersInOrder
    <3>4. w = IF pre = Reject THEN Reject ELSE Validate(class.type, pre)
      BY <3>1, <3>2, RejectedByMeaning
    <3>5. Validate(class, v)
            = IF w # Reject /\ \A kw \in DOMAIN term.refine : Holds(kw, term.refine[kw], w)
                THEN w ELSE Reject
      <4>1. Validate(class, v) = ValidField(class, v)
        BY <2>1, <2>2, <2>5 DEF ValidateBody
      <4> HIDE DEF w, pre
      <4> QED
        BY <4>1, <3>1, <3>3, <3>4 DEF ValidField
    <3>6. Means(term, v)
            = IF w # Reject /\ \A kw \in DOMAIN term.refine : Holds(kw, term.refine[kw], w)
                THEN w ELSE Reject
      BY <2>1, <2>5 DEF MeansBody
    <3> QED
      BY <3>5, <3>6
  <2>6. CASE term.kind = "structural"
    <3>1. /\ class.fields = [f \in DOMAIN term.fields |-> Define(term.fields[f])]
          /\ class.members = term.members /\ class.validators = term.validators
      BY <2>6, ClassOf DEF class, Class
    <3>2. \A f \in DOMAIN term.fields : term.fields[f] \in Good
      BY <1>1, <2>6, PartsOf
    <3>3. CASE ~(v[1] = "obj" /\ DOMAIN term.fields \subseteq DOMAIN v[2])
      BY <2>1, <2>2, <2>6, <3>1, <3>3 DEF ValidateBody, ValidObject, MeansBody
    <3>4. CASE v[1] = "obj" /\ DOMAIN term.fields \subseteq DOMAIN v[2]
      <4> DEFINE obj == [f \in DOMAIN term.fields |-> Means(term.fields[f], v[2][f])]
      <4>1. [f \in DOMAIN class.fields |-> Validate(class.fields[f], v[2][f])] = obj
        BY <3>1, <3>2
      <4>2. \A rule : Obeys(class, rule, obj) = Obeys(term, rule, obj)
        BY <3>1 DEF Obeys
      <4>3. Validate(class, v)
              = IF /\ \A f \in DOMAIN obj : obj[f] # Reject
                   /\ \A key \in DOMAIN class.validators :
                        Obeys(class, class.validators[key].rule, obj)
                  THEN Obj(obj) ELSE Reject
        <5>1. Validate(class, v) = ValidObject(class, v)
          BY <2>1, <2>2, <2>6 DEF ValidateBody
        <5>2. DOMAIN class.fields = DOMAIN term.fields
          BY <3>1
        <5> HIDE DEF obj
        <5> QED
          BY <5>1, <5>2, <3>4, <4>1 DEF ValidObject
      <4>4. Means(term, v)
              = IF \A f \in DOMAIN term.fields : Means(term.fields[f], v[2][f]) # Reject
                  THEN IF \A key \in DOMAIN term.validators :
                            Obeys(term, term.validators[key].rule, obj)
                         THEN Obj(obj) ELSE Reject
                  ELSE Reject
        BY <2>1, <2>6, <3>4 DEF MeansBody
      <4> QED
        BY <3>1, <4>2, <4>3, <4>4
    <3> QED
      BY <3>3, <3>4
  <2> QED
    BY <2>3, <2>4, <2>5, <2>6, PartsOf
<1> HIDE DEF Good
<1>2. Terms \subseteq Good
  BY <1>1, TermInduction
<1> QED
  BY <1>2 DEF Good

-----------------------------------------------------------------------------
(* Merging fragments: what the keywords of a schema come from, and what they imply *)

BoundKeys == TightenMax \cup TightenMin

\* A bound a that lets no more through than b does.
Tighter(k, a, b) == (k \in TightenMax => a >= b) /\ (k \in TightenMin => a <= b)

Keyword(k, x) == k \in BoundKeys => x \in Int

Keywords(keys)  == \A k \in DOMAIN keys : Keyword(k, keys[k])
FragmentSet(fs) == IsFiniteSet(fs) /\ \A f \in fs : f = <<f[1], f[2]>> /\ Keyword(f[1], f[2])

LEMMA DisjointBounds == \A k : ~(k \in TightenMax /\ k \in TightenMin)
BY DEF TightenMax, TightenMin

\* One fragment.
LEMMA MergeOne ==
  ASSUME NEW keys, Keywords(keys), NEW frag, frag = <<frag[1], frag[2]>>, Keyword(frag[1], frag[2])
  PROVE  LET merged == Merge(keys, frag)
         IN  /\ Keywords(merged)
             /\ DOMAIN merged = DOMAIN keys \cup {frag[1]}
             /\ \A k \in DOMAIN merged :
                  (k \in DOMAIN keys /\ merged[k] = keys[k]) \/ frag = <<k, merged[k]>>
             /\ \A k \in DOMAIN keys \cap BoundKeys : Tighter(k, merged[k], keys[k])
             /\ frag[1] \in BoundKeys => Tighter(frag[1], merged[frag[1]], frag[2])
<1> DEFINE merged == Merge(keys, frag)
<1>1. DOMAIN merged = DOMAIN keys \cup {frag[1]}
  BY DEF Merge
<1>2. \A k \in DOMAIN keys : k # frag[1] => merged[k] = keys[k]
  BY DEF Merge
<1>3. frag[1] \notin DOMAIN keys => merged[frag[1]] = frag[2]
  BY DEF Merge
<1>4. frag[1] \in DOMAIN keys => merged[frag[1]] =
        IF frag[1] \in TightenMax THEN Larger(keys[frag[1]], frag[2])
        ELSE IF frag[1] \in TightenMin THEN Smaller(keys[frag[1]], frag[2])
        ELSE frag[2]
  BY DEF Merge
<1> HIDE DEF merged
<1>5. frag[1] \in BoundKeys => frag[2] \in Int
  BY DEF Keyword
<1>6. \A k \in DOMAIN keys \cap BoundKeys : keys[k] \in Int
  BY DEF Keywords, Keyword
<1>7. ASSUME NEW k \in DOMAIN merged
      PROVE  (k \in DOMAIN keys /\ merged[k] = keys[k]) \/ frag = <<k, merged[k]>>
  <2>1. CASE k # frag[1]
    BY <1>1, <1>2, <2>1
  <2>2. CASE k = frag[1]
    <3>1. k \in DOMAIN keys => merged[k] = keys[k] \/ merged[k] = frag[2]
      BY <1>4, <2>2 DEF Larger, Smaller
    <3> QED
      BY <1>3, <2>2, <3>1
  <2> QED
    BY <2>1, <2>2
<1>8. ASSUME NEW k \in DOMAIN keys \cap BoundKeys
      PROVE  Tighter(k, merged[k], keys[k])
  <2>1. CASE k # frag[1]
    BY <1>2, <1>6, <2>1 DEF Tighter
  <2>2. CASE k = frag[1]
    BY <1>4, <1>5, <1>6, <2>2, DisjointBounds DEF Tighter, Larger, Smaller, BoundKeys
  <2> QED
    BY <2>1, <2>2
<1>9. ASSUME frag[1] \in BoundKeys
      PROVE  Tighter(frag[1], merged[frag[1]], frag[2])
  <2>1. CASE frag[1] \notin DOMAIN keys
    BY <1>3, <1>5, <1>9, <2>1 DEF Tighter
  <2>2. CASE frag[1] \in DOMAIN keys
    BY <1>4, <1>5, <1>6, <1>9, <2>2, DisjointBounds DEF Tighter, Larger, Smaller, BoundKeys
  <2> QED
    BY <2>1, <2>2
<1>10. Keywords(merged)
  <2> SUFFICES ASSUME NEW k \in DOMAIN merged, k \in BoundKeys
               PROVE  merged[k] \in Int
    BY DEF Keywords, Keyword
  <2>1. CASE k \in DOMAIN keys /\ merged[k] = keys[k]
    BY <1>6, <2>1
  <2>2. CASE frag = <<k, merged[k]>>
    BY <1>5, <2>2
  <2> QED
    BY <1>7, <2>1, <2>2
<1> QED
  BY <1>1, <1>7, <1>8, <1>9, <1>10 DEF merged

\* All of them.
MergedWell(keys, frags) ==
  LET merged == Merged(keys, frags)
  IN  /\ Keywords(merged)
      /\ DOMAIN keys \subseteq DOMAIN merged
      /\ \A k \in DOMAIN merged :
           (k \in DOMAIN keys /\ merged[k] = keys[k]) \/ <<k, merged[k]>> \in frags
      /\ \A k \in DOMAIN keys \cap BoundKeys : Tighter(k, merged[k], keys[k])
      /\ \A f \in frags : /\ f[1] \in DOMAIN merged
                          /\ f[1] \in BoundKeys => Tighter(f[1], merged[f[1]], f[2])

LEMMA TighterStill ==
  ASSUME NEW k \in BoundKeys, NEW a \in Int, NEW b \in Int, NEW c \in Int,
         Tighter(k, a, b), Tighter(k, b, c)
  PROVE  Tighter(k, a, c)
BY DEF Tighter

\* Whatever the order of the fragments, a keyword is that of the skeleton or of one of them, and
\* no bound of any of them is loosened (constraint/base.py:758-781).
THEOREM MergedIsTight ==
  ASSUME Closed
  PROVE  \A keys, frags : Keywords(keys) /\ FragmentSet(frags) => MergedWell(keys, frags)
<1> DEFINE Good == {n \in Nat : \A keys, frags :
                      /\ Keywords(keys) /\ FragmentSet(frags) /\ Cardinality(frags) = n
                      => MergedWell(keys, frags)}
<1>1. \A keys, frags : IsFiniteSet(frags) => Merged(keys, frags) = MergedBody(keys, frags)
  BY DEF Closed, TermCloses, ValueCloses
<1>2. 0 \in Good
  <2> SUFFICES ASSUME NEW keys, NEW frags, Keywords(keys), FragmentSet(frags),
                      Cardinality(frags) = 0
               PROVE  MergedWell(keys, frags)
    OBVIOUS
  <2>1. frags = {}
    BY FS_EmptySet DEF FragmentSet
  <2>2. Merged(keys, frags) = keys
    BY <1>1, <2>1 DEF MergedBody, FragmentSet
  <2>3. \A k \in DOMAIN keys \cap BoundKeys : Tighter(k, keys[k], keys[k])
    BY DEF Keywords, Keyword, Tighter
  <2> QED
    BY <2>1, <2>2, <2>3 DEF MergedWell
<1>3. ASSUME NEW n \in Nat, n \in Good
      PROVE  n + 1 \in Good
  <2> SUFFICES ASSUME NEW keys, NEW frags, Keywords(keys), FragmentSet(frags),
                      Cardinality(frags) = n + 1
               PROVE  MergedWell(keys, frags)
    OBVIOUS
  <2> DEFINE frag   == CHOOSE f \in frags : TRUE
             rest   == frags \ {frag}
             one    == Merge(keys, frag)
             merged == Merged(one, rest)
  <2>1. frags # {}
    BY FS_EmptySet DEF FragmentSet
  <2>2. Merged(keys, frags) = merged
    BY <1>1, <2>1 DEF MergedBody, FragmentSet
  <2>3. frag \in frags /\ frags = rest \cup {frag}
    BY <2>1
  <2> HIDE DEF frag
  <2>4. FragmentSet(rest) /\ Cardinality(rest) = n
    BY <2>3, FS_RemoveElement DEF FragmentSet
  <2>5. frag = <<frag[1], frag[2]>> /\ Keyword(frag[1], frag[2])
    BY <2>3 DEF FragmentSet
  <2>6. /\ Keywords(one)
        /\ DOMAIN one = DOMAIN keys \cup {frag[1]}
        /\ \A k \in DOMAIN one : (k \in DOMAIN keys /\ one[k] = keys[k]) \/ frag = <<k, one[k]>>
        /\ \A k \in DOMAIN keys \cap BoundKeys : Tighter(k, one[k], keys[k])
        /\ frag[1] \in BoundKeys => Tighter(frag[1], one[frag[1]], frag[2])
    BY <2>5, MergeOne
  <2> HIDE DEF rest, one
  <2>7. MergedWell(one, rest)
    BY <1>3, <2>4, <2>6
  <2>8. /\ Keywords(merged)
        /\ DOMAIN one \subseteq DOMAIN merged
        /\ \A k \in DOMAIN merged :
             (k \in DOMAIN one /\ merged[k] = one[k]) \/ <<k, merged[k]>> \in rest
        /\ \A k \in DOMAIN one \cap BoundKeys : Tighter(k, merged[k], one[k])
        /\ \A f \in rest : /\ f[1] \in DOMAIN merged
                           /\ f[1] \in BoundKeys => Tighter(f[1], merged[f[1]], f[2])
    BY <2>7 DEF MergedWell
  <2> HIDE DEF merged
  <2>9. \A k \in DOMAIN one \cap BoundKeys : merged[k] \in Int /\ one[k] \in Int
    BY <2>6, <2>8 DEF Keywords, Keyword
  <2>10. ASSUME NEW k \in DOMAIN keys \cap BoundKeys
         PROVE  Tighter(k, merged[k], keys[k])
    <3>1. keys[k] \in Int
      BY DEF Keywords, Keyword
    <3> QED
      BY <2>6, <2>8, <2>9, <3>1, TighterStill
  <2>11. ASSUME frag[1] \in BoundKeys
         PROVE  Tighter(frag[1], merged[frag[1]], frag[2])
    <3>1. frag[2] \in Int
      BY <2>5, <2>11 DEF Keyword
    <3> QED
      BY <2>6, <2>8, <2>9, <2>11, <3>1, TighterStill
  <2>12. ASSUME NEW k \in DOMAIN merged
         PROVE  (k \in DOMAIN keys /\ merged[k] = keys[k]) \/ <<k, merged[k]>> \in frags
    <3>1. CASE k \in DOMAIN one /\ merged[k] = one[k]
      BY <2>3, <2>6, <3>1
    <3>2. CASE <<k, merged[k]>> \in rest
      BY <2>3, <3>2
    <3> QED
      BY <2>8, <3>1, <3>2
  <2>13. ASSUME NEW f \in frags
         PROVE  /\ f[1] \in DOMAIN merged
                /\ f[1] \in BoundKeys => Tighter(f[1], merged[f[1]], f[2])
    BY <2>3, <2>6, <2>8, <2>11
  <2> QED
    BY <2>2, <2>6, <2>8, <2>10, <2>12, <2>13 DEF MergedWell
<1> HIDE DEF Good
<1>4. Nat \subseteq Good
  BY <1>2, <1>3, NumberInduction
<1> SUFFICES ASSUME NEW keys, NEW frags, Keywords(keys), FragmentSet(frags)
             PROVE  MergedWell(keys, frags)
  OBVIOUS
<1>5. Cardinality(frags) \in Nat
  BY FS_CardinalityType DEF FragmentSet
<1> QED
  BY <1>4, <1>5 DEF Good

-----------------------------------------------------------------------------
(* Schemas *)

NumberKeys == {"minimum", "exclusiveMinimum", "maximum", "exclusiveMaximum"}
SizeKeys   == {"minItems", "maxItems"}

\* The schema of a term, by its kind.
LEMMA SchemaOf ==
  ASSUME Closed, NEW term \in Terms
  PROVE  /\ term.kind = "int" =>
              Schema(Define(term)) = [type |-> "integer", keys |-> <<>>, nested |-> {}]
         /\ term.kind = "list" =>
              Schema(Define(term))
                = [type |-> "array", keys |-> <<>>, nested |-> Schema(Define(term.of))]
         /\ term.kind = "field" =>
              LET base == Schema(Define(term.type))
              IN  Schema(Define(term)) = [type |-> base.type, nested |-> base.nested,
                                          keys |-> Merged(base.keys, Fragments(term.refine))]
         /\ term.kind = "structural" =>
              Schema(Define(term))
                = [type |-> "object", keys |-> <<>>,
                   nested |-> [f \in DOMAIN term.fields |-> Schema(Define(term.fields[f]))]]
<1> DEFINE class == Define(term)
<1>1. Schema(class) = SchemaBody(class)
  BY DEF Closed, TermCloses, ValueCloses
<1>2. class.kind = term.kind
  BY ClassOf
<1> HIDE DEF class
<1>3. term.kind = "int" => Schema(class) = [type |-> "integer", keys |-> <<>>, nested |-> {}]
  BY <1>1, <1>2 DEF SchemaBody, Skeleton
<1>4. ASSUME term.kind = "list"
      PROVE  Schema(class) = [type |-> "array", keys |-> <<>>, nested |-> Schema(Define(term.of))]
  <2>1. class = List(Define(term.of))
    BY <1>4, ClassOf DEF class
  <2> QED
    BY <1>1, <2>1 DEF SchemaBody, Skeleton, List
<1>5. ASSUME term.kind = "field"
      PROVE  LET base == Schema(Define(term.type))
             IN  Schema(class) = [type |-> base.type, nested |-> base.nested,
                                  keys |-> Merged(base.keys, Fragments(term.refine))]
  <2>1. class = Build(Define(term.type), term.coercers, term.refine)
    BY <1>5, ClassOf DEF class
  <2> QED
    BY <1>1, <2>1 DEF SchemaBody, Build
<1>6. ASSUME term.kind = "structural"
      PROVE  Schema(class) = [type |-> "object", keys |-> <<>>,
                              nested |-> [f \in DOMAIN term.fields |->
                                            Schema(Define(term.fields[f]))]]
  <2>1. class = Class([f \in DOMAIN term.fields |-> Define(term.fields[f])], term.members,
                      term.validators)
    BY <1>6, ClassOf DEF class
  <2> QED
    BY <1>1, <2>1 DEF SchemaBody, Class
<1> QED
  BY <1>3, <1>4, <1>5, <1>6 DEF class

\* What one check adds to a schema.
LEMMA FragmentOf ==
  ASSUME NEW kw, NEW arg, NEW f \in Fragment(kw, arg)
  PROVE  /\ f = <<f[1], f[2]>> /\ f[2] # None
         /\ \/ kw \in Intervals /\ f \in {<<"minimum", arg[1]>>, <<"maximum", arg[2]>>}
            \/ kw \in Sizes /\ f \in {<<"minItems", arg[1]>>, <<"maxItems", arg[2]>>}
            \/ kw \in {"int_gt", "float_gt"} /\ f = <<"exclusiveMinimum", arg>>
            \/ kw \in {"int_ge", "float_ge"} /\ f = <<"minimum", arg>>
            \/ kw \in {"int_lt", "float_lt"} /\ f = <<"exclusiveMaximum", arg>>
            \/ kw \in {"int_le", "float_le"} /\ f = <<"maximum", arg>>
            \/ kw = "multiple_of" /\ f = <<"multipleOf", arg>>
            \/ kw = "unique" /\ f = <<"uniqueItems", 1>>
BY DEF Fragment

LEMMA FragmentFinite ==
  ASSUME NEW kw, NEW arg
  PROVE  IsFiniteSet(Fragment(kw, arg))
<1> DEFINE Some == {<<"minimum", arg[1]>>, <<"maximum", arg[2]>>}
           Many == {<<"minItems", arg[1]>>, <<"maxItems", arg[2]>>}
           More == {<<"exclusiveMinimum", arg>>, <<"minimum", arg>>}
           Less == {<<"exclusiveMaximum", arg>>, <<"maximum", arg>>}
           Rest == {<<"multipleOf", arg>>, <<"uniqueItems", 1>>}
           All  == (((Some \cup Many) \cup More) \cup Less) \cup Rest
<1>1. ASSUME NEW a, NEW b
      PROVE  IsFiniteSet({a, b})
  <2>1. {a, b} = {a} \cup {b}
    OBVIOUS
  <2>2. IsFiniteSet({a})
    BY FS_Singleton
  <2>3. IsFiniteSet({a} \cup {b})
    BY <2>2, FS_AddElement
  <2> QED
    BY <2>1, <2>3
<1>2. IsFiniteSet(Some) /\ IsFiniteSet(Many) /\ IsFiniteSet(More) /\ IsFiniteSet(Less)
        /\ IsFiniteSet(Rest)
  BY <1>1
<1>3. Fragment(kw, arg) \subseteq All
  BY FragmentOf
<1> HIDE DEF Some, Many, More, Less, Rest
<1>4. IsFiniteSet(All)
  <2>1. IsFiniteSet(Some \cup Many)
    BY <1>2, FS_Union
  <2>2. IsFiniteSet((Some \cup Many) \cup More)
    BY <1>2, <2>1, FS_Union
  <2>3. IsFiniteSet(((Some \cup Many) \cup More) \cup Less)
    BY <1>2, <2>2, FS_Union
  <2> QED
    BY <1>2, <2>3, FS_Union
<1> QED
  BY <1>3, <1>4, FS_Subset

LEMMA RefiningFinite == IsFiniteSet(Refining)
<1> DEFINE Rest == {"multiple_of", "not_one_of", "not_empty", "unique", "sorted", "monotonic",
                    "predicate"}
           name == <<"int_range", "float_range", "int_gt", "int_ge", "int_lt", "int_le", "float_gt",
                     "float_ge", "float_lt", "float_le", "list_length", "set_length",
                     "multiple_of", "not_one_of", "not_empty", "unique", "sorted", "monotonic",
                     "predicate">>
<1>1. IsFiniteSet(1 .. 19)
  <2>1. 1 \in Int /\ 19 \in Int
    OBVIOUS
  <2> QED
    BY <2>1, FS_Interval, Zenon
<1>2. name \in Surjection(1 .. 19, Refining)
  <2>1. name \in [1 .. 19 -> Refining]
    BY DEF Refining, Intervals, Bounds, Sizes
  <2>2. \A kw \in Refining : \E i \in 1 .. 19 : name[i] = kw
    BY DEF Refining, Intervals, Bounds, Sizes
  <2> QED
    BY <2>1, <2>2 DEF Surjection
<1> QED
  BY <1>1, <1>2, FS_Surjection

\* The fragments of finitely many checks.
LEMMA FragmentsFinite ==
  ASSUME NEW refine
  PROVE  \A K : IsFiniteSet(K) => IsFiniteSet(UNION {Fragment(kw, refine[kw]) : kw \in K})
<1> DEFINE All(K) == UNION {Fragment(kw, refine[kw]) : kw \in K}
           Good   == {n \in Nat : \A K : IsFiniteSet(K) /\ Cardinality(K) = n
                                         => IsFiniteSet(All(K))}
<1>1. 0 \in Good
  <2> SUFFICES ASSUME NEW K, IsFiniteSet(K), Cardinality(K) = 0
               PROVE  IsFiniteSet(All(K))
    OBVIOUS
  <2>1. K = {}
    BY FS_EmptySet
  <2>2. All(K) = {}
    BY <2>1
  <2> QED
    BY <2>2, FS_EmptySet
<1>2. ASSUME NEW n \in Nat, n \in Good
      PROVE  n + 1 \in Good
  <2> SUFFICES ASSUME NEW K, IsFiniteSet(K), Cardinality(K) = n + 1
               PROVE  IsFiniteSet(All(K))
    OBVIOUS
  <2>1. PICK kw : kw \in K
    BY FS_EmptySet
  <2>2. IsFiniteSet(K \ {kw}) /\ Cardinality(K \ {kw}) = n
    BY <2>1, FS_RemoveElement
  <2>3. IsFiniteSet(All(K \ {kw}))
    BY <1>2, <2>2
  <2>4. All(K) = All(K \ {kw}) \cup Fragment(kw, refine[kw])
    BY <2>1
  <2> HIDE DEF All
  <2> QED
    BY <2>3, <2>4, FragmentFinite, FS_Union
<1> HIDE DEF Good
<1>3. Nat \subseteq Good
  BY <1>1, <1>2, NumberInduction
<1> SUFFICES ASSUME NEW K, IsFiniteSet(K)
             PROVE  IsFiniteSet(All(K))
  OBVIOUS
<1>4. Cardinality(K) \in Nat
  BY FS_CardinalityType
<1> QED
  BY <1>3, <1>4 DEF Good

\* The fragments of a field are such that MergedIsTight speaks of.
LEMMA FragmentsFit ==
  ASSUME NEW term \in Terms, term.kind = "field"
  PROVE  FragmentSet(Fragments(term.refine))
<1>1. WellFormed(term)
  BY TermsAssumption
<1>2. IsFiniteSet(DOMAIN term.refine)
  BY <1>1, RefiningFinite, FS_Subset DEF WellFormed
<1>3. IsFiniteSet(Fragments(term.refine))
  BY <1>2, FragmentsFinite DEF Fragments
<1>4. ASSUME NEW f \in Fragments(term.refine)
      PROVE  f = <<f[1], f[2]>> /\ Keyword(f[1], f[2])
  <2>1. PICK kw \in DOMAIN term.refine : f \in Fragment(kw, term.refine[kw])
    BY DEF Fragments
  <2> DEFINE arg == term.refine[kw]
  <2>2. /\ kw \in Intervals \cup Sizes => arg[1] \in Ends /\ arg[2] \in Ends
        /\ kw \in Bounds => arg \in Int
    BY <1>1 DEF WellFormed
  <2>3. kw \in {"int_gt", "float_gt", "int_ge", "float_ge", "int_lt", "float_lt", "int_le",
                "float_le"} => kw \in Bounds
    BY DEF Bounds
  <2>4. /\ f = <<f[1], f[2]>> /\ f[2] # None
        /\ \/ kw \in Intervals /\ f \in {<<"minimum", arg[1]>>, <<"maximum", arg[2]>>}
           \/ kw \in Sizes /\ f \in {<<"minItems", arg[1]>>, <<"maxItems", arg[2]>>}
           \/ kw \in {"int_gt", "float_gt"} /\ f = <<"exclusiveMinimum", arg>>
           \/ kw \in {"int_ge", "float_ge"} /\ f = <<"minimum", arg>>
           \/ kw \in {"int_lt", "float_lt"} /\ f = <<"exclusiveMaximum", arg>>
           \/ kw \in {"int_le", "float_le"} /\ f = <<"maximum", arg>>
           \/ kw = "multiple_of" /\ f = <<"multipleOf", arg>>
           \/ kw = "unique" /\ f = <<"uniqueItems", 1>>
    BY <2>1, FragmentOf
  <2> HIDE DEF arg
  <2>5. f[1] \in BoundKeys => f[2] \in Int
    <3>1. CASE kw \in Intervals \cup Sizes /\ f[2] \in {arg[1], arg[2]}
      BY <2>2, <2>4, <3>1 DEF Ends
    <3>2. CASE kw \in Bounds /\ f[2] = arg
      BY <2>2, <3>2
    <3>3. CASE f[1] \in {"multipleOf", "uniqueItems"}
      BY <3>3 DEF BoundKeys, TightenMax, TightenMin
    <3> QED
      BY <2>3, <2>4, <3>1, <3>2, <3>3
  <2> QED
    BY <2>4, <2>5 DEF Keyword
<1> QED
  BY <1>3, <1>4 DEF FragmentSet

\* A schema has a type, and numbers as bounds.
Shape(schema) ==
  /\ schema.type \in {"integer", "array", "object"}
  /\ Keywords(schema.keys)

\* It has bounds of numbers only if it is of a number, and of sizes only if of a list.
Fits(schema) ==
  \A k \in DOMAIN schema.keys : /\ k \in NumberKeys => schema.type = "integer"
                                /\ k \in SizeKeys => schema.type = "array"

LEMMA NoKeywords ==
  /\ DOMAIN <<>> = {}
  /\ Keywords(<<>>)
<1>1. DOMAIN <<>> = {}
  OBVIOUS
<1> QED
  BY <1>1 DEF Keywords

LEMMA SchemasHaveShape ==
  ASSUME Closed
  PROVE  \A term \in Terms : Shape(Schema(Define(term)))
<1> DEFINE Good == {term \in Terms : Shape(Schema(Define(term)))}
<1>1. ASSUME NEW term \in Terms, Parts(term) \subseteq Good
      PROVE  term \in Good
  <2> DEFINE schema == Schema(Define(term))
  <2>1. CASE term.kind \in {"int", "list", "structural"}
    <3>1. schema.type \in {"integer", "array", "object"} /\ schema.keys = <<>>
      BY <2>1, SchemaOf
    <3> HIDE DEF schema
    <3>2. Shape(schema)
      BY <3>1, NoKeywords DEF Shape
    <3> QED
      BY <3>2 DEF schema
  <2>2. CASE term.kind = "field"
    <3> DEFINE base  == Schema(Define(term.type))
               frags == Fragments(term.refine)
    <3>1. schema.type = base.type /\ schema.keys = Merged(base.keys, frags)
      BY <2>2, SchemaOf
    <3>2. Shape(base)
      BY <1>1, <2>2, PartsOf
    <3>3. FragmentSet(frags)
      BY <2>2, FragmentsFit
    <3> HIDE DEF schema, base, frags
    <3>4. MergedWell(base.keys, frags)
      BY <3>2, <3>3, MergedIsTight DEF Shape
    <3>5. Shape(schema)
      BY <3>1, <3>2, <3>4 DEF Shape, MergedWell
    <3> QED
      BY <3>5 DEF schema
  <2> QED
    BY <2>1, <2>2, PartsOf
<1> HIDE DEF Good
<1>2. Terms \subseteq Good
  BY <1>1, TermInduction
<1> QED
  BY <1>2 DEF Good

-----------------------------------------------------------------------------
(* What validate() returns, the schema admits *)

\* A value that passes a check satisfies the keywords that the check adds.
LEMMA CheckedSatisfies ==
  ASSUME NEW kw, NEW arg, NEW w, Holds(kw, arg, w), NEW f \in Fragment(kw, arg)
  PROVE  Satisfies(f[1], f[2], w)
<1>1. /\ f = <<f[1], f[2]>> /\ f[2] # None
      /\ \/ kw \in Intervals /\ f \in {<<"minimum", arg[1]>>, <<"maximum", arg[2]>>}
         \/ kw \in Sizes /\ f \in {<<"minItems", arg[1]>>, <<"maxItems", arg[2]>>}
         \/ kw \in {"int_gt", "float_gt"} /\ f = <<"exclusiveMinimum", arg>>
         \/ kw \in {"int_ge", "float_ge"} /\ f = <<"minimum", arg>>
         \/ kw \in {"int_lt", "float_lt"} /\ f = <<"exclusiveMaximum", arg>>
         \/ kw \in {"int_le", "float_le"} /\ f = <<"maximum", arg>>
         \/ kw = "multiple_of" /\ f = <<"multipleOf", arg>>
         \/ kw = "unique" /\ f = <<"uniqueItems", 1>>
  BY FragmentOf
<1>2. CASE w[1] = "num"
  <2>1. NumberCheck(kw, arg, w[2])
    BY <1>2 DEF Holds
  <2>2. CASE kw \in Intervals
    <3>1. Between(w[2], arg)
      <4>1. kw \notin Bounds \cup {"multiple_of", "not_one_of", "predicate"}
        BY <2>2 DEF Intervals, Bounds
      <4>2. NumberCheck(kw, arg, w[2]) = Between(w[2], arg)
        BY <2>2, <4>1 DEF NumberCheck
      <4> QED
        BY <2>1, <4>2
    <3>2. f \in {<<"minimum", arg[1]>>, <<"maximum", arg[2]>>}
      BY <1>1, <2>2 DEF Intervals, Sizes
    <3> QED
      BY <1>1, <3>1, <3>2 DEF Between, Satisfies
  <2>3. CASE kw \in Bounds
    <3>1. Compares(kw, w[2], arg)
      BY <2>1, <2>3 DEF NumberCheck, Intervals, Bounds
    <3> QED
      BY <1>1, <2>3, <3>1 DEF Bounds, Intervals, Sizes, Compares, Satisfies
  <2>4. CASE kw = "multiple_of"
    <3>1. w[2] % arg = 0
      BY <2>1, <2>4 DEF NumberCheck, Intervals, Bounds
    <3>2. f = <<"multipleOf", arg>>
      BY <1>1, <2>4 DEF Intervals, Sizes
    <3> QED
      BY <3>1, <3>2 DEF Satisfies
  <2>5. CASE kw \in Sizes \cup {"unique"}
    BY <2>1, <2>5 DEF NumberCheck, Intervals, Bounds, Sizes
  <2> QED
    BY <1>1, <2>2, <2>3, <2>4, <2>5 DEF Bounds
<1>3. CASE w[1] = "list"
  <2>1. ListCheck(kw, arg, w[2])
    BY <1>3 DEF Holds
  <2>2. CASE kw \in Sizes
    <3>1. Between(Len(w[2]), arg)
      <4>1. kw \notin {"not_empty", "unique", "sorted", "monotonic", "not_one_of"}
        BY <2>2 DEF Sizes
      <4>2. ListCheck(kw, arg, w[2]) = Between(Len(w[2]), arg)
        BY <2>2, <4>1 DEF ListCheck
      <4> QED
        BY <2>1, <4>2
    <3>2. f \in {<<"minItems", arg[1]>>, <<"maxItems", arg[2]>>}
      BY <1>1, <2>2 DEF Intervals, Sizes
    <3> QED
      BY <1>1, <3>1, <3>2 DEF Between, Satisfies
  <2>3. CASE kw = "unique"
    BY <1>1, <2>1, <2>3 DEF ListCheck, Sizes, Intervals, Satisfies
  <2>4. CASE kw \in Intervals \cup Bounds \cup {"multiple_of"}
    BY <2>1, <2>4 DEF ListCheck, Intervals, Bounds, Sizes
  <2> QED
    BY <1>1, <2>2, <2>3, <2>4 DEF Bounds
<1>4. CASE w[1] \notin {"num", "list"}
  BY <1>1, <1>4 DEF Holds, Intervals, Sizes
<1> QED
  BY <1>2, <1>3, <1>4

\* The schema of a field admits what the schema of its type admits and its keywords allow; to an
\* object they do not apply.
LEMMA FieldAdmits ==
  ASSUME Closed, NEW term \in Terms, term.kind = "field", NEW v,
         Admits(Schema(Define(term.type)), v),
         \/ Schema(Define(term)).type = "object"
         \/ \A k \in DOMAIN Schema(Define(term)).keys :
              Satisfies(k, Schema(Define(term)).keys[k], v)
  PROVE  Admits(Schema(Define(term)), v)
<1> DEFINE schema == Schema(Define(term))
           base   == Schema(Define(term.type))
<1>1. /\ schema.type = base.type /\ schema.nested = base.nested
  BY SchemaOf
<1>2. term.type \in Terms
  BY PartsOf
<1>3. /\ Admits(schema, v) <=> AdmitsBody(schema, v)
      /\ Admits(base, v) <=> AdmitsBody(base, v)
  BY <1>2 DEF Closed, TermCloses, ValueCloses
<1>4. base.type \in {"integer", "array", "object"}
  BY <1>2, SchemasHaveShape DEF Shape
<1>5. schema.type = "object" \/ \A k \in DOMAIN schema.keys : Satisfies(k, schema.keys[k], v)
  OBVIOUS
<1> HIDE DEF schema, base
<1>6. AdmitsBody(base, v)
  BY <1>3 DEF base
<1>7. AdmitsBody(schema, v)
  <2>1. CASE base.type = "integer"
    BY <1>1, <1>5, <1>6, <2>1 DEF AdmitsBody
  <2>2. CASE base.type = "array"
    BY <1>1, <1>5, <1>6, <2>2 DEF AdmitsBody
  <2>3. CASE base.type = "object"
    BY <1>1, <1>6, <2>3 DEF AdmitsBody
  <2> QED
    BY <1>4, <2>1, <2>2, <2>3
<1> QED
  BY <1>3, <1>7 DEF schema

\* A value that all checks of a field let through satisfies the keywords of its schema, if it
\* satisfies those of its type.
LEMMA FieldSatisfies ==
  ASSUME Closed, NEW term \in Terms, term.kind = "field", NEW w,
         \A kw \in DOMAIN term.refine : Holds(kw, term.refine[kw], w),
         \A k \in DOMAIN Schema(Define(term.type)).keys :
           Satisfies(k, Schema(Define(term.type)).keys[k], w)
  PROVE  \A k \in DOMAIN Schema(Define(term)).keys : Satisfies(k, Schema(Define(term)).keys[k], w)
<1> DEFINE keys  == Schema(Define(term)).keys
           base  == Schema(Define(term.type)).keys
           frags == Fragments(term.refine)
<1>1. keys = Merged(base, frags)
  BY SchemaOf
<1>2. Keywords(base)
  BY PartsOf, SchemasHaveShape DEF Shape
<1>3. FragmentSet(frags)
  BY FragmentsFit
<1>4. ASSUME NEW f \in frags
      PROVE  Satisfies(f[1], f[2], w)
  <2>1. PICK kw \in DOMAIN term.refine : f \in Fragment(kw, term.refine[kw])
    BY DEF Fragments
  <2>2. Holds(kw, term.refine[kw], w)
    OBVIOUS
  <2> HIDE DEF frags
  <2> QED
    BY <2>1, <2>2, CheckedSatisfies
<1>5. \A k \in DOMAIN base : Satisfies(k, base[k], w)
  OBVIOUS
<1> HIDE DEF keys, base, frags
<1>6. MergedWell(base, frags)
  BY <1>2, <1>3, MergedIsTight
<1>7. \A k \in DOMAIN keys : (k \in DOMAIN base /\ keys[k] = base[k]) \/ <<k, keys[k]>> \in frags
  BY <1>1, <1>6 DEF MergedWell
<1>8. ASSUME NEW k \in DOMAIN keys
      PROVE  Satisfies(k, keys[k], w)
  <2>1. CASE k \in DOMAIN base /\ keys[k] = base[k]
    BY <1>5, <2>1
  <2>2. CASE <<k, keys[k]>> \in frags
    <3>1. <<k, keys[k]>>[1] = k /\ <<k, keys[k]>>[2] = keys[k]
      OBVIOUS
    <3> QED
      BY <1>4, <2>2, <3>1
  <2> QED
    BY <1>7, <2>1, <2>2
<1> QED
  BY <1>8 DEF keys

\* What validate() returns, json_schema() admits (constraint/base.py:463-522, 751-752).
THEOREM ReturnsAreAdmitted ==
  ASSUME Closed
  PROVE  \A term \in Terms : \A v :
           Validate(Define(term), v) # Reject
             => Admits(Schema(Define(term)), Validate(Define(term), v))
<1> DEFINE Good == {term \in Terms : \A v :
                      Means(term, v) # Reject => Admits(Schema(Define(term)), Means(term, v))}
<1>1. ASSUME NEW term \in Terms, Parts(term) \subseteq Good
      PROVE  term \in Good
  <2> DEFINE schema == Schema(Define(term))
  <2> SUFFICES ASSUME NEW v, Means(term, v) # Reject
               PROVE  Admits(schema, Means(term, v))
    OBVIOUS
  <2> DEFINE w == Means(term, v)
  <2>1. Means(term, v) = MeansBody(term, v) /\ (Admits(schema, w) <=> AdmitsBody(schema, w))
    BY DEF Closed, TermCloses, ValueCloses
  <2> HIDE DEF schema
  <2>2. CASE term.kind = "int"
    <3>1. schema.type = "integer" /\ schema.keys = <<>>
      BY <2>2, SchemaOf DEF schema
    <3>2. w = Num(v[2])
      BY <2>1, <2>2 DEF MeansBody, AsNumber
    <3>3. w[1] = "num"
      BY <3>2 DEF Num
    <3> HIDE DEF w
    <3>4. AdmitsBody(schema, w)
      BY <3>1, <3>3, NoKeywords DEF AdmitsBody
    <3> QED
      BY <2>1, <3>4 DEF w
  <2>3. CASE term.kind = "list"
    <3>1. schema.type = "array" /\ schema.keys = <<>> /\ schema.nested = Schema(Define(term.of))
      BY <2>3, SchemaOf DEF schema
    <3>2. /\ \A i \in DOMAIN v[2] : Means(term.of, v[2][i]) # Reject
          /\ w = Arr([i \in DOMAIN v[2] |-> Means(term.of, v[2][i])])
      BY <2>1, <2>3 DEF MeansBody
    <3>3. term.of \in Good
      BY <1>1, <2>3, PartsOf
    <3>4. w[1] = "list" /\ w[2] = [i \in DOMAIN v[2] |-> Means(term.of, v[2][i])]
      BY <3>2 DEF Arr
    <3> HIDE DEF w
    <3>5. \A i \in DOMAIN w[2] : Admits(schema.nested, w[2][i])
      BY <3>1, <3>2, <3>3, <3>4
    <3>6. AdmitsBody(schema, w)
      BY <3>1, <3>4, <3>5, NoKeywords DEF AdmitsBody
    <3> QED
      BY <2>1, <3>6 DEF w
  <2>4. CASE term.kind = "field"
    <3> DEFINE pre == FromFirst(term.coercers, v)
    <3>1. /\ w = Means(term.type, pre)
          /\ \A kw \in DOMAIN term.refine : Holds(kw, term.refine[kw], w)
      BY <2>1, <2>4 DEF MeansBody
    <3>2. term.type \in Good /\ term.type \in Terms
      BY <1>1, <2>4, PartsOf
    <3> DEFINE base == Schema(Define(term.type))
    <3>3. Admits(base, w)
      BY <3>1, <3>2
    <3> HIDE DEF w, pre
    <3>4. /\ AdmitsBody(base, w) /\ Shape(base)
          /\ schema.type = base.type
      BY <2>4, <3>2, <3>3, SchemasHaveShape, SchemaOf DEF Closed, TermCloses, ValueCloses, schema
    <3>5. CASE base.type = "object"
      BY <2>4, <3>3, <3>4, <3>5, FieldAdmits DEF schema, w
    <3>6. CASE base.type # "object"
      <4>1. \A k \in DOMAIN base.keys : Satisfies(k, base.keys[k], w)
        <5> HIDE DEF base
        <5>1. base.type \in {"integer", "array"}
          BY <3>4, <3>6 DEF Shape
        <5> QED
          BY <3>4, <5>1 DEF AdmitsBody
      <4>2. \A k \in DOMAIN schema.keys : Satisfies(k, schema.keys[k], w)
        BY <2>4, <3>1, <4>1, FieldSatisfies DEF schema
      <4> QED
        BY <2>4, <3>3, <4>2, FieldAdmits DEF schema, w
    <3> QED
      BY <3>5, <3>6
  <2>5. CASE term.kind = "structural"
    <3>1. /\ schema.type = "object"
          /\ schema.nested = [f \in DOMAIN term.fields |-> Schema(Define(term.fields[f]))]
      BY <2>5, SchemaOf DEF schema
    <3> DEFINE obj == [f \in DOMAIN term.fields |-> Means(term.fields[f], v[2][f])]
    <3>2. /\ \A f \in DOMAIN term.fields : Means(term.fields[f], v[2][f]) # Reject
          /\ w = Obj(obj)
      BY <2>1, <2>5 DEF MeansBody
    <3>3. \A f \in DOMAIN term.fields : term.fields[f] \in Good
      BY <1>1, <2>5, PartsOf
    <3>4. w[1] = "obj" /\ w[2] = obj
      BY <3>2 DEF Obj
    <3> HIDE DEF w
    <3>5. \A f \in DOMAIN schema.nested : Admits(schema.nested[f], w[2][f])
      BY <3>1, <3>2, <3>3, <3>4
    <3>6. DOMAIN schema.nested = DOMAIN w[2]
      BY <3>1, <3>4
    <3>7. AdmitsBody(schema, w)
      BY <3>1, <3>4, <3>5, <3>6 DEF AdmitsBody
    <3> QED
      BY <2>1, <3>7 DEF w
  <2> QED
    BY <2>2, <2>3, <2>4, <2>5, PartsOf
<1> HIDE DEF Good
<1>2. Terms \subseteq Good
  BY <1>1, TermInduction
<1> QED
  BY <1>2, ValidatesAsMeant DEF Good

-----------------------------------------------------------------------------
(* What a bound rejects, the schema does not admit *)

\* v is of the schema's type and within its bounds, whatever its other keywords say; what is
\* nested in v is admitted.
Within(schema, v) ==
  /\ schema.type = "integer" => v[1] = "num"
  /\ schema.type = "array" => v[1] = "list" /\ \A i \in DOMAIN v[2] : Admits(schema.nested, v[2][i])
  /\ schema.type = "object" =>
       /\ v[1] = "obj" /\ DOMAIN schema.nested \subseteq DOMAIN v[2]
       /\ \A f \in DOMAIN schema.nested : Admits(schema.nested[f], v[2][f])
  /\ schema.type # "object" =>
       \A k \in DOMAIN schema.keys \cap BoundKeys : Satisfies(k, schema.keys[k], v)

LEMMA AdmittedIsWithin ==
  ASSUME Closed, NEW term \in Terms, NEW v, Admits(Schema(Define(term)), v)
  PROVE  Within(Schema(Define(term)), v)
<1> DEFINE schema == Schema(Define(term))
<1>1. AdmitsBody(schema, v)
  BY DEF Closed, TermCloses, ValueCloses
<1>2. schema.type \in {"integer", "array", "object"}
  BY SchemasHaveShape DEF Shape
<1> HIDE DEF schema
<1>3. Within(schema, v)
  <2>1. CASE schema.type = "integer"
    BY <1>1, <2>1 DEF AdmitsBody, Within
  <2>2. CASE schema.type = "array"
    BY <1>1, <2>2 DEF AdmitsBody, Within
  <2>3. CASE schema.type = "object"
    BY <1>1, <2>3 DEF AdmitsBody, Within
  <2> QED
    BY <1>2, <2>1, <2>2, <2>3
<1> QED
  BY <1>3 DEF schema

\* What satisfies a bound satisfies a looser one.
LEMMA TighterSatisfies ==
  ASSUME NEW k \in BoundKeys, NEW a \in Int, NEW b \in Int, Tighter(k, a, b),
         NEW v, k \in NumberKeys => v[2] \in Int, k \in SizeKeys => Len(v[2]) \in Nat,
         Satisfies(k, a, v)
  PROVE  Satisfies(k, b, v)
<1>1. CASE k \in NumberKeys
  BY <1>1 DEF NumberKeys, Tighter, TightenMax, TightenMin, Satisfies
<1>2. CASE k \in SizeKeys
  BY <1>2 DEF SizeKeys, Tighter, TightenMax, TightenMin, Satisfies
<1> QED
  BY <1>1, <1>2 DEF BoundKeys, TightenMax, TightenMin, NumberKeys, SizeKeys

\* A value that satisfies the keywords that a bound adds passes the bound.
LEMMA SatisfiedPasses ==
  ASSUME NEW kw, NEW arg, NEW v,
         kw \in Intervals \cup Bounds => v[1] = "num",
         kw \in Sizes => v[1] = "list",
         kw \in Bounds => arg \in Int,
         kw \in Intervals \cup Bounds \cup Sizes,
         \A f \in Fragment(kw, arg) : Satisfies(f[1], f[2], v)
  PROVE  Holds(kw, arg, v)
<1>1. \A x, k : <<k, x>> \in Fragment(kw, arg) => Satisfies(k, x, v)
  <2> SUFFICES ASSUME NEW x, NEW k, <<k, x>> \in Fragment(kw, arg) PROVE Satisfies(k, x, v)
    OBVIOUS
  <2>1. <<k, x>>[1] = k /\ <<k, x>>[2] = x
    OBVIOUS
  <2> QED
    BY <2>1
<1>2. CASE kw \in Intervals
  <2>1. /\ arg[1] # None => <<"minimum", arg[1]>> \in Fragment(kw, arg)
        /\ arg[2] # None => <<"maximum", arg[2]>> \in Fragment(kw, arg)
    BY <1>2 DEF Fragment, Intervals
  <2>2. Between(v[2], arg)
    BY <1>1, <2>1 DEF Satisfies, Between
  <2>3. kw \notin Bounds \cup {"multiple_of", "not_one_of", "predicate"}
    BY <1>2 DEF Intervals, Bounds
  <2>4. NumberCheck(kw, arg, v[2]) = Between(v[2], arg)
    BY <1>2, <2>3 DEF NumberCheck
  <2> QED
    BY <1>2, <2>2, <2>4 DEF Holds
<1>3. CASE kw \in Bounds
  <2>1. arg # None
    BY <1>3, NoneAssumption
  <2>2. kw \notin Intervals \cup Sizes \cup {"multiple_of", "not_one_of", "predicate"}
    BY <1>3 DEF Intervals, Bounds, Sizes
  <2>3. /\ kw \in {"int_gt", "float_gt"} => <<"exclusiveMinimum", arg>> \in Fragment(kw, arg)
        /\ kw \in {"int_ge", "float_ge"} => <<"minimum", arg>> \in Fragment(kw, arg)
        /\ kw \in {"int_lt", "float_lt"} => <<"exclusiveMaximum", arg>> \in Fragment(kw, arg)
        /\ kw \in {"int_le", "float_le"} => <<"maximum", arg>> \in Fragment(kw, arg)
    BY <2>1, <2>2 DEF Fragment
  <2>4. Compares(kw, v[2], arg)
    BY <1>1, <2>3 DEF Satisfies, Compares
  <2>5. NumberCheck(kw, arg, v[2]) = Compares(kw, v[2], arg)
    BY <1>3, <2>2 DEF NumberCheck
  <2> QED
    BY <1>3, <2>4, <2>5 DEF Holds
<1>4. CASE kw \in Sizes
  <2>1. kw \notin Intervals \cup Bounds \cup {"not_empty", "unique", "sorted", "monotonic",
                                              "not_one_of", "multiple_of"}
    BY <1>4 DEF Intervals, Bounds, Sizes
  <2>2. /\ arg[1] # None => <<"minItems", arg[1]>> \in Fragment(kw, arg)
        /\ arg[2] # None => <<"maxItems", arg[2]>> \in Fragment(kw, arg)
    BY <1>4, <2>1 DEF Fragment, Sizes
  <2>3. Between(Len(v[2]), arg)
    BY <1>1, <2>2 DEF Satisfies, Between
  <2>4. ListCheck(kw, arg, v[2]) = Between(Len(v[2]), arg)
    BY <1>4, <2>1 DEF ListCheck
  <2>5. v[1] = "list"
    BY <1>4
  <2> QED
    BY <2>3, <2>4, <2>5 DEF Holds
<1> QED
  BY <1>2, <1>3, <1>4

LEMMA SchemasFit ==
  ASSUME Closed, BoundsFit
  PROVE  \A term \in Terms : Fits(Schema(Define(term)))
<1> DEFINE Good == {term \in Terms : Fits(Schema(Define(term)))}
<1>1. ASSUME NEW term \in Terms, Parts(term) \subseteq Good
      PROVE  term \in Good
  <2> DEFINE schema == Schema(Define(term))
  <2>1. CASE term.kind \in {"int", "list", "structural"}
    <3>1. schema.keys = <<>>
      BY <2>1, SchemaOf
    <3> HIDE DEF schema
    <3>2. Fits(schema)
      BY <3>1, NoKeywords DEF Fits
    <3> QED
      BY <3>2 DEF schema
  <2>2. CASE term.kind = "field"
    <3> DEFINE base  == Schema(Define(term.type))
               frags == Fragments(term.refine)
    <3>1. schema.type = base.type /\ schema.keys = Merged(base.keys, frags)
      BY <2>2, SchemaOf
    <3>2. Fits(base) /\ Shape(base)
      BY <1>1, <2>2, PartsOf, SchemasHaveShape
    <3>3. ASSUME NEW kw \in DOMAIN term.refine
          PROVE  /\ kw \in Intervals \cup Bounds => base.type = "integer"
                 /\ kw \in Sizes => base.type = "array"
      BY <2>2 DEF BoundsFit
    <3>4. FragmentSet(frags)
      BY <2>2, FragmentsFit
    <3>5. ASSUME NEW f \in frags
          PROVE  /\ f[1] \in NumberKeys => base.type = "integer"
                 /\ f[1] \in SizeKeys => base.type = "array"
      <4>1. PICK kw \in DOMAIN term.refine : f \in Fragment(kw, term.refine[kw])
        BY DEF Fragments
      <4>2. f[1] \in NumberKeys => kw \in Intervals \cup Bounds
        BY <4>1, FragmentOf DEF NumberKeys, Bounds
      <4>3. f[1] \in SizeKeys => kw \in Sizes
        BY <4>1, FragmentOf DEF SizeKeys
      <4> QED
        BY <3>3, <4>2, <4>3
    <3> HIDE DEF schema, base, frags
    <3>6. MergedWell(base.keys, frags)
      BY <3>2, <3>4, MergedIsTight DEF Shape
    <3>7. \A k \in DOMAIN schema.keys :
            k \in DOMAIN base.keys \/ <<k, schema.keys[k]>> \in frags
      BY <3>1, <3>6 DEF MergedWell
    <3>8. ASSUME NEW k \in DOMAIN schema.keys
          PROVE  /\ k \in NumberKeys => base.type = "integer"
                 /\ k \in SizeKeys => base.type = "array"
      <4>1. CASE k \in DOMAIN base.keys
        BY <3>2, <4>1 DEF Fits
      <4>2. CASE <<k, schema.keys[k]>> \in frags
        BY <3>5, <4>2
      <4> QED
        BY <3>7, <4>1, <4>2
    <3>9. Fits(schema)
      BY <3>1, <3>8 DEF Fits
    <3> QED
      BY <3>9 DEF schema
  <2> QED
    BY <2>1, <2>2, PartsOf
<1> HIDE DEF Good
<1>2. Terms \subseteq Good
  BY <1>1, TermInduction
<1> QED
  BY <1>2 DEF Good

\* A value within the schema of a field is within that of its type, and satisfies the bounds that
\* its checks add.
LEMMA FieldWithin ==
  ASSUME Closed, BoundsFit, NEW term \in Terms, term.kind = "field", NEW v \in Inputs,
         Within(Schema(Define(term)), v)
  PROVE  /\ Within(Schema(Define(term.type)), v)
         /\ Schema(Define(term)).type = "object"
              \/ \A f \in Fragments(term.refine) : f[1] \in BoundKeys => Satisfies(f[1], f[2], v)
<1> DEFINE schema == Schema(Define(term))
           base   == Schema(Define(term.type))
           frags  == Fragments(term.refine)
<1>1. /\ schema.type = base.type /\ schema.nested = base.nested
      /\ schema.keys = Merged(base.keys, frags)
  BY SchemaOf
<1>2. Shape(base) /\ Shape(schema) /\ Fits(schema)
  BY PartsOf, SchemasHaveShape, SchemasFit
<1>3. FragmentSet(frags)
  BY FragmentsFit
<1>4. /\ v[1] = "num" => v[2] \in Int
      /\ v[1] = "list" => v[2] \in Seq(Inputs)
  BY InputsAssumption
<1>5. Within(schema, v)
  OBVIOUS
<1> HIDE DEF schema, base, frags
<1>6. MergedWell(base.keys, frags)
  BY <1>2, <1>3, MergedIsTight DEF Shape
<1>7. /\ DOMAIN base.keys \subseteq DOMAIN schema.keys
      /\ \A k \in DOMAIN base.keys \cap BoundKeys : Tighter(k, schema.keys[k], base.keys[k])
      /\ \A f \in frags : /\ f[1] \in DOMAIN schema.keys
                          /\ f[1] \in BoundKeys => Tighter(f[1], schema.keys[f[1]], f[2])
  BY <1>1, <1>6 DEF MergedWell
<1>8. \A k \in DOMAIN schema.keys \cap BoundKeys : schema.keys[k] \in Int
  BY <1>2 DEF Shape, Keywords, Keyword
<1>9. ASSUME schema.type # "object", NEW k \in DOMAIN schema.keys \cap BoundKeys
      PROVE  /\ k \in NumberKeys => v[2] \in Int
             /\ k \in SizeKeys => Len(v[2]) \in Nat
             /\ Satisfies(k, schema.keys[k], v)
  <2>1. k \in NumberKeys => v[1] = "num"
    BY <1>2, <1>5 DEF Fits, Within
  <2>2. k \in SizeKeys => v[1] = "list"
    BY <1>2, <1>5 DEF Fits, Within
  <2>3. Satisfies(k, schema.keys[k], v)
    BY <1>5, <1>9 DEF Within
  <2>4. v[2] \in Seq(Inputs) => Len(v[2]) \in Nat
    OBVIOUS
  <2> QED
    BY <1>4, <2>1, <2>2, <2>3, <2>4
<1>10. ASSUME schema.type # "object", NEW k \in DOMAIN base.keys \cap BoundKeys
       PROVE  Satisfies(k, base.keys[k], v)
  <2>1. base.keys[k] \in Int
    BY <1>2 DEF Shape, Keywords, Keyword
  <2> QED
    BY <1>7, <1>8, <1>9, <1>10, <2>1, TighterSatisfies
<1>11. ASSUME schema.type # "object", NEW f \in frags, f[1] \in BoundKeys
       PROVE  Satisfies(f[1], f[2], v)
  <2>1. f[2] \in Int
    BY <1>3, <1>11 DEF FragmentSet, Keyword
  <2> QED
    BY <1>7, <1>8, <1>9, <1>11, <2>1, TighterSatisfies
<1>12. Within(base, v)
  BY <1>1, <1>5, <1>10 DEF Within
<1> QED
  BY <1>11, <1>12 DEF schema, base, frags

\* A value that the schema admits passes every bound of the class, those of what is nested in it
\* too, if bounds are on values of their types.
THEOREM AdmittedPasses ==
  ASSUME Closed, BoundsFit
  PROVE  \A term \in Terms : \A v \in Inputs :
           Admits(Schema(Define(term)), v) => PassesBounds(Define(term), v)
<1> DEFINE Good == {term \in Terms : \A v \in Inputs :
                      Within(Schema(Define(term)), v) => PassesBounds(Define(term), v)}
<1>1. ASSUME NEW term \in Terms, Parts(term) \subseteq Good
      PROVE  term \in Good
  <2> DEFINE class  == Define(term)
             schema == Schema(class)
  <2> SUFFICES ASSUME NEW v \in Inputs, Within(schema, v)
               PROVE  PassesBounds(class, v)
    OBVIOUS
  <2>1. PassesBounds(class, v) <=> PassesBoundsBody(class, v)
    BY DEF Closed, TermCloses, ValueCloses
  <2>2. class.kind = term.kind
    BY ClassOf
  <2>3. /\ v[1] = "list" => v[2] \in Seq(Inputs)
        /\ v[1] = "obj" => Range(v[2]) \subseteq Inputs
    BY InputsAssumption
  <2> HIDE DEF class
  <2>4. CASE term.kind = "int"
    BY <2>1, <2>2, <2>4 DEF PassesBoundsBody
  <2>5. CASE term.kind = "list"
    <3>1. class.of = Define(term.of)
      <4>1. class = List(Define(term.of))
        BY <2>5, ClassOf DEF class
      <4> QED
        BY <4>1 DEF List
    <3>2. schema.type = "array" /\ schema.nested = Schema(Define(term.of))
      BY <2>5, SchemaOf DEF class
    <3>3. term.of \in Good /\ term.of \in Terms
      BY <1>1, <2>5, PartsOf
    <3> HIDE DEF schema
    <3>4. v[1] = "list" /\ \A i \in DOMAIN v[2] : Admits(schema.nested, v[2][i])
      BY <3>2 DEF Within
    <3>5. ASSUME NEW i \in DOMAIN v[2]
          PROVE  PassesBounds(class.of, v[2][i])
      <4>1. v[2][i] \in Inputs
        BY <2>3, <3>4
      <4>2. Within(Schema(Define(term.of)), v[2][i])
        BY <3>2, <3>3, <3>4, AdmittedIsWithin
      <4> QED
        BY <3>1, <3>3, <4>1, <4>2
    <3> QED
      BY <2>1, <2>2, <2>5, <3>4, <3>5 DEF PassesBoundsBody
  <2>6. CASE term.kind = "field"
    <3>1. class.type = Define(term.type) /\ class.after = term.refine
      <4>1. class = Build(Define(term.type), term.coercers, term.refine)
        BY <2>6, ClassOf DEF class
      <4> QED
        BY <4>1 DEF Build
    <3>2. term.type \in Good
      BY <1>1, <2>6, PartsOf
    <3> DEFINE base == Schema(Define(term.type))
    <3>3. /\ Within(base, v)
          /\ schema.type = "object"
               \/ \A f \in Fragments(term.refine) : f[1] \in BoundKeys => Satisfies(f[1], f[2], v)
      BY <2>6, FieldWithin DEF class
    <3>4. PassesBounds(class.type, v)
      BY <3>1, <3>2, <3>3
    <3>5. schema.type = base.type
      BY <2>6, SchemaOf DEF class
    <3>6. ASSUME NEW kw \in DOMAIN term.refine, kw \in Intervals \cup Bounds \cup Sizes
          PROVE  Holds(kw, term.refine[kw], v)
      <4> DEFINE arg == term.refine[kw]
      <4>1. /\ kw \in Intervals \cup Bounds => base.type = "integer"
            /\ kw \in Sizes => base.type = "array"
            /\ kw \in Bounds => arg \in Int
        <5>1. WellFormed(term)
          BY <2>6, TermsAssumption
        <5> QED
          BY <2>6, <5>1 DEF WellFormed, BoundsFit
      <4> HIDE DEF base, schema
      <4>2. /\ kw \in Intervals \cup Bounds => v[1] = "num"
            /\ kw \in Sizes => v[1] = "list"
        BY <3>3, <4>1 DEF Within
      <4>3. schema.type # "object"
        BY <3>5, <3>6, <4>1
      <4>4. ASSUME NEW f \in Fragment(kw, arg)
            PROVE  Satisfies(f[1], f[2], v)
        <5>1. f \in Fragments(term.refine)
          BY DEF Fragments
        <5>2. kw \notin {"multiple_of", "unique"}
          BY <3>6 DEF Intervals, Bounds, Sizes
        <5>3. f[1] \in BoundKeys
          BY <5>2, FragmentOf DEF BoundKeys, TightenMax, TightenMin
        <5> QED
          BY <3>3, <4>3, <5>1, <5>3
      <4> HIDE DEF arg
      <4>5. Holds(kw, arg, v)
        BY <3>6, <4>1, <4>2, <4>4, SatisfiedPasses
      <4> QED
        BY <4>5 DEF arg
    <3> QED
      BY <2>1, <2>2, <2>6, <3>1, <3>4, <3>6 DEF PassesBoundsBody
  <2>7. CASE term.kind = "structural"
    <3>1. class.fields = [f \in DOMAIN term.fields |-> Define(term.fields[f])]
      <4>1. class = Class([f \in DOMAIN term.fields |-> Define(term.fields[f])], term.members,
                          term.validators)
        BY <2>7, ClassOf DEF class
      <4> QED
        BY <4>1 DEF Class
    <3>2. /\ schema.type = "object"
          /\ schema.nested = [f \in DOMAIN term.fields |-> Schema(Define(term.fields[f]))]
      BY <2>7, SchemaOf DEF class
    <3>3. \A f \in DOMAIN term.fields : term.fields[f] \in Good /\ term.fields[f] \in Terms
      BY <1>1, <2>7, PartsOf
    <3> HIDE DEF schema
    <3>4. /\ v[1] = "obj" /\ DOMAIN schema.nested \subseteq DOMAIN v[2]
          /\ \A f \in DOMAIN schema.nested : Admits(schema.nested[f], v[2][f])
      BY <3>2 DEF Within
    <3>5. ASSUME NEW f \in DOMAIN term.fields
          PROVE  PassesBounds(class.fields[f], v[2][f])
      <4>1. v[2][f] \in Inputs
        BY <2>3, <3>2, <3>4 DEF Range
      <4>2. Within(Schema(Define(term.fields[f])), v[2][f])
        BY <3>2, <3>3, <3>4, AdmittedIsWithin
      <4> QED
        BY <3>1, <3>3, <4>1, <4>2
    <3> QED
      <4>1. DOMAIN class.fields = DOMAIN term.fields /\ DOMAIN schema.nested = DOMAIN term.fields
        BY <3>1, <3>2
      <4> QED
        BY <2>1, <2>2, <2>7, <3>4, <3>5, <4>1 DEF PassesBoundsBody
  <2> QED
    BY <2>4, <2>5, <2>6, <2>7, PartsOf
<1> HIDE DEF Good
<1>2. Terms \subseteq Good
  BY <1>1, TermInduction
<1> QED
  BY <1>2, AdmittedIsWithin DEF Good

=============================================================================

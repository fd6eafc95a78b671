--------------------------- MODULE SnapshotProofs ---------------------------
(***************************************************************************)
(* Proofs about Snapshot, for any names, policies and constraints.         *)
(* The history of a session does not matter: IInv says that the namespace  *)
(* is the saved one or what was recovered of it.  So the proofs are about  *)
(* one namespace m, its snapshot s, and what is recovered of s.            *)
(***************************************************************************)
EXTENDS Snapshot, ConstraintsProofs, TLAPS

-----------------------------------------------------------------------------
(* One snapshot and what is recovered of it. *)

\* A snapshot has a value for what dill can save, a source for every other policy, and a recipe
\* for every constraint whose recipe dill can save.
LEMMA SnapshotHas ==
  ASSUME NEW m, NEW s, IsSnapshot(s, m)
  PROVE  /\ DOMAIN s.vars = Saved(m)
         /\ \A n \in Saved(m) : s.vars[n] = m[n]
         /\ DOMAIN s.sources = DOMAIN m \cap (Policies \ Saved(m))
         /\ \A n \in DOMAIN s.sources : s.sources[n] = m[n]
         /\ DOMAIN s.recipes = {n \in Constraints(m) : RecipeDumps(m[n].class)}
         /\ \A n \in DOMAIN s.recipes : s.recipes[n] = ToRecipe(m[n].class)
         /\ s.dropped = Dropped(m)
<1>1. Saved(m) \subseteq DOMAIN m
  BY DEF Saved
<1> QED
  BY <1>1 DEF IsSnapshot, Collect, Pick

\* What is recovered are the objects that load, the sources that run again and the recipes that
\* load.
LEMMA RecoveredHas ==
  ASSUME NEW m, NEW s, IsSnapshot(s, m)
  PROVE  /\ DOMAIN Recovered(s) = (Saved(m) \ LoadFailures(s))
                                    \cup (DOMAIN s.sources \ ReplayFailures(s))
                                    \cup (DOMAIN s.recipes \ LoadFailures(s))
         /\ \A n \in DOMAIN Recovered(s) :
              \/ n \in DOMAIN s.recipes /\ Recovered(s)[n] = Rebuilt(s.recipes[n])
              \/ Recovered(s)[n] = m[n]
         /\ DOMAIN Recovered(s) \subseteq DOMAIN m
<1>1. /\ DOMAIN s.vars = Saved(m)
      /\ \A n \in Saved(m) : s.vars[n] = m[n]
      /\ DOMAIN s.sources \subseteq DOMAIN m
      /\ \A n \in DOMAIN s.sources : s.sources[n] = m[n]
      /\ DOMAIN s.recipes \subseteq DOMAIN m
      /\ Saved(m) \subseteq DOMAIN m
  BY SnapshotHas DEF Saved, Constraints
<1> QED
  BY <1>1 DEF Recovered

\* What is not recovered is named in the notes, unless it is over the size limit.
LEMMA LossIsNoted ==
  ASSUME NEW m, NEW s, IsSnapshot(s, m),
         NEW n \in DOMAIN m \ DOMAIN Recovered(s), m[n].kind # "big"
  PROVE  n \in NotesOf(s)
<1>1. DOMAIN Recovered(s) = (Saved(m) \ LoadFailures(s))
                              \cup (DOMAIN s.sources \ ReplayFailures(s))
                              \cup (DOMAIN s.recipes \ LoadFailures(s))
  BY RecoveredHas
<1>2. CASE n \in Constraints(m)
  <2>1. CASE RecipeDumps(m[n].class)
    <3>1. n \in DOMAIN s.recipes
      BY <1>2, <2>1, SnapshotHas
    <3>2. n \in LoadFailures(s)
      BY <1>1, <3>1
    <3> QED
      BY <3>2 DEF NotesOf
  <2>2. CASE ~RecipeDumps(m[n].class)
    <3>1. n \in s.dropped
      BY <1>2, <2>2, SnapshotHas DEF Dropped
    <3> QED
      BY <3>1 DEF NotesOf
  <2> QED
    BY <2>1, <2>2
<1>3. CASE n \notin Constraints(m)
  <2>1. CASE Dumps(m[n])
    <3>1. n \in Saved(m)
      BY <1>3, <2>1 DEF Saved
    <3>2. n \in LoadFailures(s)
      BY <1>1, <3>1
    <3> QED
      BY <3>2 DEF NotesOf
  <2>2. CASE ~Dumps(m[n])
    <3>1. n \in s.dropped
      BY <1>3, <2>2, SnapshotHas DEF Dropped
    <3> QED
      BY <3>1 DEF NotesOf
  <2> QED
    BY <2>1, <2>2
<1> QED
  BY <1>2, <1>3

-----------------------------------------------------------------------------
(* The invariant. *)

LEMMA InitIInv == Init => IInv
BY DEF Init, IInv, IsSnapshot, SavedOrRecovered

\* A cell leaves a namespace and its snapshot.
LEMMA CellKeeps ==
  ASSUME NEW m, CellEnds(m)
  PROVE  IInv' /\ ~fresh'
BY DEF CellEnds, IInv, IsSnapshot, SavedOrRecovered

\* A step is a cell or a restart.
LEMMA StepCases ==
  ASSUME Next
  PROVE  (\E m : CellEnds(m)) \/ Restart
BY DEF Next, BindValue, BindConstraint, Delete

LEMMA StepKeeps ==
  ASSUME IInv, [Next]_vars
  PROVE  IInv'
<1>1. CASE \E m : CellEnds(m)
  BY <1>1, CellKeeps
<1>2. CASE Restart
  BY <1>2 DEF Restart, IInv, IsSnapshot, SavedOrRecovered
<1>3. CASE UNCHANGED vars
  BY <1>3 DEF vars, IInv, IsSnapshot, SavedOrRecovered
<1> QED
  BY <1>1, <1>2, <1>3, StepCases

\* After any number of cells and restarts, the last snapshot is one of the namespace that the last
\* cell left, and the namespace is that one or what the restart recovered (session.py:219,
\* kernel.py:552-575).
THEOREM Invariant == Spec => []IInv
<1>1. IInv /\ [Next]_vars => IInv'
  BY StepKeeps
<1> QED
  BY <1>1, InitIInv, PTL DEF Spec

\* What a restart loses, at whichever step and on whichever path, the notes name (kernel.py:217-218),
\* but for what is over the size limit (prefix.py:196-197).
THEOREM LossesAreNamed == Spec => []LostIsNamed
<1>1. IInv => LostIsNamed
  <2> SUFFICES ASSUME IInv, fresh, NEW n \in DOMAIN saved \ DOMAIN main, saved[n].kind # "big"
               PROVE  n \in notes
    BY DEF LostIsNamed
  <2>1. IsSnapshot(snap, saved)
    BY DEF IInv
  <2>2. main = Recovered(snap) /\ notes = NotesOf(snap)
    BY DEF IInv, SavedOrRecovered
  <2> QED
    BY <2>1, <2>2, LossIsNoted
<1> QED
  BY <1>1, Invariant, PTL

\* A restart brings back nothing but what the last cell left, and what is no constraint comes back
\* as it was, by value or from its source (kernel.py:226-250, 327-340).
NothingInvented ==
  \A n \in DOMAIN main :
    /\ n \in DOMAIN saved
    /\ saved[n].kind # "class" => main[n] = saved[n]

THEOREM OnlySavedReturns == Spec => []NothingInvented
<1>1. IInv => NothingInvented
  <2> SUFFICES ASSUME IInv, NEW n \in DOMAIN main
               PROVE  n \in DOMAIN saved /\ (saved[n].kind # "class" => main[n] = saved[n])
    BY DEF NothingInvented
  <2>1. IsSnapshot(snap, saved)
    BY DEF IInv
  <2>2. CASE main = saved
    BY <2>2
  <2>3. CASE main = Recovered(snap)
    <3>1. n \in DOMAIN saved
      BY <2>1, <2>3, RecoveredHas
    <3>2. n \in DOMAIN snap.recipes => saved[n].kind = "class"
      BY <2>1, SnapshotHas DEF Constraints
    <3>3. \A k \in DOMAIN Recovered(snap) :
            \/ k \in DOMAIN snap.recipes /\ Recovered(snap)[k] = Rebuilt(snap.recipes[k])
            \/ Recovered(snap)[k] = saved[k]
      BY <2>1, RecoveredHas
    <3> QED
      BY <2>3, <3>1, <3>2, <3>3
  <2> QED
    BY <2>2, <2>3 DEF IInv, SavedOrRecovered
<1> QED
  BY <1>1, Invariant, PTL

-----------------------------------------------------------------------------
(* Constraints *)

\* The constraints of a namespace are the classes their authors wrote.
AsWritten(m) ==
  \A n \in DOMAIN m : m[n].kind = "class" =>
    n \in DOMAIN written /\ written[n] \in Specs /\ m[n].class = Define(written[n])

\* So they are in a namespace that is recovered.
LEMMA RecoveredAsWritten ==
  ASSUME Closed, IsSnapshot(snap, saved), AsWritten(saved)
  PROVE  AsWritten(Recovered(snap))
<1> SUFFICES ASSUME NEW n \in DOMAIN Recovered(snap), Recovered(snap)[n].kind = "class"
             PROVE  /\ n \in DOMAIN written /\ written[n] \in Specs
                    /\ Recovered(snap)[n].class = Define(written[n])
  BY DEF AsWritten
<1>1. n \in DOMAIN saved
  BY RecoveredHas
<1>2. CASE Recovered(snap)[n] = saved[n]
  BY <1>1, <1>2 DEF AsWritten
<1>3. CASE n \in DOMAIN snap.recipes /\ Recovered(snap)[n] = Rebuilt(snap.recipes[n])
  <2>1. saved[n].kind = "class" /\ snap.recipes[n] = ToRecipe(saved[n].class)
    BY <1>3, SnapshotHas DEF Constraints
  <2>2. n \in DOMAIN written /\ written[n] \in Specs /\ saved[n].class = Define(written[n])
    BY <1>1, <2>1 DEF AsWritten
  <2>3. Recovered(snap)[n].class = FromRecipe(ToRecipe(Define(written[n])))
    BY <1>3, <2>1, <2>2 DEF Rebuilt
  <2> QED
    BY <2>2, <2>3, RoundTrips, SpecsAssumption
<1>4. \A k \in DOMAIN Recovered(snap) :
        \/ k \in DOMAIN snap.recipes /\ Recovered(snap)[k] = Rebuilt(snap.recipes[k])
        \/ Recovered(snap)[k] = saved[k]
  BY RecoveredHas
<1> QED
  BY <1>2, <1>3, <1>4

\* A step that leaves its namespace to the names it had and to one new one.
LEMMA StepAsWritten ==
  ASSUME Closed, IInv, AsWritten(main), AsWritten(saved), [Next]_vars
  PROVE  AsWritten(main)' /\ AsWritten(saved)'
<1>1. ASSUME NEW n, NEW kind \in ValueKinds \cup PolicyKinds, BindValue(n, kind)
      PROVE  AsWritten(main)' /\ AsWritten(saved)'
  <2>1. /\ main' = With(main, n, Plain(kind)) /\ saved' = main'
        /\ written' = Pick(written, DOMAIN main \ {n})
    BY <1>1 DEF BindValue, CellEnds
  <2>2. Plain(kind).kind # "class"
    BY DEF Plain, ValueKinds, PolicyKinds
  <2> QED
    BY <2>1, <2>2 DEF AsWritten, With, Pick
<1>2. ASSUME NEW n, NEW spec \in Specs, BindConstraint(n, spec)
      PROVE  AsWritten(main)' /\ AsWritten(saved)'
  <2>1. /\ main' = With(main, n, [kind |-> "class", class |-> Define(spec)]) /\ saved' = main'
        /\ written' = With(Pick(written, DOMAIN main), n, spec)
    BY <1>2 DEF BindConstraint, CellEnds
  <2> QED
    BY <2>1 DEF AsWritten, With, Pick
<1>3. ASSUME NEW n, Delete(n)
      PROVE  AsWritten(main)' /\ AsWritten(saved)'
  <2>1. /\ main' = Pick(main, DOMAIN main \ {n}) /\ saved' = main'
        /\ written' = Pick(written, DOMAIN main \ {n})
    BY <1>3 DEF Delete, CellEnds
  <2> QED
    BY <2>1 DEF AsWritten, Pick
<1>4. CASE Restart
  <2>1. main' = Recovered(snap) /\ saved' = saved /\ written' = written
    BY <1>4 DEF Restart
  <2>2. AsWritten(Recovered(snap))
    BY RecoveredAsWritten DEF IInv
  <2> QED
    BY <2>1, <2>2 DEF AsWritten
<1>5. CASE UNCHANGED vars
  BY <1>5 DEF vars, AsWritten
<1> QED
  BY <1>1, <1>2, <1>3, <1>4, <1>5 DEF Next

\* However often a constraint went through a snapshot, it is the class that its author wrote
\* (constraint/snapshot.py:289-343).
THEOREM ConstraintsStayAsWritten ==
  ASSUME Closed
  PROVE  Spec => []AsWritten(main)
<1> DEFINE Both == IInv /\ AsWritten(main) /\ AsWritten(saved)
<1>1. Init => Both
  BY InitIInv, NoKeywords DEF Init, AsWritten
<1>2. Both /\ [Next]_vars => Both'
  BY StepAsWritten, StepKeeps
<1>3. Both => AsWritten(main)
  OBVIOUS
<1> HIDE DEF Both
<1> QED
  BY <1>1, <1>2, <1>3, PTL DEF Spec

\* In every namespace of a session, validate() does with every value, not only those that a run
\* tries, what the author of the constraint wrote (constraint/base.py:102-103).
THEOREM MeaningKept ==
  ASSUME Closed
  PROVE  Spec => []ConstraintsMean
<1>1. AsWritten(main) => ConstraintsMean
  <2> SUFFICES ASSUME AsWritten(main), NEW n \in Live, NEW v \in Inputs
               PROVE  Validate(main[n].class, v) = Means(written[n], v)
    BY DEF ConstraintsMean
  <2>1. written[n] \in Terms /\ main[n].class = Define(written[n])
    BY SpecsAssumption DEF AsWritten, Live
  <2> QED
    BY <2>1, ValidatesAsMeant
<1> QED
  BY <1>1, ConstraintsStayAsWritten, PTL

\* And its schema admits what validate() returns, and no value that one of its bounds rejects, at
\* whatever depth the bound is (constraint/base.py:751-752).
THEOREM BoundsAlwaysExported ==
  ASSUME Closed, BoundsFit
  PROVE  Spec => []BoundsExported
<1>1. AsWritten(main) => BoundsExported
  <2> SUFFICES ASSUME AsWritten(main), NEW n \in Live, NEW v \in Inputs
               PROVE  LET class  == main[n].class
                          schema == Schema(class)
                          result == Validate(class, v)
                      IN  /\ result # Reject => Admits(schema, result)
                          /\ Admits(schema, v) => PassesBounds(class, v)
    BY DEF BoundsExported
  <2>1. written[n] \in Terms /\ main[n].class = Define(written[n])
    BY SpecsAssumption DEF AsWritten, Live
  <2> QED
    BY <2>1, ReturnsAreAdmitted, AdmittedPasses
<1> QED
  BY <1>1, ConstraintsStayAsWritten, PTL

=============================================================================

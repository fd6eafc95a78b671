----------------------- MODULE ParallelBranchesProofs ------------------------
(***************************************************************************)
(* Proofs about ParallelBranches: the edits of branches that hand on only  *)
(* grants that they have survive, nothing works on when the cell is over,  *)
(* and no policy vanishes, for all numbers of calls, of tasks and of       *)
(* edits, and pools of all sizes.                                          *)
(*                                                                         *)
(* The argument is about who may edit a policy.  Grants are exclusive in   *)
(* one call only; over all calls, two contexts may edit a policy if one    *)
(* of them is waiting, for the branch that it handed its grant to.  Since  *)
(* who waits does not edit, one edit of a policy is going on at a time.    *)
(***************************************************************************)
EXTENDS ParallelBranches, FiniteSetTheorems, WellFoundedInduction, TLAPS

EditRecords == [policy : Policies, base : SUBSET Edits, id : Edits, popped : BOOLEAN]
CallRecords == [caller : Contexts, workers : Pools, phase : {"gather", "settle", "over"}]
TaskRecords == [st : {"none", "queued", "running", "done", "dropped"}, grants : SUBSET Policies]

\* What the variables hold.
TypeOK ==
  /\ cell \in {"running", "over"} /\ armed \in BOOLEAN
  /\ calls \in Seq(CallRecords) /\ Len(calls) <= MaxCalls
  /\ task \in [Branches -> TaskRecords]
  /\ edit \in [Contexts -> EditRecords \cup {None}]
  /\ text \in [Policies -> SUBSET Edits]
  /\ names \subseteq Policies /\ expected \subseteq Policies /\ cut \subseteq Policies
  /\ contested \subseteq Policies
  /\ made \in 0 .. MaxEdits /\ accepted \subseteq Policies \X Edits

\* A branch exists as long as its call is open, and only then it has grants.
Tasks ==
  /\ \A b \in Branches : task[b].grants # {} => task[b].st \in Live
  /\ \A b \in Branches : task[b].st \in Live => b[1] \in DOMAIN calls /\ Open(b[1])
  /\ \A b \in Branches : b[1] \notin DOMAIN calls => task[b].st = "none"

\* A caller waits for its call: it neither ends nor edits.  It was there before the call.
Callers ==
  /\ \A c \in DOMAIN calls : calls[c].caller[1] < c
  /\ \A c \in DOMAIN calls : Open(c) => Runs(calls[c].caller)
  /\ \A x \in Contexts : edit[x] # None => Runs(x) /\ ~Blocked(x)

\* Two contexts may edit one policy only where the grant was handed on: one of the two waits
\* for a branch that may edit it.
HandedOn(x, y, p) ==
  \E b \in Branches : /\ task[b].st \in Live /\ p \in task[b].grants
                      /\ calls[b[1]].caller \in {x, y}

Exclusion ==
  \A p \in Policies \ contested, x, y \in Contexts :
    x # y /\ MayEdit(x, p) /\ MayEdit(y, p) => HandedOn(x, y, p)

\* An edit that will pass the gate was made from the text as it is.
CurrentAt(x) ==
  edit[x] # None =>
    LET p == edit[x].policy
    IN  /\ edit[x].popped => MayEdit(x, p)
        /\ p \notin contested /\ MayEdit(x, p) => edit[x].base = text[p]

Current == \A x \in Contexts : CurrentAt(x)

\* A name is in the registry, or someone is about to put it back.
Names ==
  \A p \in expected \ cut :
    p \in names \/ \E x \in Contexts : edit[x] # None /\ edit[x].popped /\ edit[x].policy = p

IInv == TypeOK /\ Tasks /\ Callers /\ Exclusion /\ Current /\ Names /\ EditsSurvive

-----------------------------------------------------------------------------
(* Facts about the bounds and the contexts *)

\* The main thread is no branch, and a branch names its call.
LEMMA ContextFacts ==
  /\ Main \notin Branches /\ Main \in Contexts /\ Branches \subseteq Contexts
  /\ \A b \in Branches : b[1] \in 1 .. MaxCalls /\ b[2] \in 1 .. Width
  /\ \A x \in Contexts : x # Main => x \in Branches
  /\ Main[1] = 0
<1>1. \A b \in Branches : b[1] \in 1 .. MaxCalls /\ b[2] \in 1 .. Width
  BY DEF Branches
<1>2. Main \notin Branches
  <2>1. Main[1] = 0
    BY DEF Main
  <2> QED
    BY <1>1, <2>1, BranchesAssumption
<1> QED
  BY <1>1, <1>2 DEF Main, Contexts

LEMMA NoneNoEdit == None \notin EditRecords
BY BranchesAssumption DEF EditRecords, Edits

LEMMA CallersAreContexts ==
  ASSUME TypeOK, NEW c \in DOMAIN calls
  PROVE  calls[c] \in CallRecords /\ calls[c].caller \in Contexts
<1>1. calls \in Seq(CallRecords)
  BY DEF TypeOK
<1>2. calls[c] \in CallRecords
  BY <1>1
<1> QED
  BY <1>2 DEF CallRecords

\* Whoever waits for a live branch neither begins nor has an edit.
LEMMA WaitingEditsNothing ==
  ASSUME TypeOK, Tasks, Callers, NEW b \in Branches, task[b].st \in Live
  PROVE  /\ b[1] \in DOMAIN calls /\ Blocked(calls[b[1]].caller)
         /\ calls[b[1]].caller \in Contexts
         /\ edit[calls[b[1]].caller] = None
         /\ ~Free(calls[b[1]].caller)
<1>1. b[1] \in DOMAIN calls /\ Open(b[1])
  BY DEF Tasks
<1>2. calls[b[1]].caller \in Contexts
  BY <1>1, CallersAreContexts
<1>3. Blocked(calls[b[1]].caller)
  BY <1>1 DEF Blocked
<1> QED
  BY <1>1, <1>2, <1>3 DEF Callers, Free

\* Of two contexts that may edit a policy that is not contested, one has no edit to make.
LEMMA OneEditor ==
  ASSUME IInv, NEW p \in Policies \ contested, NEW x \in Contexts, NEW y \in Contexts, x # y,
         MayEdit(x, p), MayEdit(y, p)
  PROVE  edit[x] = None \/ edit[y] = None
<1>1. PICK b \in Branches : task[b].st \in Live /\ calls[b[1]].caller \in {x, y}
  BY DEF IInv, Exclusion, HandedOn
<1> QED
  BY <1>1, WaitingEditsNothing DEF IInv

-----------------------------------------------------------------------------
LEMMA InitHolds == Init => IInv
<1> SUFFICES ASSUME Init PROVE IInv
  OBVIOUS
<1>1. TypeOK
  BY BranchesAssumption DEF Init, TypeOK, TaskRecords, Edits, CallRecords
<1>2. Tasks /\ Callers
  BY DEF Init, Tasks, Callers, Live
<1>3. Exclusion
  BY ContextFacts DEF Init, Exclusion, MayEdit
<1>4. Current /\ Names /\ EditsSurvive
  BY DEF Init, Current, CurrentAt, Names, EditsSurvive
<1> QED
  BY <1>1, <1>2, <1>3, <1>4 DEF IInv

-----------------------------------------------------------------------------
(* The steps of parallel() *)

\* The tasks of a new call were not there, the others are as before.
LEMMA NewTasks ==
  ASSUME IInv, NEW x \in Contexts, NEW plan \in Plans, NEW workers \in Pools,
         Parallel(x, plan, workers)
  PROVE  /\ calls' \in Seq(CallRecords) /\ Len(calls') = Len(calls) + 1
         /\ Len(calls) + 1 \in 1 .. MaxCalls
         /\ \A c \in DOMAIN calls : calls'[c] = calls[c]
         /\ calls'[Len(calls) + 1] = [caller |-> x, workers |-> workers, phase |-> "gather"]
         /\ \A b \in Branches : b[1] # Len(calls) + 1 => task'[b] = task[b]
         /\ \A b \in Branches : b[1] = Len(calls) + 1 =>
              /\ task[b].st = "none" /\ task[b].grants = {}
              /\ \/ task'[b] = task[b]
                 \/ b[2] \in DOMAIN plan /\ task'[b] = [st |-> "queued", grants |-> plan[b[2]]]
         /\ task' \in [Branches -> TaskRecords]
<1> DEFINE r == [caller |-> x, workers |-> workers, phase |-> "gather"]
<1>1. calls' = Append(calls, r) /\ Len(calls) < MaxCalls /\ r \in CallRecords
  BY DEF Parallel, CallRecords
<1>2. calls \in Seq(CallRecords) /\ Len(calls) \in Nat /\ MaxCalls \in Nat
  BY BranchesAssumption DEF IInv, TypeOK
<1>3. /\ calls' \in Seq(CallRecords) /\ Len(calls') = Len(calls) + 1
      /\ Len(calls) + 1 \in 1 .. MaxCalls
      /\ \A c \in DOMAIN calls : calls'[c] = calls[c]
      /\ calls'[Len(calls) + 1] = r
  <2> HIDE DEF r
  <2> QED
    BY <1>1, <1>2
<1>4. task' = [b \in Branches |->
                IF b[1] = Len(calls) + 1 /\ b[2] \in DOMAIN plan
                  THEN [st |-> "queued", grants |-> plan[b[2]]] ELSE task[b]]
  BY DEF Parallel
<1>5. \A b \in Branches : b[1] = Len(calls) + 1 => task[b].st = "none" /\ task[b].grants = {}
  BY <1>2 DEF IInv, Tasks, Live
<1>6. \A i \in DOMAIN plan : plan[i] \in SUBSET Policies
  BY DEF Plans
<1>7. task' \in [Branches -> TaskRecords]
  BY <1>4, <1>6 DEF TaskRecords, IInv, TypeOK
<1> QED
  BY <1>3, <1>4, <1>5, <1>7

LEMMA ParallelKeeps ==
  ASSUME IInv, NEW x \in Contexts, NEW plan \in Plans, NEW workers \in Pools,
         Parallel(x, plan, workers)
  PROVE  IInv'
<1>0. PICK n \in Nat : n = Len(calls) + 1
  BY DEF IInv, TypeOK
<1>1. /\ calls' \in Seq(CallRecords) /\ Len(calls') = n
      /\ n \in 1 .. MaxCalls
      /\ \A c \in DOMAIN calls : calls'[c] = calls[c]
      /\ calls'[n] = [caller |-> x, workers |-> workers, phase |-> "gather"]
      /\ \A b \in Branches : b[1] # n => task'[b] = task[b]
      /\ \A b \in Branches : b[1] = n =>
           /\ task[b].st = "none" /\ task[b].grants = {}
           /\ \/ task'[b] = task[b]
              \/ b[2] \in DOMAIN plan /\ task'[b] = [st |-> "queued", grants |-> plan[b[2]]]
      /\ task' \in [Branches -> TaskRecords]
  BY <1>0, NewTasks
<1>2. DOMAIN calls = 1 .. Len(calls) /\ DOMAIN calls' = 1 .. n /\ Len(calls) \in Nat
      /\ n \notin DOMAIN calls /\ DOMAIN calls' = DOMAIN calls \cup {n}
  BY <1>0, <1>1 DEF IInv, TypeOK
<1>3. /\ UNCHANGED <<cell, edit, text, names, made, armed, accepted, expected, cut>>
      /\ contested' = contested \cup {p \in Policies : /\ ~MayEdit(x, p)
                                                       /\ \E i \in DOMAIN plan : p \in plan[i]}
      /\ Runs(x) /\ ~Blocked(x) /\ edit[x] = None
      /\ Exclusive(plan)
  BY DEF Parallel, Free
<1>4. TypeOK'
  BY <1>1, <1>3, BranchesAssumption DEF IInv, TypeOK
<1>5. \A y \in Contexts : Runs(y) => Runs(y)'
  BY <1>1, <1>3, ContextFacts DEF Runs
<1>6. \A c \in DOMAIN calls : Open(c)' = Open(c) /\ calls'[c].caller = calls[c].caller
  BY <1>1 DEF Open
<1>7. Open(n)' /\ calls'[n].caller = x
  BY <1>1 DEF Open
<1>8. Tasks'
  <2>1. \A b \in Branches : task'[b].grants # {} => task'[b].st \in Live
    BY <1>1 DEF IInv, Tasks, Live
  <2>2. \A b \in Branches : task'[b].st \in Live => b[1] \in DOMAIN calls' /\ Open(b[1])'
    BY <1>1, <1>2, <1>6, <1>7 DEF IInv, Tasks
  <2>3. \A b \in Branches : b[1] \notin DOMAIN calls' => task'[b].st = "none"
    BY <1>1, <1>2 DEF IInv, Tasks
  <2> QED
    BY <2>1, <2>2, <2>3 DEF Tasks
<1>9. Callers'
  <2>1. x[1] < n
    <3>1. CASE x = Main
      BY <3>1, <1>1, ContextFacts
    <3>2. CASE x # Main
      BY <3>2, <1>2, <1>3, <1>1, ContextFacts DEF IInv, Tasks, Runs, Live
    <3> QED
      BY <3>1, <3>2
  <2>2. \A c \in DOMAIN calls' : calls'[c].caller[1] < c
    BY <2>1, <1>2, <1>6, <1>7 DEF IInv, Callers
  <2>5. \A c \in DOMAIN calls' : Open(c)' => Runs(calls[c].caller)'
    BY <1>2, <1>3, <1>5, <1>6, <1>7, CallersAreContexts DEF IInv, Callers
  <2>6. ASSUME NEW y \in Contexts, edit'[y] # None PROVE Runs(y)' /\ ~Blocked(y)'
    <3>1. Runs(y) /\ ~Blocked(y) /\ y # x
      BY <2>6, <1>3 DEF IInv, Callers
    <3> QED
      BY <3>1, <1>2, <1>5, <1>6, <1>7 DEF Blocked
  <2> QED
    BY <2>2, <2>5, <2>6 DEF Callers
<1>10. Exclusion'
  <2> SUFFICES ASSUME NEW p \in Policies \ contested', NEW y \in Contexts, NEW z \in Contexts,
                      y # z, MayEdit(y, p)', MayEdit(z, p)'
               PROVE  HandedOn(y, z, p)'
    BY DEF Exclusion
  \* The new tasks that may edit p: there is at most one, and then x may edit it.
  <2>1. ASSUME NEW b \in Contexts, MayEdit(b, p)', ~MayEdit(b, p)
        PROVE  /\ b \in Branches /\ b[1] = n /\ b[2] \in DOMAIN plan /\ p \in plan[b[2]]
               /\ task'[b].st \in Live /\ p \in task'[b].grants
               /\ MayEdit(x, p) /\ b # x
    <3>1. b \in Branches /\ p \in task'[b].grants /\ p \notin task[b].grants
      BY <2>1, ContextFacts DEF MayEdit
    <3>2. b[1] = n /\ b[2] \in DOMAIN plan /\ task'[b] = [st |-> "queued", grants |-> plan[b[2]]]
      BY <1>1, <3>1
    <3>3. MayEdit(x, p)
      BY <1>3, <3>1, <3>2
    <3> QED
      BY <2>1, <3>1, <3>2, <3>3 DEF Live
  <2>2. ASSUME NEW b \in Branches, task[b].st \in Live, p \in task[b].grants,
               calls[b[1]].caller \in {y, z}
        PROVE  HandedOn(y, z, p)'
    <3>1. b[1] \in DOMAIN calls
      BY <2>2 DEF IInv, Tasks
    <3>2. task'[b] = task[b] /\ calls'[b[1]].caller = calls[b[1]].caller
      BY <3>1, <1>1, <1>2
    <3> QED
      BY <2>2, <3>2 DEF HandedOn, Live
  <2>3. p \in Policies \ contested
    BY <1>3
  <2>4. CASE MayEdit(y, p) /\ MayEdit(z, p)
    BY <2>2, <2>3, <2>4 DEF IInv, Exclusion, HandedOn
  <2>5. ASSUME NEW b \in Contexts, NEW d \in Contexts, MayEdit(b, p)', ~MayEdit(b, p),
               MayEdit(d, p), {b, d} = {y, z}
        PROVE  HandedOn(y, z, p)'
    <3>1. /\ b \in Branches /\ b[1] = n /\ task'[b].st \in Live /\ p \in task'[b].grants
          /\ MayEdit(x, p)
      BY <2>1, <2>5
    <3>2. CASE d = x
      BY <3>1, <3>2, <1>7, <2>5 DEF HandedOn, Live
    <3>3. CASE d # x
      <4>1. PICK e \in Branches : /\ task[e].st \in Live /\ p \in task[e].grants
                                  /\ calls[e[1]].caller \in {d, x}
        BY <2>3, <2>5, <3>1, <3>3 DEF IInv, Exclusion, HandedOn
      <4>2. calls[e[1]].caller # x
        BY <4>1, <1>3, WaitingEditsNothing DEF IInv
      <4> QED
        BY <4>1, <4>2, <2>2, <2>5
    <3> QED
      BY <3>2, <3>3
  <2>6. CASE ~MayEdit(y, p) /\ ~MayEdit(z, p)
    <3>1. /\ y[1] = n /\ z[1] = n /\ y \in Branches /\ z \in Branches
          /\ y[2] \in DOMAIN plan /\ z[2] \in DOMAIN plan
          /\ p \in plan[y[2]] /\ p \in plan[z[2]]
      BY <2>1, <2>6
    <3>2. y[2] # z[2]
      BY <3>1 DEF Branches
    <3> QED
      BY <3>1, <3>2, <1>3 DEF Exclusive
  <2> QED
    BY <2>4, <2>5, <2>6
<1>11. Current'
  <2> SUFFICES ASSUME NEW y \in Contexts, edit[y] # None
               PROVE  CurrentAt(y)'
    BY <1>3 DEF Current, CurrentAt
  <2>1. edit[y].policy \in Policies
    BY NoneNoEdit DEF IInv, TypeOK, EditRecords
  <2>2. Runs(y)
    BY DEF IInv, Callers
  <2>3. y # Main => task'[y] = task[y]
    BY <1>1, <2>2, ContextFacts DEF Runs
  <2>4. MayEdit(y, edit[y].policy)' = MayEdit(y, edit[y].policy)
    BY <1>3, <2>3 DEF MayEdit
  <2> QED
    BY <1>3, <2>1, <2>4 DEF IInv, Current, CurrentAt
<1>12. Names' /\ EditsSurvive'
  BY <1>3 DEF IInv, Names, EditsSurvive
<1> QED
  BY <1>4, <1>8, <1>9, <1>10, <1>11, <1>12 DEF IInv

LEMMA StartKeeps ==
  ASSUME IInv, NEW b \in Branches, Start(b)
  PROVE  IInv'
<1>1. /\ task[b].st = "queued"
      /\ UNCHANGED <<cell, calls, edit, text, names, made, armed, accepted, contested, expected,
                     cut>>
      /\ task' \in [Branches -> TaskRecords]
      /\ task'[b].st = "running" /\ task'[b].grants = task[b].grants
      /\ \A a \in Branches \ {b} : task'[a] = task[a]
  BY DEF Start, IInv, TypeOK, TaskRecords
<1>2. TypeOK'
  BY <1>1 DEF IInv, TypeOK
<1>3. \A a \in Branches : /\ task'[a].grants = task[a].grants
                          /\ task'[a].st \in Live <=> task[a].st \in Live
                          /\ task'[a].st = "none" <=> task[a].st = "none"
                          /\ task[a].st = "running" => task'[a].st = "running"
  BY <1>1 DEF Live
<1>4. Tasks'
  BY <1>1, <1>3 DEF IInv, Tasks, Open
<1>5. \A x \in Contexts : Runs(x) => Runs(x)'
  BY <1>1, <1>3, ContextFacts DEF Runs
<1>6. Callers'
  BY <1>1, <1>5, CallersAreContexts DEF IInv, Callers, Open, Blocked
<1>7. \A x \in Contexts, p \in Policies : MayEdit(x, p)' = MayEdit(x, p)
  BY <1>3, ContextFacts DEF MayEdit
<1>8. Exclusion'
  BY <1>1, <1>3, <1>7 DEF IInv, Exclusion, HandedOn
<1>9. Current' /\ Names' /\ EditsSurvive'
  BY <1>1, <1>7, NoneNoEdit DEF IInv, TypeOK, EditRecords, Current, CurrentAt, Names, EditsSurvive
<1> QED
  BY <1>2, <1>4, <1>6, <1>8, <1>9 DEF IInv

LEMMA ReturnKeeps ==
  ASSUME IInv, NEW c \in DOMAIN calls, Return(c)
  PROVE  IInv'
<1>1. /\ UNCHANGED <<cell, task, edit, text, names, made, armed, accepted, contested, expected,
                     cut>>
      /\ calls' = [calls EXCEPT ![c].phase = "over"]
      /\ \A b \in Branches : b[1] = c => task[b].st \notin Live
  BY DEF Return, LiveTasks, TasksOf
<1>2. /\ calls' \in Seq(CallRecords) /\ Len(calls') = Len(calls) /\ DOMAIN calls' = DOMAIN calls
      /\ calls'[c].phase = "over" /\ calls'[c].caller = calls[c].caller
      /\ \A d \in DOMAIN calls \ {c} : calls'[d] = calls[d]
  <2>1. calls \in Seq(CallRecords) /\ [calls[c] EXCEPT !.phase = "over"] \in CallRecords
    BY CallersAreContexts DEF IInv, TypeOK, CallRecords
  <2> QED
    BY <1>1, <2>1, CallersAreContexts DEF IInv, CallRecords
<1>3. TypeOK'
  BY <1>1, <1>2 DEF IInv, TypeOK
<1>4. \A d \in DOMAIN calls : /\ calls'[d].caller = calls[d].caller
                              /\ Open(d)' => Open(d)
                              /\ d # c => Open(d)' = Open(d)
  BY <1>2 DEF Open
<1>5. Tasks'
  BY <1>1, <1>2, <1>4 DEF IInv, Tasks
<1>6. \A x : Runs(x)' = Runs(x) /\ (Blocked(x)' => Blocked(x))
  BY <1>1, <1>2, <1>4 DEF Runs, Blocked
<1>7. Callers'
  BY <1>1, <1>2, <1>4, <1>6 DEF IInv, Callers
<1>8. \A b \in Branches : task[b].st \in Live => calls'[b[1]].caller = calls[b[1]].caller
  BY <1>4 DEF IInv, Tasks
<1>9. Exclusion'
  BY <1>1, <1>8 DEF IInv, Exclusion, HandedOn, MayEdit
<1>10. Current' /\ Names' /\ EditsSurvive'
  BY <1>1 DEF IInv, Current, CurrentAt, Names, EditsSurvive, MayEdit
<1> QED
  BY <1>3, <1>5, <1>7, <1>9, <1>10 DEF IInv

\* When tasks of one call go, none of which waits itself, Exclusion stays: who is left still
\* waits for whom it handed its grant to.
LEMMA LeavingKeepsExclusion ==
  ASSUME IInv, NEW G \in SUBSET Branches,
         \A b \in G : ~Blocked(b),
         \A b, d \in G : b[1] = d[1],
         \A b \in Branches : task'[b].grants = IF b \in G THEN {} ELSE task[b].grants,
         \A b \in Branches \ G : task'[b] = task[b],
         \A c \in DOMAIN calls : calls'[c].caller = calls[c].caller,
         contested' = contested
  PROVE  Exclusion'
<1> SUFFICES ASSUME NEW p \in Policies \ contested, NEW x \in Contexts, NEW y \in Contexts,
                    x # y, MayEdit(x, p)', MayEdit(y, p)'
             PROVE  HandedOn(x, y, p)'
  BY DEF Exclusion
<1>1. MayEdit(x, p) /\ MayEdit(y, p) /\ x \notin G /\ y \notin G
  BY ContextFacts DEF MayEdit
<1>2. ASSUME NEW b \in Branches \ G, task[b].st \in Live, p \in task[b].grants,
             calls[b[1]].caller \in {x, y}
      PROVE  HandedOn(x, y, p)'
  <2>1. b[1] \in DOMAIN calls
    BY <1>2 DEF IInv, Tasks
  <2> QED
    BY <1>2, <2>1 DEF HandedOn, Live
<1>3. PICK b \in Branches : /\ task[b].st \in Live /\ p \in task[b].grants
                            /\ calls[b[1]].caller \in {x, y}
  BY <1>1 DEF IInv, Exclusion, HandedOn
<1>4. CASE b \notin G
  BY <1>2, <1>3, <1>4
\* b itself goes: then the other of the two waits for a branch too, which stays.
<1>5. CASE b \in G
  <2>1. PICK z \in {x, y} : z # calls[b[1]].caller
    BY <1>3
  <2>2. MayEdit(b, p) /\ b # z
    BY <1>1, <1>3, <1>5 DEF MayEdit
  <2>3. PICK d \in Branches : /\ task[d].st \in Live /\ p \in task[d].grants
                              /\ calls[d[1]].caller \in {b, z}
    BY <1>1, <2>2, ContextFacts DEF IInv, Exclusion, HandedOn
  <2>4. calls[d[1]].caller # b
    BY <1>5, <2>3, WaitingEditsNothing DEF IInv
  <2>5. calls[d[1]].caller = z
    BY <2>3, <2>4
  <2>6. d \notin G
    BY <1>5, <2>1, <2>5
  <2> QED
    BY <1>2, <2>3, <2>5, <2>6
<1> QED
  BY <1>4, <1>5

LEMMA FinishKeeps ==
  ASSUME IInv, NEW b \in Branches, Finish(b)
  PROVE  IInv'
<1>1. /\ task[b].st = "running" /\ ~Blocked(b) /\ edit[b] = None
      /\ UNCHANGED <<cell, calls, edit, text, names, made, armed, accepted, contested, expected,
                     cut>>
      /\ task' \in [Branches -> TaskRecords]
      /\ task'[b].st = "done" /\ task'[b].grants = {}
      /\ \A a \in Branches \ {b} : task'[a] = task[a]
  BY ContextFacts DEF Finish, Free, Runs, IInv, TypeOK, TaskRecords
<1>2. TypeOK'
  BY <1>1 DEF IInv, TypeOK
<1>3. Tasks'
  <2>1. b[1] \in DOMAIN calls
    BY <1>1 DEF IInv, Tasks, Live
  <2>2. \A a \in Branches : task'[a].grants # {} => task'[a].st \in Live
    BY <1>1 DEF IInv, Tasks
  <2>3. \A a \in Branches : task'[a].st \in Live => a[1] \in DOMAIN calls /\ Open(a[1])
    BY <1>1 DEF IInv, Tasks, Live
  <2>4. \A a \in Branches : a[1] \notin DOMAIN calls => task'[a].st = "none"
    BY <1>1, <2>1 DEF IInv, Tasks
  <2> QED
    BY <1>1, <2>2, <2>3, <2>4 DEF Tasks, Open
<1>4. \A x \in Contexts \ {b} : Runs(x) => Runs(x)'
  BY <1>1, ContextFacts DEF Runs
<1>5. \A x : Blocked(x)' = Blocked(x)
  BY <1>1 DEF Blocked, Open
<1>6. Callers'
  <2>1. \A c \in DOMAIN calls : Open(c) => calls[c].caller # b
    BY <1>1 DEF Blocked
  <2>2. \A c \in DOMAIN calls : Open(c) => Runs(calls[c].caller)'
    BY <1>1, <1>4, <2>1, CallersAreContexts DEF IInv, Callers
  <2>3. \A x \in Contexts : edit[x] # None => Runs(x)' /\ ~Blocked(x)'
    BY <1>1, <1>4, <1>5 DEF IInv, Callers
  <2> QED
    BY <1>1, <2>2, <2>3 DEF IInv, Callers, Open
<1>7. Exclusion'
  <2>1. \A a \in Branches : task'[a].grants = IF a \in {b} THEN {} ELSE task[a].grants
    BY <1>1
  <2> QED
    BY <1>1, <2>1, LeavingKeepsExclusion
<1>8. Current'
  <2> SUFFICES ASSUME NEW x \in Contexts, edit[x] # None
               PROVE  CurrentAt(x)'
    BY <1>1 DEF Current, CurrentAt
  <2>1. MayEdit(x, edit[x].policy)' = MayEdit(x, edit[x].policy)
    BY <1>1, ContextFacts DEF MayEdit
  <2> QED
    BY <1>1, <2>1 DEF IInv, Current, CurrentAt
<1>9. Names' /\ EditsSurvive'
  BY <1>1 DEF IInv, Names, EditsSurvive
<1> QED
  BY <1>2, <1>3, <1>6, <1>7, <1>8, <1>9 DEF IInv

LEMMA InterruptCallKeeps ==
  ASSUME IInv, NEW c \in DOMAIN calls, InterruptCall(c)
  PROVE  IInv'
<1> DEFINE G == {b \in Branches : b[1] = c /\ task[b].st = "queued"}
<1>1. /\ cell = "running" /\ Open(c) /\ calls[c].caller = Main
      /\ UNCHANGED <<cell, edit, text, names, made, accepted, contested, expected, cut>>
      /\ armed' = FALSE
      /\ calls' = [calls EXCEPT ![c].phase = "settle"]
      /\ task' = [b \in Branches |-> IF b \in G THEN [st |-> "dropped", grants |-> {}] ELSE task[b]]
  BY DEF InterruptCall
<1>2. /\ calls' \in Seq(CallRecords) /\ Len(calls') = Len(calls) /\ DOMAIN calls' = DOMAIN calls
      /\ calls'[c].phase = "settle" /\ calls'[c].caller = calls[c].caller
      /\ \A d \in DOMAIN calls \ {c} : calls'[d] = calls[d]
  <2>1. calls \in Seq(CallRecords) /\ [calls[c] EXCEPT !.phase = "settle"] \in CallRecords
    BY CallersAreContexts DEF IInv, TypeOK, CallRecords
  <2> QED
    BY <1>1, <2>1, CallersAreContexts DEF IInv, CallRecords
<1>3. /\ task' \in [Branches -> TaskRecords]
      /\ \A b \in G : task[b].st = "queued" /\ b[1] = c
                      /\ task'[b].st = "dropped" /\ task'[b].grants = {}
      /\ \A b \in Branches \ G : task'[b] = task[b]
  BY <1>1 DEF IInv, TypeOK, TaskRecords
<1> HIDE DEF G
<1>4. TypeOK'
  BY <1>1, <1>2, <1>3 DEF IInv, TypeOK
<1>5. \A d \in DOMAIN calls : calls'[d].caller = calls[d].caller /\ (Open(d)' <=> Open(d))
  BY <1>1, <1>2 DEF Open
<1>6. \A x : Blocked(x)' = Blocked(x)
  BY <1>2, <1>5 DEF Blocked
<1>7. Tasks'
  <2>1. \A b \in Branches : task'[b].grants # {} => task'[b].st \in Live
    BY <1>3 DEF IInv, Tasks
  <2>2. \A b \in Branches : task'[b].st \in Live => b[1] \in DOMAIN calls' /\ Open(b[1])'
    BY <1>2, <1>3, <1>5 DEF IInv, Tasks, Live
  <2>3. \A b \in Branches : b[1] \notin DOMAIN calls' => task'[b].st = "none"
    BY <1>2, <1>3 DEF IInv, Tasks
  <2> QED
    BY <2>1, <2>2, <2>3 DEF Tasks
<1>8. \A x \in Contexts : Runs(x) => Runs(x)' /\ x \notin G
  BY <1>1, <1>3, ContextFacts DEF Runs, G
<1>9. Callers'
  BY <1>1, <1>2, <1>5, <1>6, <1>8, CallersAreContexts DEF IInv, Callers
<1>10. Exclusion'
  <2>1. \A b \in G : ~Blocked(b)
    BY <1>8, CallersAreContexts DEF IInv, Callers, Blocked
  <2>2. \A b \in Branches : task'[b].grants = IF b \in G THEN {} ELSE task[b].grants
    BY <1>3
  <2>3. G \in SUBSET Branches
    BY DEF G
  <2> QED
    BY <1>1, <1>3, <1>5, <2>1, <2>2, <2>3, LeavingKeepsExclusion
<1>11. Current'
  <2> SUFFICES ASSUME NEW x \in Contexts, edit[x] # None
               PROVE  CurrentAt(x)'
    BY <1>1 DEF Current, CurrentAt
  <2>1. x \notin G
    BY <1>8 DEF IInv, Callers
  <2>2. MayEdit(x, edit[x].policy)' = MayEdit(x, edit[x].policy)
    BY <1>1, <1>3, <2>1, ContextFacts DEF MayEdit
  <2> QED
    BY <1>1, <2>2 DEF IInv, Current, CurrentAt
<1>12. Names' /\ EditsSurvive'
  BY <1>1 DEF IInv, Names, EditsSurvive
<1> QED
  BY <1>4, <1>7, <1>9, <1>10, <1>11, <1>12 DEF IInv

-----------------------------------------------------------------------------
(* The steps of an edit *)

\* An edit begins or ends without a write: the threads are as before.
SameThreads == UNCHANGED <<cell, calls, task>>

LEMMA SameThreadsKeep ==
  ASSUME IInv, SameThreads, contested' = contested, NEW x \in Contexts,
         edit' \in [Contexts -> EditRecords \cup {None}],
         \A y \in Contexts \ {x} : edit'[y] = edit[y],
         edit'[x] = None \/ (Runs(x) /\ ~Blocked(x))
  PROVE  /\ Tasks' /\ Callers' /\ Exclusion'
         /\ \A y \in Contexts : \A p : MayEdit(y, p)' = MayEdit(y, p)
<1>1. Tasks' /\ Exclusion' /\ \A y \in Contexts : \A p : MayEdit(y, p)' = MayEdit(y, p)
  BY DEF SameThreads, IInv, Tasks, Exclusion, MayEdit, HandedOn, Open, Live
<1>2. \A y \in Contexts : edit'[y] # None => Runs(y) /\ ~Blocked(y)
  BY DEF IInv, Callers
<1>3. Callers'
  BY <1>2 DEF SameThreads, IInv, Callers, Runs, Blocked, Open
<1> QED
  BY <1>1, <1>3

LEMMA BeginEditKeeps ==
  ASSUME IInv, NEW x \in Contexts, NEW p \in Policies, BeginEdit(x, p)
  PROVE  IInv'
<1> DEFINE r == [policy |-> p, base |-> text[p], id |-> made + 1, popped |-> FALSE]
<1>1. /\ Runs(x) /\ ~Blocked(x) /\ edit[x] = None /\ made < MaxEdits /\ made' = made + 1
      /\ edit' = [edit EXCEPT ![x] = r]
      /\ UNCHANGED <<cell, calls, task, text, names, armed, accepted, contested, expected, cut>>
  BY DEF BeginEdit, Free
<1>2. made + 1 \in Edits /\ made + 1 \in 0 .. MaxEdits
  BY <1>1, BranchesAssumption DEF IInv, TypeOK, Edits
<1>3. r \in EditRecords /\ r # None
  <2>1. text[p] \in SUBSET Edits
    BY DEF IInv, TypeOK
  <2>2. r \in EditRecords
    BY <1>2, <2>1 DEF EditRecords
  <2> QED
    BY <2>2, NoneNoEdit
<1>4. /\ edit' \in [Contexts -> EditRecords \cup {None}] /\ edit'[x] = r
      /\ \A y \in Contexts \ {x} : edit'[y] = edit[y]
  BY <1>1, <1>3 DEF IInv, TypeOK
<1>5. TypeOK'
  BY <1>1, <1>2, <1>4 DEF IInv, TypeOK
<1>6. /\ Tasks' /\ Callers' /\ Exclusion'
      /\ \A y \in Contexts : \A q : MayEdit(y, q)' = MayEdit(y, q)
  BY <1>1, <1>4, SameThreadsKeep DEF SameThreads
<1>7. Current'
  <2> SUFFICES ASSUME NEW y \in Contexts, edit'[y] # None
               PROVE  CurrentAt(y)'
    BY DEF Current, CurrentAt
  <2>1. CASE y = x
    BY <1>1, <1>4, <2>1 DEF CurrentAt
  <2>2. CASE y # x
    BY <1>1, <1>4, <1>6, <2>2 DEF IInv, Current, CurrentAt
  <2> QED
    BY <2>1, <2>2
<1>8. Names'
  BY <1>1, <1>4 DEF IInv, Names
<1>9. EditsSurvive'
  BY <1>1 DEF IInv, EditsSurvive
<1> QED
  BY <1>5, <1>6, <1>7, <1>8, <1>9 DEF IInv

\* An edit ends without a write, and without a pop or with the note that it lost its policy.
LEMMA GivingUpKeeps ==
  ASSUME IInv, SameThreads, NEW x \in Contexts, edit[x] # None,
         edit' = [edit EXCEPT ![x] = None],
         UNCHANGED <<text, names, made, accepted, contested, expected>>,
         armed' \in BOOLEAN, cut' \subseteq Policies, cut \subseteq cut',
         edit[x].popped => edit[x].policy \in cut'
  PROVE  IInv'
<1>1. /\ edit' \in [Contexts -> EditRecords \cup {None}] /\ edit'[x] = None
      /\ \A y \in Contexts \ {x} : edit'[y] = edit[y]
  BY DEF IInv, TypeOK
<1>2. TypeOK'
  BY <1>1 DEF IInv, TypeOK, SameThreads
<1>3. /\ Tasks' /\ Callers' /\ Exclusion'
      /\ \A y \in Contexts : \A q : MayEdit(y, q)' = MayEdit(y, q)
  BY <1>1, SameThreadsKeep
<1>4. Current'
  BY <1>1, <1>3 DEF IInv, Current, CurrentAt
<1>5. Names'
  BY <1>1 DEF IInv, Names
<1>6. EditsSurvive'
  BY DEF IInv, EditsSurvive
<1> QED
  BY <1>2, <1>3, <1>4, <1>5, <1>6 DEF IInv

LEMMA RefuseEditKeeps ==
  ASSUME IInv, NEW x \in Contexts, RefuseEdit(x)
  PROVE  IInv'
<1>1. armed' \in BOOLEAN /\ cut' \subseteq Policies
  BY DEF RefuseEdit, IInv, TypeOK
<1> QED
  BY <1>1, GivingUpKeeps DEF RefuseEdit, SameThreads

LEMMA InterruptEditKeeps ==
  ASSUME IInv, InterruptEdit
  PROVE  IInv'
<1>1. edit[Main] # None /\ edit' = [edit EXCEPT ![Main] = None]
      /\ UNCHANGED <<cell, calls, task, text, names, made, accepted, contested, expected>>
      /\ armed' \in BOOLEAN
  BY DEF InterruptEdit
<1>2. edit[Main] \in EditRecords
  BY <1>1, ContextFacts DEF IInv, TypeOK
<1>3. /\ cut' \subseteq Policies /\ cut \subseteq cut'
      /\ edit[Main].popped => edit[Main].policy \in cut'
  BY <1>2 DEF InterruptEdit, IInv, TypeOK, EditRecords
<1> QED
  BY <1>1, <1>3, ContextFacts, GivingUpKeeps DEF SameThreads

\* The gate let the edit pass: its policy has the text that it was made from, and no other
\* edit of the policy that would pass is going on.
LEMMA WriteKeeps ==
  ASSUME IInv, NEW x \in Contexts, edit[x] # None, MayEdit(x, edit[x].policy), Write(x)
  PROVE  IInv'
<1>0. PICK p \in Policies : p = edit[x].policy
  BY NoneNoEdit DEF IInv, TypeOK, EditRecords
<1>1. /\ text' = [text EXCEPT ![p] = edit[x].base \cup {edit[x].id}]
      /\ names' = names \cup {p} /\ cut' = cut \ {p}
      /\ expected' \in {expected, expected \cup {p}}
      /\ accepted' = accepted \cup {<<p, edit[x].id>>}
      /\ edit' = [edit EXCEPT ![x] = None]
      /\ UNCHANGED <<cell, calls, task, made, armed, contested>>
  BY <1>0 DEF Write
<1>2. edit[x].base \in SUBSET Edits /\ edit[x].id \in Edits
  BY NoneNoEdit DEF IInv, TypeOK, EditRecords
<1>3. /\ edit' \in [Contexts -> EditRecords \cup {None}] /\ edit'[x] = None
      /\ \A y \in Contexts \ {x} : edit'[y] = edit[y]
  BY <1>1 DEF IInv, TypeOK
<1>4. /\ text' \in [Policies -> SUBSET Edits] /\ text'[p] = edit[x].base \cup {edit[x].id}
      /\ \A q \in Policies \ {p} : text'[q] = text[q]
  BY <1>1, <1>2 DEF IInv, TypeOK
<1>5. TypeOK'
  BY <1>1, <1>2, <1>3, <1>4 DEF IInv, TypeOK
<1>6. /\ Tasks' /\ Callers' /\ Exclusion'
      /\ \A y \in Contexts : \A q : MayEdit(y, q)' = MayEdit(y, q)
  BY <1>1, <1>3, SameThreadsKeep DEF SameThreads
<1>7. Current'
  <2> SUFFICES ASSUME NEW y \in Contexts, edit'[y] # None
               PROVE  CurrentAt(y)'
    BY DEF Current, CurrentAt
  <2>1. y # x /\ edit'[y] = edit[y]
    BY <1>3
  <2>2. edit[y].policy \in Policies
    BY <2>1, NoneNoEdit DEF IInv, TypeOK, EditRecords
  <2>3. CASE edit[y].policy = p /\ p \notin contested
    <3>1. ~MayEdit(y, p)
      BY <1>0, <2>1, <2>3, OneEditor
    <3> QED
      BY <1>0, <1>6, <2>1, <2>3, <3>1 DEF IInv, Current, CurrentAt
  <2>4. CASE edit[y].policy # p \/ p \in contested
    BY <1>1, <1>4, <1>6, <2>1, <2>2, <2>4 DEF IInv, Current, CurrentAt
  <2> QED
    BY <2>3, <2>4
<1>8. Names'
  <2> SUFFICES ASSUME NEW q \in expected' \ cut', q \notin names'
               PROVE  \E y \in Contexts : edit'[y] # None /\ edit'[y].popped /\ edit'[y].policy = q
    BY DEF Names
  <2>1. q \in expected \ cut /\ q \notin names /\ q # p
    BY <1>1
  <2>2. PICK y \in Contexts : edit[y] # None /\ edit[y].popped /\ edit[y].policy = q
    BY <2>1 DEF IInv, Names
  <2> QED
    BY <1>0, <1>3, <2>1, <2>2
<1>9. EditsSurvive'
  <2>1. p \notin contested => edit[x].base = text[p]
    BY <1>0 DEF IInv, Current, CurrentAt
  <2> QED
    BY <1>1, <1>4, <2>1 DEF IInv, EditsSurvive
<1> QED
  BY <1>5, <1>6, <1>7, <1>8, <1>9 DEF IInv

LEMMA EditInPlaceKeeps ==
  ASSUME IInv, NEW x \in Contexts, EditInPlace(x)
  PROVE  IInv'
BY WriteKeeps DEF EditInPlace

LEMMA RecreateKeeps ==
  ASSUME IInv, NEW x \in Contexts, Recreate(x)
  PROVE  IInv'
BY WriteKeeps DEF Recreate, IInv, Current, CurrentAt

LEMMA PopClassKeeps ==
  ASSUME IInv, NEW x \in Contexts, PopClass(x)
  PROVE  IInv'
<1>0. PICK p \in Policies : p = edit[x].policy
  BY NoneNoEdit DEF PopClass, IInv, TypeOK, EditRecords
<1>1. /\ edit[x] # None /\ MayEdit(x, p) /\ names' = names \ {p}
      /\ edit' = [edit EXCEPT ![x].popped = TRUE]
      /\ UNCHANGED <<cell, calls, task, text, made, armed, accepted, contested, expected, cut>>
  BY <1>0 DEF PopClass
<1>2. edit[x] \in EditRecords /\ [edit[x] EXCEPT !.popped = TRUE] \in EditRecords
  BY <1>1 DEF IInv, TypeOK, EditRecords
<1>3. /\ edit' \in [Contexts -> EditRecords \cup {None}]
      /\ edit'[x] # None /\ edit'[x].popped
      /\ edit'[x].policy = p /\ edit'[x].base = edit[x].base
      /\ \A y \in Contexts \ {x} : edit'[y] = edit[y]
  <2>1. /\ edit' \in [Contexts -> EditRecords \cup {None}]
        /\ edit'[x] = [edit[x] EXCEPT !.popped = TRUE]
    BY <1>1, <1>2 DEF IInv, TypeOK
  <2> QED
    BY <1>0, <1>1, <1>2, <2>1, NoneNoEdit DEF IInv, TypeOK, EditRecords
<1>4. TypeOK'
  BY <1>1, <1>3 DEF IInv, TypeOK
<1>5. Runs(x) /\ ~Blocked(x)
  BY <1>1 DEF IInv, Callers
<1>6. /\ Tasks' /\ Callers' /\ Exclusion'
      /\ \A y \in Contexts : \A q : MayEdit(y, q)' = MayEdit(y, q)
  BY <1>1, <1>3, <1>5, SameThreadsKeep DEF SameThreads
<1>7. Current'
  <2> SUFFICES ASSUME NEW y \in Contexts, edit'[y] # None
               PROVE  CurrentAt(y)'
    BY DEF Current, CurrentAt
  <2>1. CASE y = x
    BY <1>0, <1>1, <1>3, <1>6, <2>1 DEF IInv, Current, CurrentAt
  <2>2. CASE y # x
    BY <1>1, <1>3, <1>6, <2>2 DEF IInv, Current, CurrentAt
  <2> QED
    BY <2>1, <2>2
<1>8. Names'
  <2> SUFFICES ASSUME NEW q \in expected \ cut, q \notin names'
               PROVE  \E y \in Contexts : edit'[y] # None /\ edit'[y].popped /\ edit'[y].policy = q
    BY <1>1 DEF Names
  <2>1. CASE q = p
    BY <1>3, <2>1
  <2>2. CASE q # p
    BY <1>0, <1>1, <1>3, <2>2 DEF IInv, Names
  <2> QED
    BY <2>1, <2>2
<1>9. EditsSurvive'
  BY <1>1 DEF IInv, EditsSurvive
<1> QED
  BY <1>4, <1>6, <1>7, <1>8, <1>9 DEF IInv

-----------------------------------------------------------------------------
(* The rest, and the theorems *)

LEMMA RemoveKeeps ==
  ASSUME IInv, NEW x \in Contexts, NEW p \in Policies, Remove(x, p)
  PROVE  IInv'
<1>1. /\ names' = names \ {p} /\ expected' = expected \ {p}
      /\ UNCHANGED <<cell, calls, task, edit, text, made, armed, accepted, contested, cut>>
  BY DEF Remove, MayRemove
<1>2. TypeOK' /\ Names' /\ EditsSurvive' /\ Current'
  BY <1>1 DEF IInv, TypeOK, Names, EditsSurvive, Current, CurrentAt, MayEdit
<1>3. Tasks' /\ Callers' /\ Exclusion'
  BY <1>1 DEF IInv, Tasks, Callers, Exclusion, HandedOn, Open, Runs, Blocked, MayEdit
<1> QED
  BY <1>2, <1>3 DEF IInv

LEMMA EndCellKeeps ==
  ASSUME IInv, EndCell
  PROVE  IInv'
<1>1. /\ ~Blocked(Main) /\ edit[Main] = None
      /\ cell' = "over" /\ armed' = FALSE
      /\ UNCHANGED <<calls, task, edit, text, names, made, accepted, contested, expected, cut>>
  BY DEF EndCell, Free
<1>2. TypeOK' /\ Names' /\ EditsSurvive' /\ Current'
  BY <1>1 DEF IInv, TypeOK, Names, EditsSurvive, Current, CurrentAt, MayEdit
<1>3. Tasks' /\ Exclusion'
  BY <1>1 DEF IInv, Tasks, Exclusion, HandedOn, Open, MayEdit
<1>4. \A x \in Contexts \ {Main} : Runs(x)' = Runs(x)
  BY <1>1 DEF Runs
<1>5. Callers'
  BY <1>1, <1>4, CallersAreContexts DEF IInv, Callers, Open, Blocked
<1> QED
  BY <1>2, <1>3, <1>5 DEF IInv

LEMMA StutterKeeps ==
  ASSUME IInv, UNCHANGED vars
  PROVE  IInv'
<1>1. TypeOK' /\ Names' /\ EditsSurvive' /\ Current'
  BY DEF vars, IInv, TypeOK, Names, EditsSurvive, Current, CurrentAt, MayEdit
<1>2. Tasks' /\ Callers' /\ Exclusion'
  BY DEF vars, IInv, Tasks, Callers, Exclusion, HandedOn, Open, Runs, Blocked, MayEdit
<1> QED
  BY <1>1, <1>2 DEF IInv

LEMMA StepKeeps == IInv /\ [Next]_vars => IInv'
<1> SUFFICES ASSUME IInv, [Next]_vars PROVE IInv'
  OBVIOUS
<1>1. ASSUME NEW b \in Branches, Start(b) \/ Finish(b) PROVE IInv'
  BY <1>1, StartKeeps, FinishKeeps
<1>2. ASSUME NEW c \in DOMAIN calls, Return(c) \/ InterruptCall(c) PROVE IInv'
  BY <1>2, ReturnKeeps, InterruptCallKeeps
<1>3. ASSUME NEW x \in Contexts, Editing(x) PROVE IInv'
  BY <1>3, RefuseEditKeeps, EditInPlaceKeeps, PopClassKeeps, RecreateKeeps DEF Editing
<1>4. ASSUME NEW x \in Contexts, NEW plan \in Plans, NEW workers \in Pools,
             Parallel(x, plan, workers)
      PROVE  IInv'
  BY <1>4, ParallelKeeps
<1>5. ASSUME NEW x \in Contexts, NEW p \in Policies, BeginEdit(x, p) \/ Remove(x, p) PROVE IInv'
  BY <1>5, BeginEditKeeps, RemoveKeeps
<1>6. CASE InterruptEdit \/ EndCell
  BY <1>6, InterruptEditKeeps, EndCellKeeps
<1>7. CASE Over \/ UNCHANGED vars
  BY <1>7, StutterKeeps DEF Over
<1> QED
  BY <1>1, <1>2, <1>3, <1>4, <1>5, <1>6, <1>7 DEF Next, Progress

\* The parts of the invariant hold together, for any number of calls, tasks and edits.
THEOREM Inductive == Spec => []IInv
<1>1. Init => IInv
  BY InitHolds
<1>2. IInv /\ [Next]_vars => IInv'
  BY StepKeeps
<1> QED
  BY <1>1, <1>2, PTL DEF Spec

\* The variables hold what they should.
THEOREM TypeCorrect == Spec => []TypeOK
<1>1. IInv => TypeOK
  BY DEF IInv
<1> QED
  BY <1>1, Inductive, PTL

\* However many calls, branches and edits there are and however the threads interleave, an
\* edit that returned OK stays, unless a branch handed on a grant that it did not have.
THEOREM EditsSurviveAlways == Spec => []EditsSurvive
<1>1. IInv => EditsSurvive
  BY DEF IInv
<1> QED
  BY <1>1, Inductive, PTL

\* A set of numbers has a least one.
LEMMA LeastElement ==
  ASSUME NEW n \in Nat, NEW C \in SUBSET (1 .. n), C # {}
  PROVE  \E m \in C : \A k \in C : m <= k
<1> DEFINE R == StrictSubsetOrdering(1 .. n)
           F == FiniteSubsetsOf(1 .. n)
           T == {1 .. c : c \in C}
<1>1. IsFiniteSet(1 .. n)
  BY FS_Interval
<1>2. IsWellFoundedOn(R, F)
  BY <1>1, FS_StrictSubsetOrderingWellFounded
<1>3. T \subseteq F /\ T # {}
  <2>1. ASSUME NEW c \in C PROVE 1 .. c \in F
    BY FS_Interval DEF FiniteSubsetsOf
  <2> QED
    BY <2>1
<1>4. PICK x \in T : \A y \in T : ~(<<y, x>> \in R)
  <2> HIDE DEF R, F, T
  <2> QED
    BY <1>2, <1>3, WFMin
<1>5. PICK m \in C : x = 1 .. m
  BY <1>4
<1>6. ASSUME NEW k \in C, k < m PROVE FALSE
  <2>1. 1 .. k \in T /\ 1 .. k \subseteq 1 .. m /\ 1 .. k # 1 .. m
    <3>1. m \in 1 .. m /\ m \notin 1 .. k
      BY <1>6
    <3> QED
      BY <1>6, <3>1
  <2>2. 1 .. k \in SUBSET (1 .. n) /\ 1 .. m \in SUBSET (1 .. n)
    OBVIOUS
  <2>3. <<1 .. k, 1 .. m>> \in R
    BY <2>1, <2>2 DEF StrictSubsetOrdering
  <2> QED
    BY <2>1, <2>3, <1>4, <1>5
<1> QED
  BY <1>5, <1>6

\* When the cell is over, no call is open: the first open one would be the main thread's.
LEMMA AllReturned ==
  ASSUME IInv, cell = "over", NEW c \in DOMAIN calls
  PROVE  ~Open(c)
<1> SUFFICES ASSUME Open(c) PROVE FALSE
  OBVIOUS
<1> DEFINE C == {d \in DOMAIN calls : Open(d)}
<1>1. Len(calls) \in Nat /\ C \in SUBSET (1 .. Len(calls)) /\ C # {}
  BY DEF IInv, TypeOK
<1>2. PICK m \in C : \A k \in C : m <= k
  <2> HIDE DEF C
  <2> QED
    BY <1>1, LeastElement
<1>3. Runs(calls[m].caller) /\ calls[m].caller[1] < m /\ calls[m].caller \in Contexts
  BY <1>2, CallersAreContexts DEF IInv, Callers
<1>4. calls[m].caller # Main
  BY <1>3 DEF Runs
<1>5. calls[m].caller \in Branches /\ task[calls[m].caller].st \in Live
  BY <1>3, <1>4, ContextFacts DEF Runs, Live
<1>6. calls[m].caller[1] \in C
  BY <1>5 DEF IInv, Tasks
<1>7. calls[m].caller[1] \in Nat /\ m \in Nat
  BY <1>1, <1>2, <1>6
<1> QED
  BY <1>2, <1>3, <1>6, <1>7

\* Of all the branches, however deep, none is left when the cell is over.
THEOREM NoBranchOutlivesCellEver == Spec => []NoBranchOutlivesCell
<1>1. ASSUME IInv, cell = "over", NEW b \in Branches
      PROVE  task[b].st \notin Live /\ edit[b] = None
  <2>1. task[b].st \notin Live
    BY <1>1, AllReturned DEF IInv, Tasks
  <2> QED
    BY <1>1, <2>1, ContextFacts DEF IInv, Callers, Runs, Live
<1>2. IInv => NoBranchOutlivesCell
  BY <1>1 DEF NoBranchOutlivesCell
<1> QED
  BY <1>2, Inductive, PTL

\* No policy that the main thread left goes missing, but for an interrupted replacement.
THEOREM NothingVanishesEver == Spec => []NothingVanishes
<1>1. ASSUME IInv, \A b \in Branches : task[b].st \notin Live,
             edit[Main] # None => ~edit[Main].popped
      PROVE  expected \ cut \subseteq names
  <2>1. \A x \in Contexts : edit[x] # None => x = Main
    BY <1>1, ContextFacts DEF IInv, Callers, Runs, Live
  <2> QED
    BY <1>1, <2>1 DEF IInv, Names
<1>2. IInv => NothingVanishes
  BY <1>1 DEF NothingVanishes
<1> QED
  BY <1>2, Inductive, PTL

=============================================================================

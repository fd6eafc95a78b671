-------------------------- MODULE ParallelBranches --------------------------
(***************************************************************************)
(* repl/parallel.py and _branch_state.py: one cell that runs branches on   *)
(* threads, branches that run branches of their own, and the edits of      *)
(* policies that all of them make.                                         *)
(*                                                                         *)
(* A context is the main thread or a branch: task[b] is what parallel()    *)
(* has made of branch b, task[b].grants the context variable               *)
(* _BRANCH_EDIT_GRANTS in it.  An edit reads the text of its policy,       *)
(* passes the gate and writes; between these steps other threads run.      *)
(***************************************************************************)
EXTENDS Integers, Sequences, FiniteSets

CONSTANTS
  Policies,   \* names of policies
  Classes,    \* the names of class policies, which some edits replace
  MaxCalls,   \* bound: calls of parallel()
  Width,      \* bound: tasks of a call
  Pools,      \* sizes of thread pools
  MaxEdits,   \* bound: edits
  None        \* no edit

ASSUME BranchesAssumption ==
  /\ Classes \subseteq Policies
  /\ MaxCalls \in Nat /\ Width \in Nat \ {0} /\ MaxEdits \in Nat
  /\ Pools \subseteq Nat \ {0}
  /\ None \notin [policy : Policies, base : SUBSET (1 .. MaxEdits), id : 1 .. MaxEdits,
                  popped : BOOLEAN]

VARIABLES
  cell,       \* "running" or "over"
  calls,      \* the calls of parallel(), in the order in which they were made
  task,       \* the branches
  edit,       \* the edit that a context is making
  text,       \* the texts of the policies, each as the set of the edits in it
  names,      \* the keys of _PLM_POLICIES
  made,       \* number of edits
  armed,      \* SIGINT can still come
  accepted,   \* history: pairs of a policy and an edit that returned OK
  contested,  \* history: policies that a branch granted without having the grant
  expected,   \* history: the names as the main thread left them
  cut         \* history: policies lost to an interrupt between pop and write

vars == <<cell, calls, task, edit, text, names, made, armed, accepted, contested, expected, cut>>

Main     == <<0, 0>>
Branches == (1 .. MaxCalls) \X (1 .. Width)
Contexts == {Main} \cup Branches
Edits    == 1 .. MaxEdits
Live     == {"queued", "running"}

TasksOf(c)   == {b \in Branches : b[1] = c}
LiveTasks(c) == {b \in TasksOf(c) : task[b].st \in Live}
Open(c)      == calls[c].phase # "over"
Blocked(x)   == \E c \in DOMAIN calls : Open(c) /\ calls[c].caller = x
Runs(x)      == IF x = Main THEN cell = "running" ELSE task[x].st = "running"

\* The code of the cell or of the task is at work.
Free(x) == Runs(x) /\ ~Blocked(x) /\ edit[x] = None

Init ==
  /\ cell = "running" /\ calls = <<>>
  /\ task = [b \in Branches |-> [st |-> "none", grants |-> {}]]
  /\ edit = [x \in Contexts |-> None]
  /\ text = [p \in Policies |-> {}]
  /\ names = Policies /\ made = 0 /\ armed = TRUE
  /\ accepted = {} /\ contested = {} /\ expected = Policies /\ cut = {}

-----------------------------------------------------------------------------
(* Gates *)

\* _edit_guard
MayEdit(x, p) == x # Main => p \in task[x].grants

\* Mutated: removal has no gate.
MayRemove_Anywhere(x) == TRUE

\* _no_branch_mutation
MayRemove(x) == x = Main

-----------------------------------------------------------------------------
(* parallel() *)

Plans == UNION {[1 .. n -> SUBSET Policies] : n \in 1 .. Width}

\* Mutated: nothing is checked up front.
Exclusive_Unchecked(plan) == plan \in Plans

\* At most one branch of a call is granted a policy: else parallel() raises.
Exclusive(plan) == \A i, j \in DOMAIN plan : i # j => plan[i] \cap plan[j] = {}

\* The futures are submitted: each task waits in the queue of the call's own pool.
Parallel(x, plan, workers) ==
  /\ Free(x) /\ Len(calls) < MaxCalls /\ Exclusive(plan)
  /\ calls' = Append(calls, [caller |-> x, workers |-> workers, phase |-> "gather"])
  /\ task' = [b \in Branches |->
                IF b[1] = Len(calls) + 1 /\ b[2] \in DOMAIN plan
                  THEN [st |-> "queued", grants |-> plan[b[2]]] ELSE task[b]]
  /\ contested' = contested \cup {p \in Policies : /\ ~MayEdit(x, p)
                                                   /\ \E i \in DOMAIN plan : p \in plan[i]}
  /\ UNCHANGED <<cell, edit, text, names, made, armed, accepted, expected, cut>>

Running(c) == {b \in TasksOf(c) : task[b].st = "running"}

\* Mutated: one pool for all calls.
Start_SharedPool(b) ==
  /\ task[b].st = "queued"
  /\ Cardinality({a \in Branches : task[a].st = "running"}) < calls[b[1]].workers
  /\ task' = [task EXCEPT ![b].st = "running"]
  /\ UNCHANGED <<cell, calls, edit, text, names, made, armed, accepted, contested, expected, cut>>

\* A thread of the pool takes the task.
Start(b) ==
  /\ task[b].st = "queued"
  /\ Cardinality(Running(b[1])) < calls[b[1]].workers
  /\ task' = [task EXCEPT ![b].st = "running"]
  /\ UNCHANGED <<cell, calls, edit, text, names, made, armed, accepted, contested, expected, cut>>

\* It returns, or raises anything: _shielded puts either into the task's slot.
Finish(b) ==
  /\ Free(b)
  /\ task' = [task EXCEPT ![b] = [st |-> "done", grants |-> {}]]
  /\ UNCHANGED <<cell, calls, edit, text, names, made, armed, accepted, contested, expected, cut>>

\* Mutated: shutdown(wait=False).
Return_Detached(c) ==
  /\ Open(c) /\ (calls[c].phase = "gather" => LiveTasks(c) = {})
  /\ calls' = [calls EXCEPT ![c].phase = "over"]
  /\ UNCHANGED <<cell, task, edit, text, names, made, armed, accepted, contested, expected, cut>>

\* gather is over, or cancelled, and the pool has shut down.
Return(c) ==
  /\ Open(c) /\ LiveTasks(c) = {}
  /\ calls' = [calls EXCEPT ![c].phase = "over"]
  /\ UNCHANGED <<cell, task, edit, text, names, made, armed, accepted, contested, expected, cut>>

-----------------------------------------------------------------------------
(* What the code of a cell and of tasks does to policies *)

\* A method of a policy's handle reads the text that it will change.
BeginEdit(x, p) ==
  /\ Free(x) /\ made < MaxEdits
  /\ made' = made + 1
  /\ edit' = [edit EXCEPT ![x] = [policy |-> p, base |-> text[p], id |-> made + 1,
                                  popped |-> FALSE]]
  /\ UNCHANGED <<cell, calls, task, text, names, armed, accepted, contested, expected, cut>>

\* ParallelMutationError, or a text that is not accepted.
RefuseEdit(x) ==
  /\ edit[x] # None /\ ~edit[x].popped
  /\ edit' = [edit EXCEPT ![x] = None]
  /\ UNCHANGED <<cell, calls, task, text, names, made, armed, accepted, contested, expected, cut>>

\* The new text and the registry's entry.
Write(x) ==
  LET p == edit[x].policy
  IN  /\ text' = [text EXCEPT ![p] = edit[x].base \cup {edit[x].id}]
      /\ names' = names \cup {p}
      /\ expected' = IF x = Main THEN expected \cup {p} ELSE expected
      /\ accepted' = accepted \cup {<<p, edit[x].id>>}
      /\ edit' = [edit EXCEPT ![x] = None]
      /\ cut' = cut \ {p}
      /\ UNCHANGED <<cell, calls, task, made, armed, contested>>

EditInPlace(x) ==
  /\ edit[x] # None /\ ~edit[x].popped /\ MayEdit(x, edit[x].policy)
  /\ Write(x)

\* _remove_and_recreate: the old class goes, then the new one comes.
PopClass(x) ==
  /\ edit[x] # None /\ ~edit[x].popped /\ MayEdit(x, edit[x].policy)
  /\ edit[x].policy \in Classes
  /\ names' = names \ {edit[x].policy}
  /\ edit' = [edit EXCEPT ![x].popped = TRUE]
  /\ UNCHANGED <<cell, calls, task, text, made, armed, accepted, contested, expected, cut>>

Recreate(x) ==
  /\ edit[x] # None /\ edit[x].popped
  /\ Write(x)

\* Removal stands for all that changes the set of policies: they have the same gate.
Remove(x, p) ==
  /\ Free(x) /\ p \in names /\ MayRemove(x)
  /\ names' = names \ {p}
  /\ expected' = IF x = Main THEN expected \ {p} ELSE expected
  /\ UNCHANGED <<cell, calls, task, edit, text, made, armed, accepted, contested, cut>>

EndCell ==
  /\ Free(Main)
  /\ cell' = "over" /\ armed' = FALSE
  /\ UNCHANGED <<calls, task, edit, text, names, made, accepted, contested, expected, cut>>

-----------------------------------------------------------------------------
(* SIGINT comes once in a cell, and to the main thread only *)

\* asyncio.run cancels gather: the tasks that no thread has taken are dropped.
InterruptCall(c) ==
  /\ armed /\ cell = "running" /\ Open(c) /\ calls[c].caller = Main
  /\ armed' = FALSE
  /\ calls' = [calls EXCEPT ![c].phase = "settle"]
  /\ task' = [b \in Branches |-> IF b[1] = c /\ task[b].st = "queued"
                                   THEN [st |-> "dropped", grants |-> {}] ELSE task[b]]
  /\ UNCHANGED <<cell, edit, text, names, made, accepted, contested, expected, cut>>

InterruptEdit ==
  /\ armed /\ cell = "running" /\ edit[Main] # None
  /\ armed' = FALSE
  /\ cut' = IF edit[Main].popped THEN cut \cup {edit[Main].policy} ELSE cut
  /\ edit' = [edit EXCEPT ![Main] = None]
  /\ UNCHANGED <<cell, calls, task, text, names, made, accepted, contested, expected>>

-----------------------------------------------------------------------------
Editing(x) == RefuseEdit(x) \/ EditInPlace(x) \/ PopClass(x) \/ Recreate(x)

\* What threads do of themselves, once the code of their tasks ends.
Progress ==
  \/ \E b \in Branches : Start(b)
  \/ \E c \in DOMAIN calls : Return(c)
  \/ \E x \in Contexts : Editing(x)

Over == cell = "over" /\ UNCHANGED vars

Next ==
  \/ Progress
  \/ \E b \in Branches : Finish(b)
  \/ \E x \in Contexts :
       \/ \E plan \in Plans, workers \in Pools : Parallel(x, plan, workers)
       \/ \E p \in Policies : BeginEdit(x, p) \/ Remove(x, p)
  \/ \E c \in DOMAIN calls : InterruptCall(c)
  \/ InterruptEdit \/ EndCell \/ Over

Spec == Init /\ [][Next]_vars

FairSpec == Spec /\ WF_vars(Progress)

-----------------------------------------------------------------------------
(* Properties *)

\* As long as branches hand on only grants that they have, no edit that returned OK is
\* undone by another that had read the text before it, whichever thread made it and however
\* the cell was interrupted (parallel.py:61-67).  A branch may grant what it was not granted
\* (parallel.py:105 is local to a call): those policies are contested.
EditsSurvive ==
  \A p \in Policies \ contested, e \in Edits : <<p, e>> \in accepted => e \in text[p]

\* No branch, of whatever depth, works on when the cell is over and its snapshot is taken
\* (parallel.py:182-188).
NoBranchOutlivesCell ==
  cell = "over" => \A b \in Branches : task[b].st \notin Live /\ edit[b] = None

\* When nothing but the main thread runs, the registry has every policy that the main thread
\* left in it, but for one whose replacement it was interrupted in (_branch_state.py:137-140).
NothingVanishes ==
  (\A b \in Branches : task[b].st \notin Live) /\ (edit[Main] # None => ~edit[Main].popped)
    => expected \ cut \subseteq names

\* A call returns if the code of tasks ends: nested calls do not wait for each other's threads.
CallsReturn ==
  (\A b \in Branches : WF_vars(Finish(b))) =>
    \A c \in 1 .. MaxCalls : (c \in DOMAIN calls /\ Open(c)) ~> ~(c \in DOMAIN calls /\ Open(c))
=============================================================================

---------------------------- MODULE CellService ----------------------------
(***************************************************************************)
(* What a PythonReplSession promises the one caller of execute_cell, with  *)
(* no process, socket, lock or timeout in it (the docstrings of            *)
(* repl/session.py, class and execute_cell).  KernelSession is shown to    *)
(* implement it; RootLoop is built on it.                                  *)
(*                                                                         *)
(* There is one interpreter at a time.  `state` is what it holds, as the   *)
(* set of calls whose effects are in it ({} while there is none; 0 stands  *)
(* for what every interpreter starts with), `heard` the calls whose delta  *)
(* its plm_messages accumulator has had, `answer` the snapshot that came   *)
(* with the answer to the call in progress, as a set of at most one.       *)
(***************************************************************************)
EXTENDS Naturals

CONSTANT MaxCalls   \* bound: calls made by the caller

ASSUME MaxCallsAssumption == MaxCalls \in Nat \ {0}

VARIABLES calls, busy, epoch, outcome, state, heard, answer, snapshot

cvars == <<calls, busy, epoch, outcome, state, heard, answer, snapshot>>

Calls == 1 .. MaxCalls
States == SUBSET (0 .. MaxCalls)
Up == state # {}

Init ==
  /\ calls = 0 /\ busy = FALSE /\ epoch = 1
  /\ outcome = [n \in Calls |-> "none"]
  /\ state = {0} /\ heard = {} /\ answer = {} /\ snapshot = {}

Call ==
  /\ ~busy /\ calls < MaxCalls
  /\ calls' = calls + 1
  /\ busy' = TRUE
  /\ UNCHANGED <<epoch, outcome, state, heard, answer, snapshot>>

\* The interpreter takes the call: first of all its delta.
Hear ==
  /\ busy /\ Up /\ calls \notin heard
  /\ heard' = heard \cup {calls}
  /\ UNCHANGED <<calls, busy, epoch, outcome, state, answer, snapshot>>

\* The body begins to have effects.
Run ==
  /\ busy /\ Up /\ calls \in heard /\ calls \notin state
  /\ state' = state \cup {calls}
  /\ UNCHANGED <<calls, busy, epoch, outcome, heard, answer, snapshot>>

\* The interpreter answers, with a snapshot of its state or with none.
Answer ==
  /\ busy /\ Up /\ calls \in heard /\ answer = {}
  /\ answer' \in {{state}, {{}}}
  /\ UNCHANGED <<calls, busy, epoch, outcome, state, heard, snapshot>>

\* The interpreter is gone: it died, was killed or is being replaced.  The
\* answer it gave may go with it.
Lose ==
  /\ Up \/ answer # {}
  /\ state' = {} /\ heard' = {}
  /\ answer' \in {answer, {}}
  /\ UNCHANGED <<calls, busy, epoch, outcome, snapshot>>

\* The call returns what the interpreter answered.
Reply ==
  /\ busy
  /\ \E snap \in answer : snapshot' = IF snap = {} THEN snapshot ELSE snap
  /\ \E o \in {"executed", "returned", "interrupted"} :
       outcome' = [outcome EXCEPT ![calls] = o]
  /\ answer' = {}
  /\ busy' = FALSE
  /\ UNCHANGED <<calls, epoch, state, heard>>

\* The call returns "RE-RUN" from a new interpreter, restored from the
\* snapshot as far as that loads, under a new epoch.
Restart ==
  /\ busy /\ ~Up /\ answer = {}
  /\ \/ \E gone \in SUBSET (snapshot \ {0}) : state' = {0} \cup (snapshot \ gone)
     \/ state' = {}                      \* it died as soon as it was up
  /\ heard' = {}
  /\ epoch' = epoch + 1
  /\ outcome' = [outcome EXCEPT ![calls] = "rerun"]
  /\ busy' = FALSE
  /\ UNCHANGED <<calls, answer, snapshot>>

\* The call ends without an interpreter: no new one came up, or the session
\* is closed.
GiveUp ==
  /\ busy
  /\ state' = {} /\ heard' = {} /\ answer' = {}
  /\ outcome' \in {[outcome EXCEPT ![calls] = o] : o \in {"rerun", "raised"}}
  /\ busy' = FALSE
  /\ UNCHANGED <<calls, epoch, snapshot>>

Next ==
  Call \/ Hear \/ Run \/ Answer \/ Lose \/ Reply \/ Restart \/ GiveUp

Spec == Init /\ [][Next]_cvars
=============================================================================

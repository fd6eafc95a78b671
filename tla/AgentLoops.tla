----------------------------- MODULE AgentLoops -----------------------------
(***************************************************************************)
(* The agents of policy/defaults: llm, react, react_auto and               *)
(* react_verifier_llm with base_verifier as its verifier, the depth gate   *)
(* they share (_llm_infra.py) and exec_ns, which runs their cells.         *)
(*                                                                         *)
(* A policy of the root calls them one after the other on one list of      *)
(* messages (the weave) and one namespace.  `stack` holds the calls that   *)
(* are running: stack[1] works on the weave and the namespace, the calls   *)
(* above it, which a cell or a verifier made, on lists and namespaces of   *)
(* their own, of which only the control is kept.                           *)
(***************************************************************************)
EXTENDS Integers, Sequences, SequencesExt

CONSTANTS
  RootDepth,      \* AGENT_DEPTH
  TurnsCap,       \* _MAX_TURNS_CAP, _MAX_ROUNDS_CAP
  ExtraCap,       \* _MAX_RETURN_BUDGET
  DefaultBudget,  \* what a budget that is no int becomes
  Requests,       \* pairs of max_turns and return_budget that callers ask for
  SubPolicies,    \* what the cells of agents are granted
  SubRequests,    \* the budgets they ask for
  MaxCalls,       \* bound: calls on the weave
  NoInt,          \* a budget that is no int
  None            \* no token

ASSUME AgentsAssumption ==
  /\ RootDepth \in Nat /\ TurnsCap \in Nat /\ ExtraCap \in Nat
  /\ DefaultBudget \in Nat /\ MaxCalls \in Nat
  /\ Requests \cup SubRequests \subseteq (Int \cup {NoInt}) \X (Int \cup {NoInt})
  /\ NoInt \notin Int /\ None \notin Int

VARIABLES
  left,         \* _LLM_DEPTH, of the one thread of the kernel
  stack,        \* the calls that are running
  weave,        \* the caller's list
  returnBound,  \* is RETURN a name of the caller's namespace?
  calls,        \* how many calls the caller has made
  tainted,      \* history: the weave was cut by an interrupt or edited
  leaked,       \* history: interrupts that kept a call from giving the depth back
  torn,         \* history: an interrupt came before react_auto's `try`
  errors,       \* history: tool messages with an error, in the weave
  verified      \* history: verifications of the weave that came to their end

vars == <<left, stack, weave, returnBound, calls, tainted, leaked, torn, errors,
          verified>>

Policies  == {"llm", "react", "react_auto", "react_verifier_llm"}
Replies   == {"tool", "error"}
Roles     == {"plain", "call", "verifier"} \cup Replies
Checking  == {"note", "propose", "approve"}         \* a circuit of base_verifier
Checked   == {"noted", "proposed", "approved"}      \* it has come back
Deciding  == {"mark"} \cup Checking \cup Checked
Lowered   == {"entering", "vetting"}                \* descend(), before its `try`
Within    == {"act"} \cup Deciding                  \* inside it
Points    == {"setup", "top", "generate", "called", "hook"} \cup Lowered \cup Within
Values    == {"value", "nothing"}

Top       == stack[Len(stack)]
Running   == stack # <<>>
OnWeave   == Len(stack) = 1

\* What the pc of a circuit becomes when it has come back.
After == [p \in Checking |->
            IF p = "note" THEN "noted" ELSE IF p = "propose" THEN "proposed" ELSE "approved"]

-----------------------------------------------------------------------------
(* Budgets *)

Least(a, b) == IF a < b THEN a ELSE b
Most(a, b)  == IF a < b THEN b ELSE a

Coerce(value) ==
  IF value = NoInt THEN DefaultBudget ELSE Most(0, value)

\* The rounds before and after the demand for an answer: react_verifier_llm caps neither.
Budget(policy, request) ==
  CASE policy = "llm"                -> <<1, Coerce(request[2])>>
    [] policy = "react"              -> <<Least(Coerce(request[1]), TurnsCap), 0>>
    [] policy = "react_auto"         -> <<Least(Coerce(request[1]), TurnsCap),
                                          Least(Coerce(request[2]), ExtraCap)>>
    [] policy = "react_verifier_llm" -> <<Coerce(request[1]), Coerce(request[2])>>

Frame(policy, request, hooked) ==
  [policy |-> policy, pc |-> "setup", round |-> 0, hooked |-> hooked, got |-> "nothing",
   turns |-> Budget(policy, request)[1], extra |-> Budget(policy, request)[2],
   saved |-> None]

Rounds(f) == f.turns + f.extra

Init ==
  /\ left = RootDepth /\ stack = <<>> /\ weave = <<>> /\ returnBound = FALSE
  /\ calls = 0 /\ tainted = FALSE /\ leaked = 0 /\ torn = FALSE
  /\ errors = 0 /\ verified = 0

-----------------------------------------------------------------------------
(* Parts of the actions *)

\* The woven messages of a turn: calls above the first have lists of their own.
Weave(added) ==
  /\ weave' = IF OnWeave THEN weave \o added ELSE weave
  /\ errors' = IF OnWeave /\ Contains(added, "error") THEN errors + 1 ELSE errors

SetTop(f) == stack' = [stack EXCEPT ![Len(stack)] = f]
Goto(pc)  == SetTop([Top EXCEPT !.pc = pc])

\* descend() lowers the depth, and keeps what it was to give it back; its `try` is next.
Descend(pc) ==
  /\ left' = left - 1
  /\ SetTop([Top EXCEPT !.pc = pc, !.saved = left])

\* The round is over and was not the last: the verifier's turn, if there is one.
RoundOver ==
  LET f == Top
  IN  SetTop([f EXCEPT !.saved = None, !.round = IF f.hooked THEN @ ELSE @ + 1,
                       !.pc = IF f.hooked THEN "hook" ELSE "top"])

\* The top call ends: a value for its caller, or None or an exception.
Leave(how) ==
  LET below == Front(stack)
      f == Last(below)
  IN  stack' = IF below # <<>> /\ f.pc \in Checking
                 THEN [below EXCEPT ![Len(below)] = [f EXCEPT !.got = how, !.pc = After[f.pc]]]
                 ELSE below

\* Mutated: only the way out by RETURN takes the name away.
DropReturn_OnValueOnly(how) ==
  returnBound' = (returnBound /\ ~(OnWeave /\ Top.policy = "react_auto" /\ how = "value"))

\* react_auto's `finally`, on every way out.
DropReturn(how) ==
  returnBound' = (returnBound /\ ~(OnWeave /\ Top.policy = "react_auto"))

-----------------------------------------------------------------------------
(* A call begins *)

\* The namespace of react and react_auto must not hold the reserved name.
Admits(policy) == policy \in {"react", "react_auto"} => ~returnBound

\* The caller's own call: up to react_auto's `try`, RETURN is bound already.
Call(policy, request, hooked) ==
  /\ ~Running /\ calls < MaxCalls /\ Admits(policy)
  /\ hooked => policy = "react_verifier_llm"
  /\ calls' = calls + 1
  /\ stack' = <<Frame(policy, request, hooked)>>
  /\ returnBound' = (returnBound \/ policy = "react_auto")
  /\ UNCHANGED <<left, weave, tainted, leaked, torn, errors, verified>>

\* ValueError: the session cannot go on until the caller takes the name out.
Refuse(policy) ==
  /\ ~Running /\ calls < MaxCalls /\ ~Admits(policy)
  /\ calls' = calls + 1
  /\ UNCHANGED <<left, stack, weave, returnBound, tainted, leaked, torn, errors, verified>>

\* The caller prunes the namespace.
Prune ==
  /\ ~Running /\ returnBound
  /\ returnBound' = FALSE /\ torn' = FALSE
  /\ UNCHANGED <<left, stack, weave, calls, tainted, leaked, errors, verified>>

\* A cell calls a policy that it was granted, or a verifier its circuit.
SubCall(policy, request, hooked) ==
  /\ Running
  /\ Top.pc = "act" \/ (Top.pc \in Checking /\ policy = "react_auto")
  /\ hooked => policy = "react_verifier_llm"
  /\ stack' = Append(stack, Frame(policy, request, hooked))
  /\ UNCHANGED <<left, weave, returnBound, calls, tainted, leaked, torn, errors, verified>>

\* The briefing, then the depth gate: LLMDepthExceeded comes before any request.
Open ==
  /\ Running /\ Top.pc = "setup"
  /\ Weave(IF Top.policy = "react_auto" /\ Top.turns > 0 THEN <<"plain">> ELSE <<>>)
  /\ IF left > 0
       THEN Goto("top") /\ UNCHANGED returnBound
       ELSE Leave("nothing") /\ DropReturn("nothing")
  /\ UNCHANGED <<left, calls, tainted, leaked, torn, verified>>

-----------------------------------------------------------------------------
(* A round *)

\* The depth gate again; react_auto demands an answer in the last of its own rounds.
BeginRound ==
  /\ Running /\ Top.pc = "top" /\ Top.round < Rounds(Top) /\ left > 0
  /\ Weave(IF Top.policy = "react_auto" /\ Top.round = Most(Top.turns - 1, 0)
            THEN <<"plain">> ELSE <<>>)
  /\ Goto("generate")
  /\ UNCHANGED <<left, returnBound, calls, tainted, leaked, torn, verified>>

\* llm and react_auto give None, react_verifier_llm raises, react has simply ended.
Exhaust ==
  /\ Running /\ Top.pc = "top" /\ Top.round = Rounds(Top)
  /\ Leave("nothing") /\ DropReturn("nothing")
  /\ UNCHANGED <<left, weave, calls, tainted, leaked, torn, errors, verified>>

\* generate raises: out of the loop, through the `finally`.
BackendFails ==
  /\ Running /\ Top.pc = "generate"
  /\ Leave("nothing") /\ DropReturn("nothing")
  /\ UNCHANGED <<left, weave, calls, tainted, leaked, torn, errors, verified>>

\* llm: the answer passes, or it is woven with what is wrong about it.
AcceptAnswer ==
  /\ Running /\ Top.pc = "generate" /\ Top.policy = "llm"
  /\ Leave("value")
  /\ UNCHANGED <<left, weave, returnBound, calls, tainted, leaked, torn, errors, verified>>

RejectAnswer ==
  /\ Running /\ Top.pc = "generate" /\ Top.policy = "llm"
  /\ Weave(<<"plain", "plain">>)
  /\ RoundOver
  /\ UNCHANGED <<left, returnBound, calls, tainted, leaked, torn, verified>>

\* Mutated: a malformed call is answered with a tool message.
Turns_MalformedAsTool == {<<"plain">>, <<"plain", "tool">>}

\* No call; a call that is no dict, which is not kept.
Turns == {<<"plain">>, <<"plain", "plain">>}

\* Mutated: a turn without a call does not count.
IdleTurn_Free(turn) ==
  /\ Running /\ Top.pc = "generate" /\ Top.policy # "llm" /\ turn \in Turns
  /\ Weave(turn)
  /\ Goto("top")
  /\ UNCHANGED <<left, returnBound, calls, tainted, leaked, torn, verified>>

\* A turn of an agent without a call.
IdleTurn(turn) ==
  /\ Running /\ Top.pc = "generate" /\ Top.policy # "llm" /\ turn \in Turns
  /\ Weave(turn)
  /\ RoundOver
  /\ UNCHANGED <<left, returnBound, calls, tainted, leaked, torn, verified>>

\* The assistant's call is kept.
CallTurn ==
  /\ Running /\ Top.pc = "generate" /\ Top.policy # "llm"
  /\ Weave(<<"call">>)
  /\ Goto("called")
  /\ UNCHANGED <<left, returnBound, calls, tainted, leaked, torn, verified>>

\* It is for another tool, or its code is no string.
RefuseCall ==
  /\ Running /\ Top.pc = "called"
  /\ Weave(<<"tool">>)
  /\ RoundOver
  /\ UNCHANGED <<left, returnBound, calls, tainted, leaked, torn, verified>>

\* Mutated: the cell runs without descend().
BeginCell_NoDescend ==
  /\ Running /\ Top.pc = "called"
  /\ SetTop([Top EXCEPT !.pc = "act", !.saved = left])
  /\ UNCHANGED <<left, weave, returnBound, calls, tainted, leaked, torn, errors, verified>>

\* Its cell is to run, one level down.
BeginCell ==
  /\ Running /\ Top.pc = "called"
  /\ Descend("entering")
  /\ UNCHANGED <<weave, returnBound, calls, tainted, leaked, torn, errors, verified>>

EnterCell ==
  /\ Running /\ Top.pc = "entering"
  /\ Goto("act")
  /\ UNCHANGED <<left, weave, returnBound, calls, tainted, leaked, torn, errors, verified>>

\* The cell has ended: its output, or its traceback, is the answer to the call.
EndCell(reply) ==
  /\ Running /\ Top.pc = "act" /\ reply \in Replies
  /\ left' = Top.saved
  /\ Weave(<<reply>>)
  /\ RoundOver
  /\ UNCHANGED <<returnBound, calls, tainted, leaked, torn, verified>>

\* RETURN with a value that passes; one that does not is output like any other.  What the
\* cell wrote before it is the answer, and may read like an error.
Accept(reply) ==
  /\ Running /\ Top.pc = "act" /\ Top.policy # "react" /\ reply \in Replies
  /\ left' = Top.saved
  /\ Weave(<<reply>>)
  /\ Leave("value") /\ DropReturn("value")
  /\ UNCHANGED <<calls, tainted, leaked, torn, verified>>

-----------------------------------------------------------------------------
(* base_verifier *)

\* Newest first: an error comes before any other tool message and before any mark.
ShouldRun(w) ==
  \E i \in DOMAIN w :
    w[i] = "error" /\ \A j \in (i + 1) .. Len(w) : w[j] \notin Replies \cup {"verifier"}

\* The verifier has returned; so has its descend().
HookOver ==
  SetTop([Top EXCEPT !.saved = None, !.round = @ + 1, !.pc = "top"])

\* One level down for the verifier.
BeginHook ==
  /\ Running /\ Top.pc = "hook"
  /\ Descend("vetting")
  /\ UNCHANGED <<weave, returnBound, calls, tainted, leaked, torn, errors, verified>>

SkipCheck ==
  /\ Running /\ Top.pc = "vetting"
  /\ OnWeave => ~ShouldRun(weave)
  /\ left' = Top.saved
  /\ HookOver
  /\ UNCHANGED <<weave, returnBound, calls, tainted, leaked, torn, errors, verified>>

BeginCheck ==
  /\ Running /\ Top.pc = "vetting"
  /\ OnWeave => ShouldRun(weave)
  /\ Goto("note")
  /\ UNCHANGED <<left, weave, returnBound, calls, tainted, leaked, torn, errors, verified>>

\* _verify: a note steers the agent and marks the error; without one nothing happens.
TakeNote(note) ==
  /\ Running /\ Top.pc = "noted" /\ (note => Top.got = "value")
  /\ Weave(IF note THEN <<"plain", "verifier">> ELSE <<>>)
  /\ Goto("propose")
  /\ UNCHANGED <<left, returnBound, calls, tainted, leaked, torn, verified>>

\* _verify_propose_approve: code that compiles goes on to its approval.
TakeProposal(code) ==
  /\ Running /\ Top.pc = "proposed" /\ (code => Top.got = "value")
  /\ Goto(IF code THEN "approve" ELSE "mark")
  /\ UNCHANGED <<left, weave, returnBound, calls, tainted, leaked, torn, errors, verified>>

Reject ==
  /\ Running /\ Top.pc = "approved"
  /\ Goto("mark")
  /\ UNCHANGED <<left, weave, returnBound, calls, tainted, leaked, torn, errors, verified>>

\* Approved: a change of the list, here a turn more or an error's message less, or nothing
\* if the code fails.
Edit(edited) ==
  /\ Running /\ Top.pc = "approved" /\ Top.got = "value"
  /\ weave' = IF OnWeave THEN Append(edited, "verifier") ELSE weave
  /\ tainted' = (tainted \/ OnWeave)
  /\ Goto("mark")
  /\ UNCHANGED <<left, returnBound, calls, leaked, torn, errors, verified>>

Edits ==
  {weave, Append(weave, "plain")}
    \cup {RemoveAt(weave, i) : i \in {j \in DOMAIN weave : weave[j] = "error"}}

\* Mutated: no mark unless a check has left one.
Mark_OnlyByChecks ==
  /\ Running /\ Top.pc = "mark"
  /\ left' = Top.saved
  /\ verified' = IF OnWeave THEN verified + 1 ELSE verified
  /\ HookOver
  /\ UNCHANGED <<weave, returnBound, calls, tainted, leaked, torn, errors>>

\* The mark that every verification leaves, unless the last message is one.
Mark ==
  /\ Running /\ Top.pc = "mark"
  /\ left' = Top.saved
  /\ Weave(IF weave # <<>> /\ Last(weave) # "verifier" THEN <<"verifier">> ELSE <<>>)
  /\ verified' = IF OnWeave THEN verified + 1 ELSE verified
  /\ HookOver
  /\ UNCHANGED <<returnBound, calls, tainted, leaked, torn>>

-----------------------------------------------------------------------------
(* The operator's interrupt, at any moment *)

\* KeyboardInterrupt goes through everything up to a cell that catches it, or to the caller.
\* Each descend() that it finds inside its `try` gives the depth back, the outermost last.
Interrupt(keep) ==
  LET cut == stack[keep + 1]
  IN  /\ stack' = SubSeq(stack, 1, keep)
      /\ left' = IF cut.pc \in Within THEN cut.saved ELSE left
      /\ leaked' = IF keep = 0 /\ cut.pc \in Lowered THEN leaked + 1 ELSE leaked
      /\ returnBound' = (returnBound /\ ~(/\ keep = 0 /\ cut.pc # "setup"
                                         /\ cut.policy = "react_auto"))
      /\ torn' = (torn \/ (keep = 0 /\ cut.pc = "setup" /\ cut.policy = "react_auto"))
      /\ tainted' = (tainted \/ (keep = 0 /\ cut.pc \in {"called", "entering", "act"}))
      /\ UNCHANGED <<weave, calls, errors, verified>>

Catchers == {0} \cup {i \in 1 .. Len(stack) - 1 : stack[i].pc = "act"}

-----------------------------------------------------------------------------
CellEnds(level) ==
  Len(stack) = level /\ \E reply \in Replies : Accept(reply) \/ EndCell(reply)

\* What the policies do of themselves, with a backend that comes back.
Progress ==
  \/ Open \/ BeginRound \/ Exhaust \/ BackendFails \/ AcceptAnswer \/ RejectAnswer
  \/ CallTurn \/ RefuseCall \/ BeginCell \/ EnterCell
  \/ \E turn \in Turns : IdleTurn(turn)
  \/ BeginHook \/ SkipCheck \/ BeginCheck \/ Reject \/ Mark
  \/ \E yes \in BOOLEAN : TakeNote(yes) \/ TakeProposal(yes)
  \/ \E edited \in Edits : Edit(edited)
  \/ Running /\ Top.pc \in Checking
       /\ \E request \in SubRequests : SubCall("react_auto", request, FALSE)

AllDone == ~Running /\ calls = MaxCalls /\ UNCHANGED vars

Next ==
  \/ Progress
  \/ \E level \in 1 .. Len(stack) : CellEnds(level)
  \/ \E policy \in Policies, hooked \in BOOLEAN :
       \/ \E request \in Requests : Call(policy, request, hooked)
       \/ \E request \in SubRequests : policy \in SubPolicies /\ SubCall(policy, request, hooked)
  \/ \E policy \in Policies : Refuse(policy)
  \/ Prune
  \/ Running /\ \E keep \in Catchers : Interrupt(keep)
  \/ AllDone

Spec == Init /\ [][Next]_vars

FairSpec == Spec /\ WF_vars(Progress)

-----------------------------------------------------------------------------
(* Properties *)

\* No request is made deeper than the root allows, however agents, cells and verifiers
\* nest, and every way out of a call gives the depth back (_llm_infra.py:97-128), but for
\* an interrupt before descend()'s `try`, which takes one level from the session for good,
\* against "for the dynamic extent of the agent's act phase" (_llm_infra.py:109).
DepthKept ==
  /\ \A i \in DOMAIN stack : stack[i].pc = "generate" => i <= RootDepth - leaked
  /\ ~Running => left = RootDepth - leaked

\* RETURN is a name of the namespace only while a react_auto works on it, unless the
\* interrupt came before its `try`; and raw react never runs with it
\* (react_auto.py:543-548, react.py:104-106).
ReturnDiesWithCall ==
  /\ returnBound /\ ~torn => Running /\ stack[1].policy = "react_auto"
  /\ Running /\ stack[1].policy = "react" => ~returnBound

\* Each call that the list keeps is followed by its answer, and each answer by nothing
\* but its call.
Answered(w) ==
  \A i \in DOMAIN w :
    /\ w[i] = "call" => i < Len(w) /\ w[i + 1] \in Replies
    /\ w[i] \in Replies => i > 1 /\ w[i - 1] = "call"

\* What is sent to the backend is well formed, whatever mixture of policies has worked on
\* the list, unless an interrupt cut a cell off or a verifier rewrote the list.
UnansweredOnlyByInterrupt ==
  Running /\ stack[1].pc = "generate" /\ ~tainted => Answered(weave)

\* One error is verified at most once, by however many calls and rounds it is seen
\* (base_verifier.py:107-110).
VerifiedOncePerError == verified <= errors

\* If the cells of sub-agents end, so do the calls of the policies: the budgets are finite.
CallsEnd ==
  (\A level \in 1 .. RootDepth : SF_vars(CellEnds(level))) => (Running ~> ~Running)
=============================================================================

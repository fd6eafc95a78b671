------------------------------ MODULE RootLoop ------------------------------
(***************************************************************************)
(* PLM.__call__ (plm.py): the root React loop over one PythonReplSession.  *)
(* The session is CellService's; its calls are made by PythonCall alone.   *)
(*                                                                         *)
(* A message is its role and, for an assistant turn that kept a tool call  *)
(* and for the tool message that answers it, the number of the round.      *)
(* Everything between two awaits is one action: the event loop runs it     *)
(* whole.  The repl.close() of the loop's `finally` is KernelSession's     *)
(* Close; what it does to the interpreter is Lose and GiveUp here.         *)
(***************************************************************************)
EXTENDS CellService, Sequences, FiniteSets

CONSTANTS MaxTurns, ReturnBudget    \* max_turns, return_budget

TotalRounds == MaxTurns + ReturnBudget

ASSUME LoopAssumption ==
  MaxTurns \in Nat /\ ReturnBudget \in Nat /\ MaxCalls = TotalRounds

VARIABLES
  lpc,          \* where the coroutine is
  round,        \* _round
  messages,     \* the trajectory
  seededCount,  \* seeded_count
  seededEpoch,  \* seeded_epoch, 0 for None
  sent          \* history: the indices of the messages in each call's delta

loop  == <<lpc, round, messages, seededCount, seededEpoch, sent>>
lvars == <<cvars, loop>>

Roles == {"system", "user", "reminder", "assistant", "tool"}
Ended == {"returned", "exhausted", "failed", "cancelled"}
Message(role, call) == [role |-> role, call |-> call]

\* The call the assistant turn of this round keeps.
ThisCall == round + 1

LoopTypeOK ==
  /\ lpc \in {"top", "generate", "call"} \cup Ended
  /\ round \in 0 .. TotalRounds
  /\ messages \in Seq([role : Roles, call : 0 .. TotalRounds])
  /\ seededCount \in 0 .. Len(messages)
  /\ seededEpoch \in Nat
  /\ sent \in [Calls -> SUBSET (1 .. Len(messages))]
  /\ calls \in 0 .. MaxCalls /\ busy \in BOOLEAN /\ epoch \in Nat
  /\ state \in States /\ snapshot \in States /\ heard \in SUBSET Calls

LoopInit ==
  /\ Init
  /\ lpc = "top" /\ round = 0
  /\ messages = <<Message("system", 0), Message("user", 0)>>
  /\ seededCount = 0 /\ seededEpoch = 0
  /\ sent = [n \in Calls |-> {}]

-----------------------------------------------------------------------------
\* Mutated: the reminder comes with the last round of all.
BeginRound_LateReminder ==
  /\ lpc = "top" /\ round < TotalRounds
  /\ messages' = IF round = TotalRounds - 1
                   THEN Append(messages, Message("reminder", 0))
                   ELSE messages
  /\ lpc' = "generate"
  /\ UNCHANGED <<cvars, round, seededCount, seededEpoch, sent>>

\* The top of the for body, up to the await of generate.
BeginRound ==
  /\ lpc = "top" /\ round < TotalRounds
  /\ messages' = IF round = MaxTurns - 1
                   THEN Append(messages, Message("reminder", 0))
                   ELSE messages
  /\ lpc' = "generate"
  /\ UNCHANGED <<cvars, round, seededCount, seededEpoch, sent>>

\* The for's else: PLMTaskFailure.
Exhaust ==
  /\ lpc = "top" /\ round = TotalRounds
  /\ lpc' = "exhausted"
  /\ UNCHANGED <<cvars, round, messages, seededCount, seededEpoch, sent>>

\* The round is over with these messages added.
NextRound(added) ==
  /\ messages' = messages \o added
  /\ round' = round + 1
  /\ lpc' = "top"

\* No tool call, or a response that is no dict.
TextRound ==
  /\ lpc = "generate"
  /\ NextRound(<<Message("assistant", 0)>>)
  /\ UNCHANGED <<cvars, seededCount, seededEpoch, sent>>

\* Mutated: a malformed call is answered by a tool message.
MalformedCall_AsTool ==
  /\ lpc = "generate"
  /\ NextRound(<<Message("assistant", 0), Message("tool", ThisCall)>>)
  /\ UNCHANGED <<cvars, seededCount, seededEpoch, sent>>

\* The first entry of tool_calls is no dict: it is not kept.
MalformedCall ==
  /\ lpc = "generate"
  /\ NextRound(<<Message("assistant", 0), Message("user", 0)>>)
  /\ UNCHANGED <<cvars, seededCount, seededEpoch, sent>>

\* Arguments, name, code or its fences are wrong: answered without a cell.
RejectedCall ==
  /\ lpc = "generate"
  /\ NextRound(<<Message("assistant", ThisCall), Message("tool", ThisCall)>>)
  /\ UNCHANGED <<cvars, seededCount, seededEpoch, sent>>

\* Mutated: the epoch is recorded but the count of seeded messages is kept.
PythonCall_KeepsCount ==
  /\ lpc = "generate"
  /\ messages' = Append(messages, Message("assistant", ThisCall))
  /\ sent' = [sent EXCEPT ![calls + 1] = (seededCount + 1) .. Len(messages')]
  /\ seededEpoch' = epoch
  /\ seededCount' = Len(messages')
  /\ Call
  /\ lpc' = "call"
  /\ UNCHANGED round

\* A python call: the delta since the last call of this kernel epoch goes
\* with it, the whole trajectory when the epoch is new.
PythonCall ==
  /\ lpc = "generate"
  /\ messages' = Append(messages, Message("assistant", ThisCall))
  /\ LET from == IF epoch = seededEpoch THEN seededCount ELSE 0
     IN  sent' = [sent EXCEPT ![calls + 1] = (from + 1) .. Len(messages')]
  /\ seededEpoch' = epoch
  /\ seededCount' = Len(messages')
  /\ Call
  /\ lpc' = "call"
  /\ UNCHANGED round

\* Mutated: a cell that was interrupted or lost its kernel is not answered.
CellDone_ExecutedOnly ==
  /\ lpc = "call" /\ ~busy /\ outcome[calls] = "executed"
  /\ NextRound(<<Message("tool", ThisCall)>>)
  /\ UNCHANGED <<cvars, seededCount, seededEpoch, sent>>

\* Mutated: the seeded count runs ahead of the trajectory by the tool message.
CellDone_CountsAhead ==
  /\ lpc = "call" /\ ~busy
  /\ outcome[calls] \in {"executed", "interrupted", "rerun"}
  /\ NextRound(<<Message("tool", ThisCall)>>)
  /\ seededCount' = Len(messages') + 1
  /\ UNCHANGED <<cvars, seededEpoch, sent>>

\* The cell did not end the task: its output is the tool message.
CellDone ==
  /\ lpc = "call" /\ ~busy
  /\ outcome[calls] \in {"executed", "interrupted", "rerun"}
  /\ NextRound(<<Message("tool", ThisCall)>>)
  /\ UNCHANGED <<cvars, seededCount, seededEpoch, sent>>

\* RETURN with a value the constraint refuses.
ReturnInvalid ==
  /\ lpc = "call" /\ ~busy /\ outcome[calls] = "returned"
  /\ NextRound(<<Message("tool", ThisCall)>>)
  /\ UNCHANGED <<cvars, seededCount, seededEpoch, sent>>

ReturnValid ==
  /\ lpc = "call" /\ ~busy /\ outcome[calls] = "returned"
  /\ messages' = Append(messages, Message("tool", ThisCall))
  /\ lpc' = "returned"
  /\ UNCHANGED <<cvars, round, seededCount, seededEpoch, sent>>

\* generate or execute_cell raised: nothing in the loop catches it.
Raised ==
  /\ lpc = "generate" \/ (lpc = "call" /\ ~busy /\ outcome[calls] = "raised")
  /\ lpc' = "failed"
  /\ UNCHANGED <<cvars, round, messages, seededCount, seededEpoch, sent>>

\* The task is cancelled at an await; the thread of to_thread runs on.
Cancel ==
  /\ lpc \in {"generate", "call"}
  /\ lpc' = "cancelled"
  /\ UNCHANGED <<cvars, round, messages, seededCount, seededEpoch, sent>>

LoopStep ==
  \/ BeginRound \/ Exhaust \/ TextRound \/ MalformedCall \/ RejectedCall
  \/ PythonCall \/ CellDone \/ ReturnInvalid \/ ReturnValid \/ Raised

CallEnds == (Reply \/ Restart \/ GiveUp) /\ UNCHANGED loop

ServiceStep == (Hear \/ Run \/ Answer \/ Lose) /\ UNCHANGED loop

LoopOver == lpc \in Ended /\ UNCHANGED lvars

LoopNext == LoopStep \/ Cancel \/ CallEnds \/ ServiceStep \/ LoopOver

LoopSpec == LoopInit /\ [][LoopNext]_lvars

(***************************************************************************)
(* The event loop runs the coroutine on and generate comes back; a call    *)
(* comes back too, which KernelSession shows (CellReturns) for a           *)
(* tool_timeout other than None.                                           *)
(***************************************************************************)
FairLoopSpec == LoopSpec /\ WF_lvars(LoopStep) /\ WF_lvars(CallEnds)

-----------------------------------------------------------------------------
\* A cell sees the whole conversation in plm_messages, each message once and
\* in order, whatever crashed, timed out or was restarted before it
\* (plm.py:446-450): the deltas the interpreter heard make up the trajectory.
KernelSeesWholeTrajectory ==
  lpc = "call" /\ busy /\ calls \in heard =>
    /\ UNION {sent[n] : n \in heard} = DOMAIN messages
    /\ \A m, n \in heard : m < n => \A i \in sent[m], j \in sent[n] : i < j

\* Every request to the backend (plm.py:296) is a conversation an API takes:
\* an assistant turn that carries a call is followed by the one tool message
\* that answers it, and there is no other tool message.
WireWellFormed ==
  lpc = "generate" =>
    \A i \in DOMAIN messages :
      /\ messages[i].role = "assistant" /\ messages[i].call # 0 =>
           i < Len(messages) /\ messages[i + 1] = Message("tool", messages[i].call)
      /\ messages[i].role = "tool" =>
           messages[i - 1] = Message("assistant", messages[i].call)

Reminders == {i \in DOMAIN messages : messages[i].role = "reminder"}
TurnsAfter(i) == Cardinality({j \in DOMAIN messages :
                                j > i /\ messages[j].role = "assistant"})

\* A task fails for want of a RETURN (plm.py:506) only after the model was
\* told once, and had its last regular round and the whole return_budget after
\* it was told.
FailureComesAfterReminder ==
  lpc = "exhausted" /\ MaxTurns > 0 =>
    \E i \in Reminders : Reminders = {i} /\ TurnsAfter(i) = ReturnBudget + 1

\* The loop always ends: with a RETURN, with PLMTaskFailure, or with what
\* generate or the session raised.
LoopEnds == <>(lpc \in Ended)
=============================================================================

--------------------------- MODULE RootLoopProofs ---------------------------
(***************************************************************************)
(* Proofs about RootLoop: a cell sees the whole trajectory, the            *)
(* conversation is well formed and the model is told in time, for all      *)
(* budgets and however the session restarts.                               *)
(*                                                                         *)
(* Three parts of the invariant go their own ways: Deltas is about the     *)
(* interpreter and what was sent to it, Wire and Reminded are about the    *)
(* list of messages, of which each step adds at most two.                  *)
(***************************************************************************)
EXTENDS RootLoop, FiniteSetTheorems, SequenceTheorems, TLAPS

-----------------------------------------------------------------------------
(* The invariant *)

\* The calls whose deltas the interpreter has had or is about to have.
InHand == heard \cup (IF busy THEN {calls} ELSE {})

\* Their deltas are the seeded part of the trajectory, in order.
Covered(H) ==
  /\ UNION {sent[n] : n \in H} = 1 .. seededCount
  /\ \A m, n \in H : m < n => \A i \in sent[m], j \in sent[n] : i < j

\* An interpreter that is up has heard all that was seeded in its epoch, and nothing before
\* the first call of the epoch.
Deltas ==
  /\ answer \subseteq States
  /\ heard \subseteq 1 .. calls
  /\ ~Up => heard = {}
  /\ ~busy => answer = {}
  /\ Up /\ answer # {} => calls \in heard
  /\ busy => lpc \in {"call", "cancelled"} /\ seededEpoch = epoch /\ calls \in Calls
  /\ seededEpoch <= epoch
  /\ lpc = "call" => seededCount = Len(messages)
  /\ Up /\ seededEpoch # epoch => heard = {}
  /\ Up /\ seededEpoch = epoch => Covered(InHand)

Keeps(m)   == m.role = "assistant" /\ m.call # 0
Answers(m) == Message("tool", m.call)

\* Each call that was kept is followed by its answer, but for the one under way.
Wired(w, n) ==
  /\ \A i \in 1 .. n : Keeps(w[i]) => i < Len(w) /\ w[i + 1] = Answers(w[i])
  /\ \A i \in 1 .. Len(w) : w[i].role = "tool" =>
                              i > 1 /\ w[i - 1] = Message("assistant", w[i].call)

Wire ==
  /\ lpc \in {"top", "generate"} => Wired(messages, Len(messages))
  /\ lpc = "call" => /\ messages # <<>> /\ messages[Len(messages)] = Message("assistant", ThisCall)
                     /\ Wired(messages, Len(messages) - 1)

\* The model is told in its last regular round, and makes a turn in each round after that.
RemindersOf(w)    == {i \in DOMAIN w : w[i].role = "reminder"}
TurnsOf(w, i)     == {j \in DOMAIN w : j > i /\ w[j].role = "assistant"}
ToldIn(w, turns)  == \E i \in RemindersOf(w) : /\ RemindersOf(w) = {i}
                                               /\ Cardinality(TurnsOf(w, i)) = turns

Reminded ==
  /\ lpc = "generate" => round < TotalRounds
  /\ lpc = "call" => round < TotalRounds
  /\ lpc = "exhausted" => round = TotalRounds
  /\ MaxTurns > 0 =>
       /\ (lpc = "top" /\ round < MaxTurns)
            \/ (lpc \in {"generate", "call"} /\ round < MaxTurns - 1)
            => RemindersOf(messages) = {}
       /\ (lpc \in {"top", "exhausted"} /\ round >= MaxTurns)
            \/ (lpc = "generate" /\ round >= MaxTurns - 1)
            => ToldIn(messages, round - (MaxTurns - 1))
       /\ lpc = "call" /\ round >= MaxTurns - 1 => ToldIn(messages, round - (MaxTurns - 1) + 1)

IInv == LoopTypeOK /\ Deltas /\ Wire /\ Reminded

-----------------------------------------------------------------------------
(* The list of messages *)

Messages == [role : Roles, call : 0 .. TotalRounds]

\* v is w and one message more.
OneMore(w, v, m) ==
  /\ v \in Seq(Messages) /\ Len(v) = Len(w) + 1 /\ v[Len(w) + 1] = m
  /\ \A i \in 1 .. Len(w) : v[i] = w[i]

LEMMA RoundsType ==
  /\ TotalRounds \in Nat /\ MaxTurns \in Nat /\ ReturnBudget \in Nat
  /\ TotalRounds = MaxTurns + ReturnBudget
BY LoopAssumption DEF TotalRounds

LEMMA AppendIsOneMore ==
  ASSUME NEW w \in Seq(Messages), NEW m \in Messages
  PROVE  OneMore(w, Append(w, m), m) /\ OneMore(w, w \o <<m>>, m)
BY DEF OneMore

LEMMA TwoMore ==
  ASSUME NEW w \in Seq(Messages), NEW m \in Messages, NEW k \in Messages
  PROVE  /\ OneMore(w, w \o <<m>>, m) /\ OneMore(w \o <<m>>, w \o <<m, k>>, k)
<1>1. OneMore(w, w \o <<m>>, m)
  BY AppendIsOneMore
<1> DEFINE s == w \o <<m, k>>
           u == w \o <<m>>
<1>2. /\ Len(s) = Len(w) + 2 /\ s \in Seq(Messages)
      /\ s[Len(w) + 1] = m /\ s[Len(w) + 2] = k
      /\ \A i \in 1 .. Len(w) : s[i] = w[i]
  OBVIOUS
<1>3. /\ Len(u) = Len(w) + 1 /\ u[Len(w) + 1] = m /\ \A i \in 1 .. Len(w) : u[i] = w[i]
  BY <1>1 DEF OneMore
<1>4. Len(w) \in Nat
  OBVIOUS
<1> HIDE DEF s, u
<1>5. OneMore(u, s, k)
  BY <1>2, <1>3, <1>4 DEF OneMore
<1> QED
  BY <1>1, <1>5 DEF s, u

\* Neither a call that is kept nor an answer.
LEMMA PlainKeepsWired ==
  ASSUME NEW w \in Seq(Messages), NEW m \in Messages, NEW v, OneMore(w, v, m),
         Wired(w, Len(w)), ~Keeps(m), m.role # "tool"
  PROVE  Wired(v, Len(v))
<1>1. ASSUME NEW i \in 1 .. Len(v), Keeps(v[i]) PROVE i < Len(v) /\ v[i + 1] = Answers(v[i])
  <2>1. i \in 1 .. Len(w) /\ v[i] = w[i]
    BY <1>1 DEF OneMore
  <2>2. i < Len(w) /\ w[i + 1] = Answers(w[i])
    BY <1>1, <2>1 DEF Wired
  <2> QED
    BY <2>1, <2>2 DEF OneMore
<1>2. ASSUME NEW i \in 1 .. Len(v), v[i].role = "tool"
      PROVE  i > 1 /\ v[i - 1] = Message("assistant", v[i].call)
  <2>1. i \in 1 .. Len(w) /\ v[i] = w[i]
    BY <1>2 DEF OneMore
  <2>2. i > 1 /\ w[i - 1] = Message("assistant", w[i].call)
    BY <1>2, <2>1 DEF Wired
  <2> QED
    BY <2>1, <2>2 DEF OneMore
<1> QED
  BY <1>1, <1>2 DEF Wired

\* A call is kept.
LEMMA CallKeepsWired ==
  ASSUME NEW w \in Seq(Messages), NEW m \in Messages, NEW v, OneMore(w, v, m),
         Wired(w, Len(w)), m.role = "assistant"
  PROVE  Wired(v, Len(v) - 1) /\ v # <<>> /\ v[Len(v)] = m
<1>0. v # <<>> /\ v[Len(v)] = m /\ Len(v) - 1 = Len(w) /\ Len(w) \in Nat
  BY DEF OneMore
<1>1. ASSUME NEW i \in 1 .. Len(w), Keeps(v[i]) PROVE i < Len(v) /\ v[i + 1] = Answers(v[i])
  <2>1. v[i] = w[i]
    BY DEF OneMore
  <2>2. i < Len(w) /\ w[i + 1] = Answers(w[i])
    BY <1>1, <2>1 DEF Wired
  <2> QED
    BY <2>1, <2>2 DEF OneMore
<1>2. ASSUME NEW i \in 1 .. Len(v), v[i].role = "tool"
      PROVE  i > 1 /\ v[i - 1] = Message("assistant", v[i].call)
  <2>1. i \in 1 .. Len(w) /\ v[i] = w[i]
    BY <1>2 DEF OneMore
  <2>2. i > 1 /\ w[i - 1] = Message("assistant", w[i].call)
    BY <1>2, <2>1 DEF Wired
  <2> QED
    BY <2>1, <2>2 DEF OneMore
<1> QED
  BY <1>0, <1>1, <1>2 DEF Wired

\* Its answer.
LEMMA AnswerKeepsWired ==
  ASSUME NEW w \in Seq(Messages), w # <<>>, NEW c \in 0 .. TotalRounds,
         w[Len(w)] = Message("assistant", c), Wired(w, Len(w) - 1),
         NEW v, OneMore(w, v, Message("tool", c))
  PROVE  Wired(v, Len(v))
<1>0. Len(w) \in Nat \ {0} /\ Len(v) = Len(w) + 1
  BY DEF OneMore
<1>1. ASSUME NEW i \in 1 .. Len(v), Keeps(v[i]) PROVE i < Len(v) /\ v[i + 1] = Answers(v[i])
  <2>1. i # Len(w) + 1
    BY <1>1 DEF OneMore, Keeps, Message
  <2>2. i \in 1 .. Len(w) /\ v[i] = w[i]
    BY <1>0, <2>1 DEF OneMore
  <2>3. CASE i = Len(w)
    BY <1>0, <2>2, <2>3 DEF OneMore, Answers, Message
  <2>4. CASE i # Len(w)
    <3>1. i \in 1 .. Len(w) - 1
      BY <1>0, <2>2, <2>4
    <3>2. i < Len(w) /\ w[i + 1] = Answers(w[i])
      BY <1>1, <2>2, <3>1 DEF Wired
    <3> QED
      BY <2>2, <3>2 DEF OneMore
  <2> QED
    BY <2>3, <2>4
<1>2. ASSUME NEW i \in 1 .. Len(v), v[i].role = "tool"
      PROVE  i > 1 /\ v[i - 1] = Message("assistant", v[i].call)
  <2>1. CASE i = Len(w) + 1
    BY <1>0, <2>1 DEF OneMore, Message
  <2>2. CASE i # Len(w) + 1
    <3>1. i \in 1 .. Len(w) /\ v[i] = w[i]
      BY <1>0, <2>2 DEF OneMore
    <3>2. i > 1 /\ w[i - 1] = Message("assistant", w[i].call)
      BY <1>2, <3>1 DEF Wired
    <3> QED
      BY <3>1, <3>2 DEF OneMore
  <2> QED
    BY <2>1, <2>2
<1> QED
  BY <1>1, <1>2 DEF Wired

LEMMA TurnsFinite ==
  ASSUME NEW w \in Seq(Messages), NEW i \in DOMAIN w
  PROVE  IsFiniteSet(TurnsOf(w, i)) /\ Cardinality(TurnsOf(w, i)) \in Nat
<1>1. Len(w) \in Nat /\ DOMAIN w = 1 .. Len(w)
  OBVIOUS
<1>2. IsFiniteSet(1 .. Len(w))
  BY <1>1, FS_Interval
<1>3. TurnsOf(w, i) \in SUBSET (1 .. Len(w))
  BY <1>1 DEF TurnsOf
<1>4. IsFiniteSet(TurnsOf(w, i))
  BY <1>2, <1>3, FS_Subset
<1> QED
  BY <1>4, FS_CardinalityType

\* What a message does to the reminders and to the turns since.
LEMMA MessageCounts ==
  ASSUME NEW w \in Seq(Messages), NEW m \in Messages, NEW v, OneMore(w, v, m)
  PROVE  /\ m.role # "reminder" => RemindersOf(v) = RemindersOf(w)
         /\ \A t \in Nat : ToldIn(w, t) /\ m.role \notin {"reminder", "assistant"} => ToldIn(v, t)
         /\ \A t \in Nat : ToldIn(w, t) /\ m.role = "assistant" => ToldIn(v, t + 1)
         /\ RemindersOf(w) = {} /\ m.role = "reminder" => ToldIn(v, 0)
<1>1. /\ DOMAIN w = 1 .. Len(w) /\ DOMAIN v = 1 .. Len(w) + 1 /\ Len(w) \in Nat
      /\ v[Len(w) + 1] = m /\ \A i \in 1 .. Len(w) : v[i] = w[i]
  BY DEF OneMore
<1>2. m.role # "reminder" => RemindersOf(v) = RemindersOf(w)
  BY <1>1 DEF RemindersOf
<1>3. ASSUME NEW i \in DOMAIN w, m.role # "assistant" PROVE TurnsOf(v, i) = TurnsOf(w, i)
  BY <1>1, <1>3 DEF TurnsOf
<1>4. ASSUME NEW i \in DOMAIN w, m.role = "assistant"
      PROVE  TurnsOf(v, i) = TurnsOf(w, i) \cup {Len(w) + 1} /\ Len(w) + 1 \notin TurnsOf(w, i)
  BY <1>1, <1>4 DEF TurnsOf
<1>5. ASSUME NEW t \in Nat, ToldIn(w, t), m.role \notin {"reminder", "assistant"}
      PROVE  ToldIn(v, t)
  <2>1. PICK i \in RemindersOf(w) : RemindersOf(w) = {i} /\ Cardinality(TurnsOf(w, i)) = t
    BY <1>5 DEF ToldIn
  <2>2. i \in DOMAIN w
    BY DEF RemindersOf
  <2> QED
    BY <1>2, <1>3, <1>5, <2>1, <2>2 DEF ToldIn
<1>6. ASSUME NEW t \in Nat, ToldIn(w, t), m.role = "assistant"
      PROVE  ToldIn(v, t + 1)
  <2>1. PICK i \in RemindersOf(w) : RemindersOf(w) = {i} /\ Cardinality(TurnsOf(w, i)) = t
    BY <1>6 DEF ToldIn
  <2>2. i \in DOMAIN w
    BY DEF RemindersOf
  <2>3. Cardinality(TurnsOf(v, i)) = t + 1
    BY <1>4, <1>6, <2>1, <2>2, TurnsFinite, FS_AddElement
  <2> QED
    BY <1>2, <1>6, <2>1, <2>3 DEF ToldIn
<1>7. ASSUME RemindersOf(w) = {}, m.role = "reminder" PROVE ToldIn(v, 0)
  <2>1. RemindersOf(v) = {Len(w) + 1}
    BY <1>1, <1>7 DEF RemindersOf
  <2>2. TurnsOf(v, Len(w) + 1) = {}
    BY <1>1 DEF TurnsOf
  <2> QED
    BY <2>1, <2>2, FS_EmptySet DEF ToldIn
<1> QED
  BY <1>2, <1>5, <1>6, <1>7

-----------------------------------------------------------------------------
(* Steps of the loop between two calls *)

\* A step that only adds messages keeps the types.
LEMMA AddingKeepsTypes ==
  ASSUME LoopTypeOK, messages' \in Seq(Messages), Len(messages') >= Len(messages),
         round' \in 0 .. TotalRounds,
         lpc' \in {"top", "generate", "call"} \cup Ended,
         UNCHANGED <<cvars, seededCount, seededEpoch, sent>>
  PROVE  LoopTypeOK'
<1>1. /\ Len(messages) \in Nat /\ Len(messages') \in Nat
      /\ 1 .. Len(messages) \subseteq 1 .. Len(messages')
  BY DEF LoopTypeOK, Messages
<1>2. sent' \in [Calls -> SUBSET (1 .. Len(messages'))]
  BY <1>1 DEF LoopTypeOK
<1>3. seededCount' \in 0 .. Len(messages')
  BY <1>1 DEF LoopTypeOK
<1> QED
  BY <1>2, <1>3 DEF LoopTypeOK, cvars, Calls, States, Messages

\* One that leaves the call alone, or ends it, keeps what the interpreter heard.
LEMMA LeavingKeepsDeltas ==
  ASSUME LoopTypeOK, Deltas, UNCHANGED <<cvars, seededCount, seededEpoch, sent>>,
         lpc' # "call", busy => lpc' = "cancelled"
  PROVE  Deltas'
<1>1. InHand' = InHand
  BY DEF InHand, cvars
<1>2. Covered(InHand)' <=> Covered(InHand)
  BY <1>1 DEF Covered
<1> QED
  BY <1>2 DEF Deltas, cvars, Up, States

\* Before a call is made there is none under way.
LEMMA IdleBetweenCalls ==
  ASSUME LoopTypeOK, Deltas, lpc \in {"top", "generate"}
  PROVE  ~busy
BY DEF Deltas

LEMMA BeginRoundKeeps ==
  ASSUME IInv, BeginRound
  PROVE  IInv'
<1> USE DEF IInv
<1>0. /\ lpc = "top" /\ lpc' = "generate" /\ round < TotalRounds /\ round' = round /\ round \in Nat
      /\ UNCHANGED <<cvars, seededCount, seededEpoch, sent>> /\ messages \in Seq(Messages)
  BY RoundsType DEF BeginRound, LoopTypeOK, Messages
<1> DEFINE m == Message("reminder", 0)
<1>m. m \in Messages /\ m.role = "reminder" /\ m.role # "tool" /\ ~Keeps(m)
  BY RoundsType DEF Message, Messages, Roles, Keeps
<1>d. Deltas'
  BY <1>0, IdleBetweenCalls, LeavingKeepsDeltas
<1>w. Wired(messages, Len(messages))
  BY <1>0 DEF Wire
<1>1. CASE round = MaxTurns - 1
  <2>1. OneMore(messages, messages', m)
    BY <1>0, <1>m, <1>1, AppendIsOneMore DEF BeginRound
  <2>2. LoopTypeOK'
    BY <1>0, <2>1, AddingKeepsTypes DEF OneMore, LoopTypeOK, Messages
  <2>3. Wire'
    BY <1>0, <1>m, <1>w, <2>1, PlainKeepsWired DEF Wire
  <2>4. MaxTurns > 0 => RemindersOf(messages) = {}
    BY <1>0, <1>1, RoundsType DEF Reminded
  <2>5. MaxTurns > 0 => ToldIn(messages', 0)
    BY <1>0, <1>m, <2>1, <2>4, MessageCounts
  <2>6. Reminded'
    BY <1>0, <1>1, <2>5, RoundsType DEF Reminded
  <2> QED
    BY <1>d, <2>2, <2>3, <2>6
<1>2. CASE round # MaxTurns - 1
  <2>1. messages' = messages
    BY <1>2 DEF BeginRound
  <2>2. LoopTypeOK'
    BY <1>0, <2>1, AddingKeepsTypes DEF LoopTypeOK, Messages
  <2>3. Wire'
    BY <1>0, <1>w, <2>1 DEF Wire
  <2>4. Reminded'
    BY <1>0, <1>2, <2>1, RoundsType DEF Reminded
  <2> QED
    BY <1>d, <2>2, <2>3, <2>4
<1> QED
  BY <1>1, <1>2

LEMMA ExhaustKeeps ==
  ASSUME IInv, Exhaust
  PROVE  IInv'
<1> USE DEF IInv
<1>0. /\ lpc = "top" /\ lpc' = "exhausted" /\ round = TotalRounds /\ round' = round
      /\ messages' = messages /\ messages \in Seq(Messages) /\ round \in Nat
      /\ UNCHANGED <<cvars, seededCount, seededEpoch, sent>>
  BY RoundsType DEF Exhaust, LoopTypeOK, Messages
<1>1. LoopTypeOK'
  BY <1>0, AddingKeepsTypes DEF LoopTypeOK, Messages, Ended
<1>2. Deltas'
  BY <1>0, IdleBetweenCalls, LeavingKeepsDeltas
<1>3. Wire'
  BY <1>0 DEF Wire
<1>4. Reminded'
  BY <1>0, RoundsType DEF Reminded
<1> QED
  BY <1>1, <1>2, <1>3, <1>4

\* A turn that keeps no call, and what the loop adds to it.
LEMMA TextRoundKeeps ==
  ASSUME IInv, TextRound
  PROVE  IInv'
<1> USE DEF IInv
<1> DEFINE m == Message("assistant", 0)
<1>0. /\ lpc = "generate" /\ lpc' = "top" /\ round' = round + 1 /\ round \in Nat
      /\ messages' = messages \o <<m>> /\ messages \in Seq(Messages) /\ round < TotalRounds
      /\ UNCHANGED <<cvars, seededCount, seededEpoch, sent>>
  BY RoundsType DEF TextRound, NextRound, LoopTypeOK, Messages, Reminded
<1>m. m \in Messages /\ m.role = "assistant" /\ m.role # "tool" /\ m.role # "reminder" /\ ~Keeps(m)
  BY RoundsType DEF Message, Messages, Roles, Keeps
<1>1. OneMore(messages, messages', m)
  BY <1>0, <1>m, AppendIsOneMore
<1> HIDE DEF m
<1>2. LoopTypeOK'
  BY <1>0, <1>1, RoundsType, AddingKeepsTypes DEF OneMore, LoopTypeOK, Messages
<1>3. Deltas'
  BY <1>0, IdleBetweenCalls, LeavingKeepsDeltas
<1>4. Wire'
  BY <1>0, <1>m, <1>1, PlainKeepsWired DEF Wire
<1>5. MaxTurns > 0 /\ round >= MaxTurns - 1 => ToldIn(messages', round - (MaxTurns - 1) + 1)
  <2> SUFFICES ASSUME MaxTurns > 0, round >= MaxTurns - 1
               PROVE  ToldIn(messages', round - (MaxTurns - 1) + 1)
    OBVIOUS
  <2>1. round - (MaxTurns - 1) \in Nat /\ ToldIn(messages, round - (MaxTurns - 1))
    BY <1>0, RoundsType DEF Reminded
  <2> QED
    BY <1>0, <1>1, <1>m, <2>1, MessageCounts
<1>6. MaxTurns > 0 /\ round < MaxTurns - 1 => RemindersOf(messages') = {}
  <2>1. MaxTurns > 0 /\ round < MaxTurns - 1 => RemindersOf(messages) = {}
    BY <1>0 DEF Reminded
  <2> QED
    BY <1>0, <1>1, <1>m, <2>1, MessageCounts
<1>7. Reminded'
  BY <1>0, <1>5, <1>6, RoundsType DEF Reminded
<1> QED
  BY <1>2, <1>3, <1>4, <1>7

LEMMA MalformedCallKeeps ==
  ASSUME IInv, MalformedCall
  PROVE  IInv'
<1> USE DEF IInv
<1> DEFINE m == Message("assistant", 0)
           k == Message("user", 0)
           u == messages \o <<m>>
<1>0. /\ lpc = "generate" /\ lpc' = "top" /\ round' = round + 1 /\ round \in Nat
      /\ messages' = messages \o <<m, k>> /\ messages \in Seq(Messages) /\ round < TotalRounds
      /\ UNCHANGED <<cvars, seededCount, seededEpoch, sent>>
  BY RoundsType DEF MalformedCall, NextRound, LoopTypeOK, Messages, Reminded
<1>m. m \in Messages /\ m.role = "assistant" /\ m.role # "tool" /\ m.role # "reminder" /\ ~Keeps(m)
  BY RoundsType DEF Message, Messages, Roles, Keeps
<1>k. /\ k \in Messages /\ k.role # "assistant" /\ k.role # "tool" /\ k.role # "reminder"
      /\ ~Keeps(k)
  BY RoundsType DEF Message, Messages, Roles, Keeps
<1>1. OneMore(messages, u, m) /\ OneMore(u, messages', k)
  BY <1>0, <1>m, <1>k, TwoMore
<1>u. u \in Seq(Messages)
  BY <1>0, <1>m
<1> HIDE DEF m, k, u
<1>2. LoopTypeOK'
  <2>1. messages' \in Seq(Messages) /\ Len(messages') >= Len(messages)
    BY <1>0, <1>1, <1>u DEF OneMore
  <2> QED
    BY <1>0, <2>1, RoundsType, AddingKeepsTypes DEF LoopTypeOK
<1>3. Deltas'
  BY <1>0, IdleBetweenCalls, LeavingKeepsDeltas
<1>4. Wire'
  <2>1. Wired(u, Len(u))
    BY <1>0, <1>m, <1>1, PlainKeepsWired DEF Wire
  <2> QED
    BY <1>0, <1>k, <1>1, <1>u, <2>1, PlainKeepsWired DEF Wire
<1>5. MaxTurns > 0 /\ round >= MaxTurns - 1 => ToldIn(messages', round - (MaxTurns - 1) + 1)
  <2> SUFFICES ASSUME MaxTurns > 0, round >= MaxTurns - 1
               PROVE  ToldIn(messages', round - (MaxTurns - 1) + 1)
    OBVIOUS
  <2>1. /\ round - (MaxTurns - 1) \in Nat /\ round - (MaxTurns - 1) + 1 \in Nat
        /\ ToldIn(messages, round - (MaxTurns - 1))
    BY <1>0, RoundsType DEF Reminded
  <2>2. ToldIn(u, round - (MaxTurns - 1) + 1)
    BY <1>0, <1>1, <1>m, <2>1, MessageCounts
  <2> QED
    BY <1>1, <1>k, <1>u, <2>1, <2>2, MessageCounts
<1>6. MaxTurns > 0 /\ round < MaxTurns - 1 => RemindersOf(messages') = {}
  <2>1. MaxTurns > 0 /\ round < MaxTurns - 1 => RemindersOf(messages) = {}
    BY <1>0 DEF Reminded
  <2> QED
    BY <1>0, <1>1, <1>m, <1>k, <1>u, <2>1, MessageCounts
<1>r. lpc' = "top" /\ round' = round + 1 /\ round \in Nat
  BY <1>0
<1>7. Reminded'
  BY <1>r, <1>5, <1>6, RoundsType DEF Reminded
<1> QED
  BY <1>2, <1>3, <1>4, <1>7

LEMMA RejectedCallKeeps ==
  ASSUME IInv, RejectedCall
  PROVE  IInv'
<1> USE DEF IInv
<1> DEFINE m == Message("assistant", ThisCall)
           k == Message("tool", ThisCall)
           u == messages \o <<m>>
<1>0. /\ lpc = "generate" /\ lpc' = "top" /\ round' = round + 1 /\ round \in Nat
      /\ messages' = messages \o <<m, k>> /\ messages \in Seq(Messages) /\ round < TotalRounds
      /\ UNCHANGED <<cvars, seededCount, seededEpoch, sent>>
  BY RoundsType DEF RejectedCall, NextRound, LoopTypeOK, Messages, Reminded
<1>c. ThisCall \in 0 .. TotalRounds
  BY <1>0, RoundsType DEF ThisCall
<1>m. m \in Messages /\ m.role = "assistant" /\ m.role # "tool" /\ m.role # "reminder"
  BY <1>c DEF Message, Messages, Roles
<1>k. /\ k \in Messages /\ k.role # "assistant" /\ k.role # "reminder"
  BY <1>c DEF Message, Messages, Roles
<1>1. OneMore(messages, u, m) /\ OneMore(u, messages', k)
  BY <1>0, <1>m, <1>k, TwoMore
<1>u. u \in Seq(Messages)
  BY <1>0, <1>m
<1> HIDE DEF u
<1>4. Wire'
  <2>1. Wired(u, Len(u) - 1) /\ u # <<>> /\ u[Len(u)] = m
    BY <1>0, <1>m, <1>1, CallKeepsWired DEF Wire
  <2>2. Wired(messages', Len(messages'))
    BY <1>c, <1>1, <1>u, <2>1, AnswerKeepsWired
  <2> QED
    BY <1>0, <2>2 DEF Wire
<1> HIDE DEF m, k
<1>2. LoopTypeOK'
  <2>1. messages' \in Seq(Messages) /\ Len(messages') >= Len(messages)
    BY <1>0, <1>1, <1>u DEF OneMore
  <2> QED
    BY <1>0, <2>1, RoundsType, AddingKeepsTypes DEF LoopTypeOK
<1>3. Deltas'
  BY <1>0, IdleBetweenCalls, LeavingKeepsDeltas
<1>5. MaxTurns > 0 /\ round >= MaxTurns - 1 => ToldIn(messages', round - (MaxTurns - 1) + 1)
  <2> SUFFICES ASSUME MaxTurns > 0, round >= MaxTurns - 1
               PROVE  ToldIn(messages', round - (MaxTurns - 1) + 1)
    OBVIOUS
  <2>1. /\ round - (MaxTurns - 1) \in Nat /\ round - (MaxTurns - 1) + 1 \in Nat
        /\ ToldIn(messages, round - (MaxTurns - 1))
    BY <1>0, RoundsType DEF Reminded
  <2>2. ToldIn(u, round - (MaxTurns - 1) + 1)
    BY <1>0, <1>1, <1>m, <2>1, MessageCounts
  <2> QED
    BY <1>1, <1>k, <1>u, <2>1, <2>2, MessageCounts
<1>6. MaxTurns > 0 /\ round < MaxTurns - 1 => RemindersOf(messages') = {}
  <2>1. MaxTurns > 0 /\ round < MaxTurns - 1 => RemindersOf(messages) = {}
    BY <1>0 DEF Reminded
  <2> QED
    BY <1>0, <1>1, <1>m, <1>k, <1>u, <2>1, MessageCounts
<1>r. lpc' = "top" /\ round' = round + 1 /\ round \in Nat
  BY <1>0
<1>7. Reminded'
  BY <1>r, <1>5, <1>6, RoundsType DEF Reminded
<1> QED
  BY <1>2, <1>3, <1>4, <1>7

-----------------------------------------------------------------------------
(* Steps that make, wait for and end a call *)

\* The output of a cell, whatever the loop does next.
LEMMA AnsweredKeeps ==
  ASSUME IInv, lpc = "call", ~busy, OneMore(messages, messages', Message("tool", ThisCall)),
         \/ lpc' = "top" /\ round' = round + 1
         \/ lpc' = "returned" /\ round' = round,
         UNCHANGED <<cvars, seededCount, seededEpoch, sent>>
  PROVE  IInv'
<1> USE DEF IInv
<1> DEFINE k == Message("tool", ThisCall)
<1>0. /\ round \in Nat /\ messages \in Seq(Messages) /\ round < TotalRounds
      /\ round' \in 0 .. TotalRounds
  BY RoundsType DEF LoopTypeOK, Messages, Reminded
<1>c. ThisCall \in 0 .. TotalRounds
  BY <1>0, RoundsType DEF ThisCall
<1>k. k \in Messages /\ k.role # "assistant" /\ k.role # "reminder"
  BY <1>c DEF Message, Messages, Roles
<1>2. LoopTypeOK'
  <2>1. messages' \in Seq(Messages) /\ Len(messages') >= Len(messages)
    BY <1>0 DEF OneMore
  <2> QED
    BY <1>0, <2>1, RoundsType, AddingKeepsTypes DEF LoopTypeOK, Ended
<1>3. Deltas'
  BY LeavingKeepsDeltas
<1>4. Wire'
  <2>1. Wired(messages', Len(messages'))
    BY <1>0, <1>c, AnswerKeepsWired DEF Wire
  <2> QED
    BY <2>1 DEF Wire
<1> HIDE DEF k
<1>5. MaxTurns > 0 /\ round >= MaxTurns - 1 => ToldIn(messages', round - (MaxTurns - 1) + 1)
  <2> SUFFICES ASSUME MaxTurns > 0, round >= MaxTurns - 1
               PROVE  ToldIn(messages', round - (MaxTurns - 1) + 1)
    OBVIOUS
  <2>1. round - (MaxTurns - 1) + 1 \in Nat /\ ToldIn(messages, round - (MaxTurns - 1) + 1)
    BY <1>0, RoundsType DEF Reminded
  <2> QED
    BY <1>0, <1>k, <2>1, MessageCounts DEF k
<1>6. MaxTurns > 0 /\ round < MaxTurns - 1 => RemindersOf(messages') = {}
  <2>1. MaxTurns > 0 /\ round < MaxTurns - 1 => RemindersOf(messages) = {}
    BY DEF Reminded
  <2> QED
    BY <1>0, <1>k, <2>1, MessageCounts DEF k
<1>7. Reminded'
  BY <1>0, <1>5, <1>6, RoundsType DEF Reminded
<1> QED
  BY <1>2, <1>3, <1>4, <1>7

LEMMA ToolMessage ==
  ASSUME IInv, lpc = "call"
  PROVE  LET k == Message("tool", ThisCall)
         IN  OneMore(messages, messages \o <<k>>, k) /\ OneMore(messages, Append(messages, k), k)
<1>1. ThisCall \in 0 .. TotalRounds /\ messages \in Seq(Messages)
  BY RoundsType DEF ThisCall, IInv, LoopTypeOK, Messages, Reminded
<1>2. Message("tool", ThisCall) \in Messages
  BY <1>1 DEF Message, Messages, Roles
<1> QED
  BY <1>1, <1>2, AppendIsOneMore

\* Raised, Cancel.
LEMMA EndingKeeps ==
  ASSUME IInv, Raised \/ Cancel
  PROVE  IInv'
<1> USE DEF IInv
<1>0. /\ lpc' \in {"failed", "cancelled"} /\ round' = round /\ messages' = messages
      /\ UNCHANGED <<cvars, seededCount, seededEpoch, sent>>
      /\ busy => lpc' = "cancelled"
  BY IdleBetweenCalls DEF Raised, Cancel
<1>1. LoopTypeOK'
  BY <1>0, AddingKeepsTypes DEF LoopTypeOK, Messages, Ended
<1>2. Deltas'
  BY <1>0, LeavingKeepsDeltas
<1> QED
  BY <1>0, <1>1, <1>2 DEF Wire, Reminded

\* The delta that goes with a call is the rest of the trajectory.
LEMMA PythonCallCovers ==
  ASSUME LoopTypeOK, Deltas, PythonCall, Len(messages') = Len(messages) + 1, Up
  PROVE  Covered(InHand)'
<1> DEFINE from == IF epoch = seededEpoch THEN seededCount ELSE 0
           next == (from + 1) .. Len(messages')
<1>0. /\ ~busy /\ busy' = TRUE /\ heard' = heard /\ calls' = calls + 1 /\ calls \in Nat
      /\ calls + 1 \in Calls /\ heard \subseteq 1 .. calls
      /\ seededCount' = Len(messages') /\ sent' = [sent EXCEPT ![calls + 1] = next]
      /\ Len(messages) \in Nat
  BY IdleBetweenCalls, MaxCallsAssumption DEF PythonCall, Call, Deltas, LoopTypeOK, Calls
<1>1. InHand = heard /\ InHand' = heard \cup {calls + 1} /\ calls + 1 \notin heard
  BY <1>0 DEF InHand
<1>2. /\ UNION {sent[n] : n \in heard} = 1 .. from
      /\ \A m, n \in heard : m < n => \A i \in sent[m], j \in sent[n] : i < j
  <2>1. CASE epoch = seededEpoch
    BY <1>1, <2>1 DEF Deltas, Covered
  <2>2. CASE epoch # seededEpoch
    BY <2>2 DEF Deltas
  <2> QED
    BY <2>1, <2>2
<1>3. from \in 0 .. Len(messages)
  BY <1>0 DEF LoopTypeOK
<1> HIDE DEF from
<1>4. /\ sent'[calls + 1] = next
      /\ \A n \in heard : sent'[n] = sent[n]
  BY <1>0, <1>1 DEF LoopTypeOK
<1>5. UNION {sent'[n] : n \in heard \cup {calls + 1}}
        = (UNION {sent[n] : n \in heard}) \cup next
  <2>1. {sent'[n] : n \in heard \cup {calls + 1}} = {sent[n] : n \in heard} \cup {next}
    BY <1>4
  <2> HIDE DEF next
  <2> QED
    BY <2>1
<1>6. (1 .. from) \cup next = 1 .. Len(messages')
  BY <1>0, <1>3
<1>7. UNION {sent'[n] : n \in heard \cup {calls + 1}} = 1 .. seededCount'
  <2>1. seededCount' = Len(messages') /\ UNION {sent[n] : n \in heard} = 1 .. from
    BY <1>0, <1>2
  <2> HIDE DEF next
  <2> QED
    BY <2>1, <1>5, <1>6
<1>8. ASSUME NEW m \in heard \cup {calls + 1}, NEW n \in heard \cup {calls + 1}, m < n,
             NEW i \in sent'[m], NEW j \in sent'[n]
      PROVE  i < j
  <2>1. m \in heard
    BY <1>0, <1>8
  <2>2. i \in sent[m] /\ i \in 1 .. from
    BY <1>2, <1>4, <1>8, <2>1
  <2>3. CASE n \in heard
    BY <1>2, <1>4, <1>8, <2>1, <2>2, <2>3
  <2>4. CASE n = calls + 1
    BY <1>3, <1>0, <1>4, <1>8, <2>2, <2>4
  <2> QED
    BY <2>3, <2>4
<1> QED
  BY <1>1, <1>7, <1>8 DEF Covered

LEMMA PythonCallKeeps ==
  ASSUME IInv, PythonCall
  PROVE  IInv'
<1> USE DEF IInv
<1> DEFINE m == Message("assistant", ThisCall)
<1>0. /\ lpc = "generate" /\ lpc' = "call" /\ round' = round /\ round \in Nat
      /\ messages' = Append(messages, m) /\ messages \in Seq(Messages) /\ round < TotalRounds
      /\ Len(messages) \in Nat
  BY RoundsType DEF PythonCall, LoopTypeOK, Messages, Reminded
<1>m. m \in Messages /\ m.role = "assistant" /\ m.role # "tool" /\ m.role # "reminder"
  BY <1>0, RoundsType DEF ThisCall, Message, Messages, Roles
<1>1. OneMore(messages, messages', m)
  BY <1>0, <1>m, AppendIsOneMore
<1>t. ThisCall' = ThisCall
  BY <1>0 DEF ThisCall
<1>l. Len(messages') = Len(messages) + 1 /\ messages' \in Seq(Messages)
  BY <1>1 DEF OneMore
<1>c. /\ calls \in Nat /\ calls' = calls + 1 /\ calls + 1 \in Calls /\ ~busy /\ busy' = TRUE
      /\ UNCHANGED <<epoch, outcome, state, heard, answer, snapshot>>
      /\ seededCount' = Len(messages') /\ seededEpoch' = epoch
  BY MaxCallsAssumption DEF PythonCall, Call, LoopTypeOK, Calls
<1>2. LoopTypeOK'
  <2>1. sent' \in [Calls -> SUBSET (1 .. Len(messages'))]
    <3> DEFINE from == IF epoch = seededEpoch THEN seededCount ELSE 0
    <3>1. /\ from \in Nat /\ sent \in [Calls -> SUBSET (1 .. Len(messages))]
          /\ sent' = [sent EXCEPT ![calls + 1] = (from + 1) .. Len(messages')]
      BY <1>0 DEF PythonCall, LoopTypeOK
    <3> HIDE DEF from
    <3>2. 1 .. Len(messages) \subseteq 1 .. Len(messages')
      BY <1>0, <1>l
    <3>3. (from + 1) .. Len(messages') \subseteq 1 .. Len(messages')
      BY <1>0, <1>l, <3>1
    <3> QED
      BY <3>1, <3>2, <3>3
  <2>2. calls' \in 0 .. MaxCalls
    BY <1>c, MaxCallsAssumption DEF Calls
  <2>3. lpc' \in {"top", "generate", "call"} \cup Ended /\ round' \in 0 .. TotalRounds
    BY <1>0 DEF LoopTypeOK
  <2>4. seededCount' \in 0 .. Len(messages') /\ seededEpoch' \in Nat
    BY <1>0, <1>c, <1>l DEF LoopTypeOK
  <2>5. /\ busy' \in BOOLEAN /\ epoch' \in Nat
        /\ state' \in States /\ snapshot' \in States /\ heard' \in SUBSET Calls
    BY <1>c DEF LoopTypeOK, States, Calls
  <2> QED
    BY <1>l, <2>1, <2>2, <2>3, <2>4, <2>5 DEF LoopTypeOK, Messages
<1>3. Deltas'
  <2>1. Up' <=> Up
    BY <1>c DEF Up
  <2>2. Up => Covered(InHand)'
    BY <1>l, PythonCallCovers
  <2>3. heard' \subseteq 1 .. calls'
    BY <1>c DEF Deltas
  <2>4. answer' = {} /\ answer' \subseteq States'
    BY <1>c DEF Deltas
  <2>5. seededEpoch' = epoch' /\ epoch' <= epoch' /\ calls' \in Calls'
    BY <1>c DEF LoopTypeOK, Calls
  <2>6. ~Up => heard' = {}
    BY <1>c DEF Deltas
  <2> QED
    BY <1>0, <1>c, <2>1, <2>2, <2>3, <2>4, <2>5, <2>6 DEF Deltas
<1>4. Wire'
  <2>1. Wired(messages', Len(messages') - 1) /\ messages' # <<>> /\ messages'[Len(messages')] = m
    BY <1>0, <1>m, <1>1, CallKeepsWired DEF Wire
  <2>2. lpc' = "call"
    BY <1>0
  <2> QED
    BY <1>t, <2>1, <2>2 DEF Wire
<1> HIDE DEF m
<1>5. MaxTurns > 0 /\ round >= MaxTurns - 1 => ToldIn(messages', round - (MaxTurns - 1) + 1)
  <2> SUFFICES ASSUME MaxTurns > 0, round >= MaxTurns - 1
               PROVE  ToldIn(messages', round - (MaxTurns - 1) + 1)
    OBVIOUS
  <2>1. round - (MaxTurns - 1) \in Nat /\ ToldIn(messages, round - (MaxTurns - 1))
    BY <1>0, RoundsType DEF Reminded
  <2> QED
    BY <1>0, <1>1, <1>m, <2>1, MessageCounts
<1>6. MaxTurns > 0 /\ round < MaxTurns - 1 => RemindersOf(messages') = {}
  <2>1. MaxTurns > 0 /\ round < MaxTurns - 1 => RemindersOf(messages) = {}
    BY <1>0 DEF Reminded
  <2> QED
    BY <1>0, <1>1, <1>m, <2>1, MessageCounts
<1>r. lpc' = "call" /\ round' = round /\ round \in Nat /\ round < TotalRounds
  BY <1>0
<1>7. Reminded'
  BY <1>r, <1>5, <1>6, RoundsType DEF Reminded
<1> QED
  BY <1>2, <1>3, <1>4, <1>7

\* What a step of the session keeps of the loop.
LEMMA SessionKeepsLoop ==
  ASSUME IInv, UNCHANGED loop
  PROVE  Wire' /\ Reminded'
BY DEF IInv, loop, Wire, Reminded, ThisCall

LEMMA SessionTypes ==
  ASSUME LoopTypeOK, UNCHANGED <<loop, calls>>, busy' \in BOOLEAN, epoch' \in Nat,
         state' \in States, snapshot' \in States, heard' \in SUBSET Calls
  PROVE  LoopTypeOK'
BY DEF LoopTypeOK, loop, Calls, States

LEMMA ReplyKeeps ==
  ASSUME IInv, Reply, UNCHANGED loop
  PROVE  IInv'
<1> USE DEF IInv
<1>0. /\ busy /\ ~busy' /\ answer # {} /\ answer \subseteq States /\ answer' = {}
      /\ UNCHANGED <<calls, epoch, state, heard, lpc, seededCount, seededEpoch, sent, messages>>
  BY DEF Reply, Deltas, loop
<1>1. snapshot' \in States
  BY <1>0 DEF Reply, LoopTypeOK
<1>2. LoopTypeOK'
  <2>1. busy' \in BOOLEAN
    BY DEF Reply
  <2> QED
    BY <1>0, <1>1, <2>1, SessionTypes DEF LoopTypeOK
<1>3. Deltas'
  <2>1. Up => InHand' = InHand
    BY <1>0 DEF InHand, Deltas
  <2>2. Up /\ seededEpoch = epoch => Covered(InHand)'
    BY <1>0, <2>1 DEF Covered, Deltas
  <2> QED
    BY <1>0, <2>2 DEF Deltas, Up
<1> QED
  BY <1>2, <1>3, SessionKeepsLoop

\* Restart, GiveUp: nothing heard, and a new epoch if there is an interpreter.
LEMMA RestartKeeps ==
  ASSUME IInv, Restart \/ GiveUp, UNCHANGED loop
  PROVE  IInv'
<1> USE DEF IInv
<1>0. /\ busy /\ ~busy' /\ answer' = {} /\ heard' = {} /\ calls' = calls /\ snapshot' = snapshot
      /\ UNCHANGED <<lpc, seededCount, seededEpoch, sent, messages>>
      /\ epoch' = epoch + 1 \/ (epoch' = epoch /\ state' = {})
  BY DEF Restart, GiveUp, Deltas, loop
<1>1. state' \in States
  <2>1. state' = {} \/ \E gone \in SUBSET (snapshot \ {0}) : state' = {0} \cup (snapshot \ gone)
    BY DEF Restart, GiveUp
  <2>2. {} \in States
    BY DEF States
  <2>3. ASSUME NEW gone PROVE {0} \cup (snapshot \ gone) \in States
    <3>1. snapshot \subseteq 0 .. MaxCalls /\ 0 \in 0 .. MaxCalls
      BY MaxCallsAssumption DEF LoopTypeOK, States
    <3> QED
      BY <3>1 DEF States
  <2> QED
    BY <2>1, <2>2, <2>3
<1>2. LoopTypeOK'
  <2>1. busy' \in BOOLEAN /\ heard' \in SUBSET Calls
    BY <1>0 DEF Restart, GiveUp
  <2>2. epoch' \in Nat
    BY <1>0 DEF LoopTypeOK
  <2> QED
    BY <1>0, <1>1, <2>1, <2>2, SessionTypes DEF LoopTypeOK
<1>3. Deltas'
  <2>1. seededEpoch = epoch /\ epoch \in Nat
    BY <1>0 DEF Deltas, LoopTypeOK
  <2>2. Up' => seededEpoch' # epoch'
    BY <1>0, <2>1 DEF Up
  <2>3. seededEpoch' <= epoch'
    BY <1>0, <2>1
  <2> QED
    BY <1>0, <2>2, <2>3 DEF Deltas
<1> QED
  BY <1>2, <1>3, SessionKeepsLoop

LEMMA ServiceStepKeeps ==
  ASSUME IInv, ServiceStep
  PROVE  IInv'
<1> USE DEF IInv
<1>0. /\ UNCHANGED <<loop, calls, busy, epoch, snapshot>>
      /\ UNCHANGED <<lpc, seededCount, seededEpoch, sent, messages>>
  BY DEF ServiceStep, Hear, Run, Answer, Lose, loop
<1>s. busy => calls \in Calls /\ calls \in 0 .. MaxCalls /\ calls \in 1 .. calls
  BY DEF Deltas, LoopTypeOK, Calls
<1>h. state' = state \/ state' = {} \/ (busy /\ state' = state \cup {calls})
  BY DEF ServiceStep, Hear, Run, Answer, Lose
<1>k. heard' = heard \/ heard' = {} \/ (busy /\ heard' = heard \cup {calls})
  BY DEF ServiceStep, Hear, Run, Answer, Lose
<1>1. state' \in States /\ heard' \in SUBSET Calls /\ heard' \subseteq 1 .. calls
  <2>1. state \in SUBSET (0 .. MaxCalls) /\ heard \in SUBSET Calls /\ heard \subseteq 1 .. calls
    BY DEF LoopTypeOK, Deltas, States
  <2>2. state' \in SUBSET (0 .. MaxCalls)
    BY <1>s, <1>h, <2>1
  <2>3. heard' \in SUBSET Calls /\ heard' \subseteq 1 .. calls
    BY <1>s, <1>k, <2>1
  <2> QED
    BY <2>2, <2>3 DEF States
<1>2. LoopTypeOK'
  BY <1>0, <1>1, SessionTypes DEF LoopTypeOK
<1>3. answer' \subseteq States /\ (~busy => answer' = {})
  BY DEF ServiceStep, Hear, Run, Answer, Lose, LoopTypeOK, Deltas, States
<1>4. Up' => Up /\ InHand' = InHand
  BY <1>0 DEF ServiceStep, Hear, Run, Answer, Lose, InHand, Up
<1>5. ~Up' => heard' = {}
  BY DEF ServiceStep, Hear, Run, Answer, Lose, Deltas, Up
<1>6. Up' /\ answer' # {} => calls \in heard'
  BY DEF ServiceStep, Hear, Run, Answer, Lose, Deltas, Up
<1>7. Up' /\ seededEpoch # epoch => heard' = {}
  BY <1>0 DEF ServiceStep, Hear, Run, Answer, Lose, Deltas, Up
<1>8. Up' /\ seededEpoch = epoch => Covered(InHand)'
  BY <1>0, <1>4 DEF Deltas, Covered
<1>9. Deltas'
  BY <1>0, <1>1, <1>3, <1>5, <1>6, <1>7, <1>8 DEF Deltas, States, Calls
<1> QED
  BY <1>0, <1>2, <1>9, SessionKeepsLoop

-----------------------------------------------------------------------------
(* The theorems *)

LEMMA InitHolds == LoopInit => IInv
<1> SUFFICES ASSUME LoopInit PROVE IInv
  OBVIOUS
<1> DEFINE s == Message("system", 0)
           u == Message("user", 0)
<1>0. /\ lpc = "top" /\ round = 0 /\ messages = <<s, u>> /\ seededCount = 0 /\ seededEpoch = 0
      /\ sent = [n \in Calls |-> {}] /\ calls = 0 /\ busy = FALSE /\ epoch = 1
      /\ state = {0} /\ heard = {} /\ answer = {} /\ snapshot = {}
  BY DEF LoopInit, Init
<1>m. /\ s \in Messages /\ u \in Messages
      /\ s.role = "system" /\ u.role = "user" /\ s.call = 0 /\ u.call = 0
  BY RoundsType DEF Message, Messages, Roles
<1> HIDE DEF s, u
<1>1. /\ messages \in Seq(Messages) /\ Len(messages) = 2 /\ DOMAIN messages = {1, 2}
      /\ messages[1] = s /\ messages[2] = u
  BY <1>0, <1>m
<1>2. LoopTypeOK
  <2>1. sent \in [Calls -> SUBSET (1 .. Len(messages))] /\ seededCount \in 0 .. Len(messages)
    BY <1>0, <1>1
  <2>2. /\ calls \in 0 .. MaxCalls /\ round \in 0 .. TotalRounds
        /\ state \in States /\ snapshot \in States
    BY <1>0, MaxCallsAssumption, RoundsType DEF States
  <2> QED
    BY <1>0, <1>1, <2>1, <2>2 DEF LoopTypeOK, Messages
<1>3. Deltas
  BY <1>0 DEF Deltas, Up
<1>4. Wire
  <2>1. \A i \in 1 .. Len(messages) : messages[i].role \notin {"assistant", "tool"}
    BY <1>1, <1>m
  <2>2. Wired(messages, Len(messages))
    BY <2>1 DEF Wired, Keeps
  <2> QED
    BY <1>0, <2>2 DEF Wire
<1>5. Reminded
  <2>1. RemindersOf(messages) = {}
    BY <1>1, <1>m DEF RemindersOf
  <2> QED
    BY <1>0, <2>1, RoundsType DEF Reminded
<1> QED
  BY <1>2, <1>3, <1>4, <1>5 DEF IInv

LEMMA StepKeeps == IInv /\ [LoopNext]_lvars => IInv'
<1> SUFFICES ASSUME IInv, [LoopNext]_lvars PROVE IInv'
  OBVIOUS
<1>1. CASE BeginRound
  BY <1>1, BeginRoundKeeps
<1>2. CASE Exhaust
  BY <1>2, ExhaustKeeps
<1>3. CASE TextRound
  BY <1>3, TextRoundKeeps
<1>4. CASE MalformedCall
  BY <1>4, MalformedCallKeeps
<1>5. CASE RejectedCall
  BY <1>5, RejectedCallKeeps
<1>6. CASE PythonCall
  BY <1>6, PythonCallKeeps
<1>7. CASE CellDone
  BY <1>7, ToolMessage, AnsweredKeeps DEF CellDone, NextRound
<1>8. CASE ReturnInvalid
  BY <1>8, ToolMessage, AnsweredKeeps DEF ReturnInvalid, NextRound
<1>9. CASE ReturnValid
  BY <1>9, ToolMessage, AnsweredKeeps DEF ReturnValid
<1>10. CASE Raised \/ Cancel
  BY <1>10, EndingKeeps
<1>11. CASE CallEnds
  BY <1>11, ReplyKeeps, RestartKeeps DEF CallEnds
<1>12. CASE ServiceStep
  BY <1>12, ServiceStepKeeps
<1>13. CASE UNCHANGED lvars
  BY <1>13 DEF IInv, LoopTypeOK, Deltas, Wire, Reminded, Covered, InHand, Up, States, Calls,
               ThisCall, lvars, cvars, loop
<1> QED
  BY <1>1, <1>2, <1>3, <1>4, <1>5, <1>6, <1>7, <1>8, <1>9, <1>10, <1>11, <1>12, <1>13
     DEF LoopNext, LoopStep, LoopOver

\* The invariant holds in every state of the loop, whatever the budgets.
THEOREM Inductive == LoopSpec => []IInv
<1> QED
  BY InitHolds, StepKeeps, PTL DEF LoopSpec

\* The type invariant of plm.py's loop: in particular no more calls are made than there
\* are rounds, and what is counted as seeded is in the trajectory.
THEOREM LoopTypes == LoopSpec => []LoopTypeOK
<1>1. IInv => LoopTypeOK
  BY DEF IInv
<1> QED
  BY <1>1, Inductive, PTL

\* A cell finds the whole trajectory in plm_messages, each message once and in order,
\* however often the interpreter died, was restarted or was lost before (plm.py:446-450).
THEOREM WholeTrajectorySeen == LoopSpec => []KernelSeesWholeTrajectory
<1>1. IInv => KernelSeesWholeTrajectory
  <2> SUFFICES ASSUME IInv, lpc = "call", busy, calls \in heard
               PROVE  /\ UNION {sent[n] : n \in heard} = DOMAIN messages
                      /\ \A m, n \in heard : m < n => \A i \in sent[m], j \in sent[n] : i < j
    BY DEF KernelSeesWholeTrajectory
  <2>1. InHand = heard
    BY DEF InHand
  <2>2. Up /\ seededEpoch = epoch /\ seededCount = Len(messages)
    BY DEF IInv, Deltas
  <2>3. Covered(heard)
    BY <2>1, <2>2 DEF IInv, Deltas
  <2>4. DOMAIN messages = 1 .. seededCount
    BY <2>2 DEF IInv, LoopTypeOK
  <2> QED
    BY <2>3, <2>4 DEF Covered
<1> QED
  BY <1>1, Inductive, PTL

\* Every request to the backend is a conversation an API takes: a turn that keeps a call is
\* followed by its one answer, and there is no other tool message (plm.py:296-480).
THEOREM WireAlwaysWellFormed == LoopSpec => []WireWellFormed
<1>1. IInv => WireWellFormed
  <2> SUFFICES ASSUME IInv, lpc = "generate", NEW i \in DOMAIN messages
               PROVE  /\ messages[i].role = "assistant" /\ messages[i].call # 0 =>
                           i < Len(messages) /\ messages[i + 1] = Message("tool", messages[i].call)
                      /\ messages[i].role = "tool" =>
                           messages[i - 1] = Message("assistant", messages[i].call)
    BY DEF WireWellFormed
  <2>1. Wired(messages, Len(messages)) /\ i \in 1 .. Len(messages)
    BY DEF IInv, Wire, LoopTypeOK
  <2> QED
    BY <2>1 DEF Wired, Keeps, Answers
<1> QED
  BY <1>1, Inductive, PTL

\* A task fails for want of a RETURN only after the model was told once, and had its last
\* regular round and the whole return_budget after that (plm.py:506).
THEOREM ReminderFirst == LoopSpec => []FailureComesAfterReminder
<1>1. IInv => FailureComesAfterReminder
  <2> SUFFICES ASSUME IInv, lpc = "exhausted", MaxTurns > 0
               PROVE  \E i \in Reminders : Reminders = {i} /\ TurnsAfter(i) = ReturnBudget + 1
    BY DEF FailureComesAfterReminder
  <2>1. ToldIn(messages, round - (MaxTurns - 1)) /\ round - (MaxTurns - 1) = ReturnBudget + 1
    BY RoundsType DEF IInv, Reminded
  <2>2. /\ Reminders = RemindersOf(messages)
        /\ \A i : TurnsAfter(i) = Cardinality(TurnsOf(messages, i))
    BY DEF Reminders, RemindersOf, TurnsAfter, TurnsOf
  <2> QED
    BY <2>1, <2>2 DEF ToldIn
<1> QED
  BY <1>1, Inductive, PTL

=============================================================================

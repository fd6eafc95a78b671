-------------------------- MODULE AgentLoopsProofs --------------------------
(***************************************************************************)
(* Proofs about AgentLoops: the depth, the reserved name and the list of   *)
(* messages are kept, for all budgets, depths and numbers of calls.        *)
(*                                                                         *)
(* Most steps set the frame of the call on top and weave messages, so the  *)
(* argument is about SetTop and Weave first: Depths goes through all       *)
(* calls, Parts looks at the first one and the list only.  Sequences are   *)
(* taken apart in the lemmas about Answered and ShouldRun.                 *)
(***************************************************************************)
EXTENDS AgentLoops, SequenceTheorems, TLAPS

Frames ==
  [policy : Policies, pc : Points, round : Nat, hooked : BOOLEAN, got : Values,
   turns : Nat, extra : Nat, saved : Int \cup {None}]

\* What the variables hold.
TypeOK ==
  /\ stack \in Seq(Frames) /\ weave \in Seq(Roles)
  /\ left \in Int /\ calls \in Nat /\ errors \in Nat /\ verified \in Nat
  /\ returnBound \in BOOLEAN /\ tainted \in BOOLEAN /\ leaked \in Nat /\ torn \in BOOLEAN

\* What is between the lowering of a descend() and the giving back.
Descended == Lowered \cup Within

\* What may be left for the call at the place n of the stack: all that the session has for
\* the first; for one above it at least one less for each below, and another one for
\* each interrupt that hit a descend() before its `try` and was caught by a cell below.
Fits(depth, n) ==
  /\ depth \in Int
  /\ depth <= RootDepth - leaked - (n - 1)
  /\ n = 1 => depth = RootDepth - leaked

\* A call in a descend() keeps what it will give back.
Holds(f, n) == IF f.pc \in Descended THEN Fits(f.saved, n) ELSE f.saved = None

\* What the frame on top must be for the depth to be right.
InPlace(f, now, n) ==
  /\ Holds(f, n) /\ now \in Int
  /\ f.pc \in Lowered => now = f.saved - 1
  /\ f.pc \in Within => now <= RootDepth - leaked - n
  /\ f.pc \notin Descended => Fits(now, n)
  /\ f.pc = "generate" => now > 0

\* Each call that is inside of a descend() keeps the depth that it will give back, and the
\* depth left goes with the last of them.
Depths ==
  /\ \A i \in DOMAIN stack : Holds(stack[i], i)
  /\ \A i \in 1 .. Len(stack) - 1 : stack[i].pc \in {"act"} \cup Checking
  /\ ~Running => left = RootDepth - leaked
  /\ Running => InPlace(Top, left, Len(stack))

\* The list ends with a call that has no answer yet, and is well formed before it.
Pending(w) ==
  /\ w # <<>> /\ w[Len(w)] = "call"
  /\ \A i \in DOMAIN w : w[i] = "call" => i = Len(w) \/ w[i + 1] \in Replies
  /\ \A i \in DOMAIN w : w[i] \in Replies => i > 1 /\ w[i - 1] = "call"

Awaiting == {"called", "entering", "act"}
Shaped(pc, w) == IF pc \in Awaiting THEN Pending(w) ELSE Answered(w)

\* Where the call on the weave is.
At == IF Running THEN stack[1].pc ELSE "top"

\* An error that is to be verified, or is being verified, has not been counted.
Uncounted == ShouldRun(weave) \/ At \in Deciding

Parts ==
  /\ ~tainted => Shaped(At, weave)
  /\ VerifiedOncePerError
  /\ Uncounted => verified < errors

IInv == TypeOK /\ Depths /\ ReturnDiesWithCall /\ Parts

-----------------------------------------------------------------------------
(* The list of messages *)

\* One message more.
LEMMA OneMore ==
  ASSUME NEW w \in Seq(Roles), NEW a \in Roles
  PROVE  /\ w \o <<a>> \in Seq(Roles) /\ Len(w \o <<a>>) = Len(w) + 1
         /\ (w \o <<a>>)[Len(w) + 1] = a
         /\ \A i \in 1 .. Len(w) : (w \o <<a>>)[i] = w[i]
OBVIOUS

LEMMA TwoMore ==
  ASSUME NEW w \in Seq(Roles), NEW a \in Roles, NEW b \in Roles
  PROVE  w \o <<a, b>> = (w \o <<a>>) \o <<b>>
<1> DEFINE s == w \o <<a, b>>
           t == (w \o <<a>>) \o <<b>>
<1>1. /\ Len(s) = Len(w) + 2 /\ s \in Seq(Roles)
      /\ s[Len(w) + 1] = a /\ s[Len(w) + 2] = b
      /\ \A i \in 1 .. Len(w) : s[i] = w[i]
  OBVIOUS
<1>2. /\ Len(t) = Len(w) + 2 /\ t \in Seq(Roles)
      /\ t[Len(w) + 1] = a /\ t[Len(w) + 2] = b
      /\ \A i \in 1 .. Len(w) : t[i] = w[i]
  BY OneMore
<1> HIDE DEF s, t
<1>3. \A i \in 1 .. Len(w) + 2 : s[i] = t[i]
  BY <1>1, <1>2
<1>4. s = t
  BY <1>1, <1>2, <1>3
<1> QED
  BY <1>4 DEF s, t

\* A turn or a mark leaves a well-formed list well formed.
LEMMA PlainKeepsAnswered ==
  ASSUME NEW w \in Seq(Roles), Answered(w), NEW a \in {"plain", "verifier"}
  PROVE  Answered(w \o <<a>>)
<1>1. a \in Roles /\ a \notin Replies /\ a # "call"
  BY DEF Roles, Replies
<1> DEFINE v == w \o <<a>>
<1>2. /\ v \in Seq(Roles) /\ Len(v) = Len(w) + 1 /\ v[Len(w) + 1] = a
      /\ \A i \in 1 .. Len(w) : v[i] = w[i]
  BY <1>1, OneMore
<1> HIDE DEF v
<1>3. Answered(v)
  BY <1>1, <1>2 DEF Answered
<1> QED
  BY <1>3 DEF v

\* Then a call.
LEMMA CallPends ==
  ASSUME NEW w \in Seq(Roles), Answered(w)
  PROVE  Pending(w \o <<"call">>)
<1>1. "call" \in Roles /\ "call" \notin Replies
  BY DEF Roles, Replies
<1> DEFINE v == w \o <<"call">>
<1>2. /\ v \in Seq(Roles) /\ Len(v) = Len(w) + 1 /\ v[Len(w) + 1] = "call"
      /\ \A i \in 1 .. Len(w) : v[i] = w[i]
  BY <1>1, OneMore
<1> HIDE DEF v
<1>3. Pending(v)
  BY <1>1, <1>2 DEF Answered, Pending
<1> QED
  BY <1>3 DEF v

\* And its answer.
LEMMA ReplyAnswers ==
  ASSUME NEW w \in Seq(Roles), Pending(w), NEW a \in Replies
  PROVE  Answered(w \o <<a>>)
<1>1. a \in Roles /\ a # "call"
  BY DEF Roles, Replies
<1> DEFINE v == w \o <<a>>
<1>2. /\ v \in Seq(Roles) /\ Len(v) = Len(w) + 1 /\ v[Len(w) + 1] = a
      /\ \A i \in 1 .. Len(w) : v[i] = w[i]
  BY <1>1, OneMore
<1> HIDE DEF v
<1>3. Len(w) \in Nat \ {0}
  BY DEF Pending
<1>4. ASSUME NEW i \in DOMAIN v, v[i] = "call" PROVE i < Len(v) /\ v[i + 1] \in Replies
  <2>1. i \in DOMAIN w /\ w[i] = "call"
    BY <1>1, <1>2, <1>4
  <2>2. CASE i = Len(w)
    BY <1>2, <2>1, <2>2
  <2>3. CASE i # Len(w)
    <3>1. w[i + 1] \in Replies /\ i + 1 \in 1 .. Len(w)
      BY <2>1, <2>3 DEF Pending
    <3> QED
      BY <1>2, <3>1
  <2> QED
    BY <2>2, <2>3
<1>5. ASSUME NEW i \in DOMAIN v, v[i] \in Replies PROVE i > 1 /\ v[i - 1] = "call"
  <2>1. CASE i = Len(w) + 1
    BY <1>2, <1>3, <2>1 DEF Pending
  <2>2. CASE i # Len(w) + 1
    <3>1. i \in DOMAIN w /\ w[i] \in Replies
      BY <1>2, <1>5, <2>2
    <3>2. i > 1 /\ w[i - 1] = "call" /\ i - 1 \in 1 .. Len(w)
      BY <3>1 DEF Pending
    <3> QED
      BY <1>2, <3>2
  <2> QED
    BY <2>1, <2>2
<1>6. Answered(v)
  BY <1>4, <1>5 DEF Answered
<1> QED
  BY <1>6 DEF v

\* Only an error gives the verifier something to do.
LEMMA OnlyErrorsCheck ==
  ASSUME NEW w \in Seq(Roles), NEW a \in Roles \ {"error"}, ShouldRun(w \o <<a>>)
  PROVE  ShouldRun(w)
<1> DEFINE v == w \o <<a>>
<1>1. /\ Len(v) = Len(w) + 1 /\ v[Len(w) + 1] = a
      /\ \A i \in 1 .. Len(w) : v[i] = w[i]
      /\ DOMAIN v = 1 .. Len(w) + 1
  BY OneMore
<1> HIDE DEF v
<1>2. ShouldRun(v)
  BY DEF v
<1>3. PICK i \in DOMAIN v : /\ v[i] = "error"
                            /\ \A j \in (i + 1) .. Len(v) : v[j] \notin Replies \cup {"verifier"}
  BY <1>2 DEF ShouldRun
<1>4. i \in DOMAIN w /\ w[i] = "error"
  BY <1>1, <1>3
<1>5. \A j \in (i + 1) .. Len(w) : w[j] \notin Replies \cup {"verifier"}
  BY <1>1, <1>3
<1> QED
  BY <1>4, <1>5 DEF ShouldRun

\* A mark takes it away.
LEMMA MarkEndsCheck ==
  ASSUME NEW w \in Seq(Roles), w # <<>> => w[Len(w)] = "verifier"
  PROVE  ~ShouldRun(w)
BY DEF ShouldRun, Replies

\* All that a policy weaves, but calls and their answers.
Woven == {<<>>, <<"plain">>, <<"plain", "plain">>, <<"plain", "verifier">>, <<"verifier">>}

LEMMA WovenKeeps ==
  ASSUME NEW w \in Seq(Roles), NEW added \in Woven
  PROVE  /\ w \o added \in Seq(Roles)
         /\ Answered(w) => Answered(w \o added)
         /\ ShouldRun(w \o added) => ShouldRun(w)
         /\ ~Contains(added, "error")
<1>1. {"plain", "verifier"} \subseteq Roles \ {"error"}
  BY DEF Roles, Replies
<1>2. ASSUME NEW u \in Seq(Roles), NEW a \in {"plain", "verifier"}
      PROVE  /\ u \o <<a>> \in Seq(Roles)
             /\ Answered(u) => Answered(u \o <<a>>)
             /\ ShouldRun(u \o <<a>>) => ShouldRun(u)
  BY <1>1, OneMore, PlainKeepsAnswered, OnlyErrorsCheck
<1>3. CASE added = <<>>
  BY <1>3 DEF Contains
<1>4. ASSUME NEW a \in {"plain", "verifier"}, added = <<a>>
      PROVE  /\ w \o added \in Seq(Roles)
             /\ Answered(w) => Answered(w \o added)
             /\ ShouldRun(w \o added) => ShouldRun(w)
             /\ ~Contains(added, "error")
  BY <1>2, <1>4 DEF Contains
<1>5. ASSUME NEW a \in {"plain", "verifier"}, added = <<"plain", a>>
      PROVE  /\ w \o added \in Seq(Roles)
             /\ Answered(w) => Answered(w \o added)
             /\ ShouldRun(w \o added) => ShouldRun(w)
             /\ ~Contains(added, "error")
  <2>1. w \o added = (w \o <<"plain">>) \o <<a>>
    BY <1>1, <1>5, TwoMore
  <2>2. ~Contains(added, "error")
    BY <1>5 DEF Contains
  <2> QED
    BY <1>2, <2>1, <2>2
<1> QED
  BY <1>3, <1>4, <1>5 DEF Woven

-----------------------------------------------------------------------------
(* The calls *)

LEMMA PointFacts ==
  /\ Within \subseteq Points /\ Lowered \subseteq Points /\ Within \cap Lowered = {}
  /\ Within \subseteq Descended /\ Lowered \subseteq Descended
  /\ Checking \subseteq Deciding /\ Checked \subseteq Deciding /\ Deciding \subseteq Within
  /\ "act" \in Within /\ "act" \notin Deciding /\ "act" \notin Checking
  /\ "entering" \in Lowered /\ "vetting" \in Lowered
  /\ \A pc \in {"setup", "top", "generate", "called", "hook"} : pc \in Points /\ pc \notin Descended
  /\ \A pc \in Descended : pc \notin {"setup", "top", "generate", "called", "hook"}
  /\ \A pc \in Checking : After[pc] \in Checked
  /\ {"setup", "top", "generate", "hook", "vetting"} \cap (Awaiting \cup Deciding) = {}
  /\ "act" \in Awaiting /\ "called" \in Awaiting /\ "entering" \in Awaiting
  /\ Awaiting \cap Deciding = {}
BY DEF Within, Lowered, Descended, Points, Checking, Checked, Deciding, After, Awaiting

LEMMA TopFacts ==
  ASSUME TypeOK, Running
  PROVE  /\ Len(stack) \in Nat \ {0} /\ Top = stack[Len(stack)]
         /\ \A i \in 1 .. Len(stack) : stack[i] \in Frames
         /\ Top \in Frames /\ stack[1] \in Frames
         /\ DOMAIN stack = 1 .. Len(stack)
<1>1. stack \in Seq(Frames) /\ stack # <<>>
  BY DEF TypeOK, Running
<1>2. Len(stack) \in Nat \ {0} /\ \A i \in 1 .. Len(stack) : stack[i] \in Frames
  BY <1>1
<1> QED
  BY <1>1, <1>2 DEF Top

LEMMA BudgetType ==
  ASSUME NEW policy \in Policies, NEW request \in Requests \cup SubRequests, NEW hooked \in BOOLEAN
  PROVE  Frame(policy, request, hooked) \in Frames
<1>1. request[1] \in Int \cup {NoInt} /\ request[2] \in Int \cup {NoInt}
  BY AgentsAssumption
<1>2. \A v \in Int \cup {NoInt} : Coerce(v) \in Nat
  BY AgentsAssumption DEF Coerce, Most
<1>3. \A a, b \in Nat : Least(a, b) \in Nat
  BY DEF Least
<1>4. Coerce(request[1]) \in Nat /\ Coerce(request[2]) \in Nat
  BY <1>1, <1>2
<1> HIDE DEF Coerce, Least
<1>5. Budget(policy, request)[1] \in Nat /\ Budget(policy, request)[2] \in Nat
  <2>1. CASE policy = "llm"
    BY <1>4, <2>1 DEF Budget
  <2>2. CASE policy = "react"
    BY <1>3, <1>4, <2>2, AgentsAssumption DEF Budget
  <2>3. CASE policy = "react_auto"
    BY <1>3, <1>4, <2>3, AgentsAssumption DEF Budget
  <2>4. CASE policy = "react_verifier_llm"
    BY <1>4, <2>4 DEF Budget
  <2> QED
    BY <2>1, <2>2, <2>3, <2>4 DEF Policies
<1>6. "setup" \in Points /\ "nothing" \in Values
  BY DEF Points, Values
<1> QED
  BY <1>5, <1>6 DEF Frame, Frames

\* The frame on top is set.
LEMMA SetTopShape ==
  ASSUME TypeOK, Running, NEW f \in Frames, SetTop(f)
  PROVE  /\ stack' \in Seq(Frames) /\ Len(stack') = Len(stack) /\ Running'
         /\ stack'[Len(stack)] = f
         /\ \A i \in 1 .. Len(stack) - 1 : stack'[i] = stack[i]
<1>1. stack' = [stack EXCEPT ![Len(stack)] = f] /\ stack \in Seq(Frames)
  BY DEF SetTop, TypeOK
<1>2. Len(stack) \in 1 .. Len(stack) /\ Len(stack) \in Nat
  BY TopFacts
<1>3. /\ stack' \in Seq(Frames) /\ Len(stack') = Len(stack)
      /\ stack'[Len(stack)] = f
      /\ \A i \in 1 .. Len(stack) - 1 : stack'[i] = stack[i]
  BY <1>1, <1>2
<1>4. Running'
  BY <1>2, <1>3 DEF Running
<1> QED
  BY <1>3, <1>4

\* The depth is right if the frame on top is in its place and those below it stay.
LEMMA DepthsByTop ==
  ASSUME IInv, stack' \in Seq(Frames), Running', NEW n \in Nat, Len(stack') = n,
         n <= Len(stack) + 1, leaked' = leaked,
         \A i \in 1 .. n - 1 : /\ stack'[i] = stack[i] /\ stack[i].pc \in {"act"} \cup Checking
                               /\ i <= Len(stack),
         InPlace(stack'[n], left', n)
  PROVE  Depths' /\ left' \in Int
<1>1. n \in Nat \ {0} /\ Top' = stack'[n] /\ DOMAIN stack' = 1 .. n
  BY DEF Top, Running
<1>2. stack \in Seq(Frames)
  BY DEF IInv, TypeOK
<1>3. \A i \in 1 .. n - 1 : Holds(stack'[i], i)
  BY <1>2 DEF IInv, Depths
<1>4. \A i \in 1 .. n : Holds(stack'[i], i)
  BY <1>1, <1>3 DEF InPlace
<1>5. (\A i \in DOMAIN stack : Holds(stack[i], i))'
  <2>1. SUFFICES ASSUME NEW i \in 1 .. n PROVE Holds(stack[i], i)'
    BY <1>1
  <2>2. Holds(stack'[i], i)
    BY <1>4
  <2> QED
    BY <2>2 DEF Holds, Fits
<1>6. InPlace(Top, left, Len(stack))'
  BY <1>1 DEF InPlace, Holds, Fits
<1>7. left' \in Int
  BY DEF InPlace
<1>8. (\A i \in 1 .. Len(stack) - 1 : stack[i].pc \in {"act"} \cup Checking)'
  BY DEF Checking
<1>9. (~Running => left = RootDepth - leaked)' /\ (Running => InPlace(Top, left, Len(stack)))'
  BY <1>6
<1> QED
  BY <1>5, <1>7, <1>8, <1>9 DEF Depths

\* A step that sets the frame on top, of the same policy, and lets RETURN be.
LEMMA MoveKeeps ==
  ASSUME IInv, Running, NEW f \in Frames, SetTop(f), f.policy = Top.policy,
         InPlace(f, left', Len(stack)), UNCHANGED <<returnBound, leaked, torn>>
  PROVE  stack' \in Seq(Frames) /\ left' \in Int /\ Depths' /\ ReturnDiesWithCall'
<1>1. TypeOK
  BY DEF IInv
<1>2. /\ stack' \in Seq(Frames) /\ Len(stack') = Len(stack) /\ Running'
      /\ stack'[Len(stack)] = f
      /\ \A i \in 1 .. Len(stack) - 1 : stack'[i] = stack[i]
  BY <1>1, SetTopShape
<1>3. Len(stack) \in Nat \ {0} /\ Top = stack[Len(stack)]
  BY <1>1, TopFacts
<1>4. Depths' /\ left' \in Int
  <2>1. \A i \in 1 .. Len(stack) - 1 : stack[i].pc \in {"act"} \cup Checking
    BY DEF IInv, Depths
  <2> QED
    BY <1>2, <1>3, <2>1, DepthsByTop
<1>5. stack'[1].policy = stack[1].policy
  BY <1>2, <1>3
<1> QED
  BY <1>2, <1>4, <1>5 DEF IInv, ReturnDiesWithCall

\* Where the first call is, when the frame on top is set.
LEMMA MoveAt ==
  ASSUME TypeOK, Running, NEW f \in Frames, SetTop(f)
  PROVE  /\ OnWeave => At = Top.pc /\ At' = f.pc
         /\ ~OnWeave => At' = At
<1>1. Len(stack) \in Nat \ {0} /\ Top = stack[Len(stack)]
  BY TopFacts
<1>2. /\ Running' /\ stack'[Len(stack)] = f
      /\ \A i \in 1 .. Len(stack) - 1 : stack'[i] = stack[i]
  BY SetTopShape
<1>3. At = stack[1].pc /\ At' = stack'[1].pc
  BY <1>2 DEF At
<1>4. CASE OnWeave
  BY <1>1, <1>2, <1>3, <1>4 DEF OnWeave
<1>5. CASE ~OnWeave
  <2>1. Len(stack) # 1
    BY <1>5 DEF OnWeave
  <2>2. Len(stack) > 1
    BY <1>1, <2>1
  <2>3. 1 \in 1 .. Len(stack) - 1
    BY <1>1, <2>2
  <2> QED
    BY <1>2, <1>3, <1>5, <2>3
<1> QED
  BY <1>4, <1>5

LEMMA FrontFacts ==
  ASSUME NEW s \in Seq(Frames), Len(s) \in Nat \ {0}
  PROVE  /\ Front(s) \in Seq(Frames) /\ Len(Front(s)) = Len(s) - 1
         /\ \A i \in 1 .. Len(s) - 1 : Front(s)[i] = s[i]
<1>1. Len(s) - 1 \in Nat /\ 1 .. Len(s) - 1 \subseteq 1 .. Len(s)
  OBVIOUS
<1>2. Front(s) = SubSeq(s, 1, Len(s) - 1)
  BY DEF Front
<1>3. \A i \in 1 .. Len(s) - 1 : s[i] \in Frames
  BY <1>1
<1> DEFINE m == Len(s) - 1
<1>4. m \in Int /\ m >= 0 /\ 1 \in Int /\ \A i \in 1 .. m : s[i] \in Frames
  BY <1>1, <1>3
<1> HIDE DEF m
<1>5. /\ SubSeq(s, 1, m) \in Seq(Frames) /\ Len(SubSeq(s, 1, m)) = m
      /\ \A i \in 1 .. m : SubSeq(s, 1, m)[i] = s[i]
  BY <1>4, SubSeqProperties
<1> QED
  BY <1>2, <1>5 DEF m

\* The call on top returns: the one below goes on where it made it.
LEMMA LeaveShape ==
  ASSUME IInv, Running, NEW how \in Values, Leave(how)
  PROVE  /\ stack' \in Seq(Frames) /\ Len(stack') = Len(stack) - 1
         /\ \A i \in 1 .. Len(stack) - 2 : stack'[i] = stack[i]
         /\ Len(stack) > 1 =>
              /\ stack'[Len(stack) - 1].policy = stack[Len(stack) - 1].policy
              /\ stack'[Len(stack) - 1].saved = stack[Len(stack) - 1].saved
              /\ \/ stack[Len(stack) - 1].pc = "act" /\ stack'[Len(stack) - 1].pc = "act"
                 \/ stack[Len(stack) - 1].pc \in Checking /\ stack'[Len(stack) - 1].pc \in Checked
<1> DEFINE n == Len(stack) - 1
           below == Front(stack)
           f == Last(below)
           g == [f EXCEPT !.got = how, !.pc = After[f.pc]]
<1>1. /\ Len(stack) \in Nat \ {0} /\ stack \in Seq(Frames)
      /\ \A i \in 1 .. Len(stack) : stack[i] \in Frames
  BY TopFacts DEF IInv, TypeOK
<1>2. /\ below \in Seq(Frames) /\ Len(below) = n /\ n \in Nat
      /\ \A i \in 1 .. n : below[i] = stack[i]
  BY <1>1, FrontFacts
<1>3. stack' = IF below # <<>> /\ f.pc \in Checking THEN [below EXCEPT ![n] = g] ELSE below
  BY <1>2 DEF Leave
<1>4. CASE n = 0
  <2>1. below = <<>>
    <3> HIDE DEF below, n
    <3> QED
      BY <1>2, <1>4, EmptySeq
  <2>2. stack' = <<>>
    BY <1>3, <2>1
  <2>3. ~(Len(stack) > 1) /\ \A i \in 1 .. Len(stack) - 2 : FALSE
    <3>1. n \in Nat /\ Len(stack) = n + 1
      BY <1>1
    <3> HIDE DEF n
    <3> QED
      BY <1>4, <3>1
  <2>4. stack' \in Seq(Frames) /\ Len(stack') = n
    BY <1>4, <2>2, EmptySeq
  <2> QED
    BY <2>3, <2>4
<1>5. CASE n # 0
  <2>1. n \in 1 .. n /\ n \in 1 .. Len(stack) - 1 /\ below # <<>> /\ f = stack[n] /\ f \in Frames
    BY <1>1, <1>2, <1>5 DEF Last
  <2>2. stack[n].pc \in {"act"} \cup Checking
    BY <2>1 DEF IInv, Depths
  <2>3. CASE f.pc \in Checking
    <3>1. After[f.pc] \in Checked /\ After[f.pc] \in Points
      BY <2>3, PointFacts
    <3>2. g \in Frames /\ g.policy = f.policy /\ g.saved = f.saved /\ g.pc \in Checked
      BY <2>1, <3>1 DEF Frames
    <3>3. stack' = [below EXCEPT ![n] = g]
      BY <1>3, <2>1, <2>3
    <3> HIDE DEF below, f, g, n
    <3>4. /\ stack' \in Seq(Frames) /\ Len(stack') = n /\ stack'[n] = g
          /\ \A i \in 1 .. n - 1 : stack'[i] = stack[i]
      BY <1>2, <2>1, <3>2, <3>3
    <3>5. /\ stack'[n].policy = stack[n].policy /\ stack'[n].saved = stack[n].saved
          /\ stack[n].pc \in Checking /\ stack'[n].pc \in Checked
      BY <2>1, <2>3, <3>2, <3>4
    <3> QED
      BY <1>1, <3>4, <3>5 DEF n
  <2>4. CASE f.pc \notin Checking
    <3>1. stack' = below /\ stack[n].pc = "act"
      BY <1>3, <2>1, <2>2, <2>4
    <3> QED
      BY <1>1, <1>2, <2>1, <3>1
  <2> QED
    BY <2>3, <2>4
<1> QED
  BY <1>4, <1>5

LEMMA LeaveKeeps ==
  ASSUME IInv, Running, NEW how \in Values, Leave(how), Fits(left', Len(stack)),
         leaked' = leaked, torn' = torn, returnBound' => returnBound,
         OnWeave /\ returnBound' => torn
  PROVE  stack' \in Seq(Frames) /\ left' \in Int /\ Depths' /\ ReturnDiesWithCall'
<1> DEFINE n == Len(stack) - 1
<1>1. /\ stack' \in Seq(Frames) /\ Len(stack') = n
      /\ \A i \in 1 .. n - 1 : stack'[i] = stack[i]
      /\ n > 0 => /\ stack'[n].policy = stack[n].policy /\ stack'[n].saved = stack[n].saved
                  /\ stack[n].pc \in Within /\ stack'[n].pc \in Within
  BY LeaveShape, PointFacts
<1>2. n \in Nat /\ Len(stack) = n + 1 /\ stack \in Seq(Frames)
  BY TopFacts DEF IInv, TypeOK
<1>3. Fits(left', n + 1) /\ left' \in Int
  BY <1>2 DEF Fits
<1> HIDE DEF n
<1>4. CASE n = 0
  <2>1. stack' = <<>>
    BY <1>1, <1>2, <1>4
  <2>2. Len(stack) = 1
    BY <1>2, <1>4
  <2>3. OnWeave
    BY Zenon, <2>2 DEF OnWeave
  <2>4. ~Running'
    BY <2>1 DEF Running
  <2>5. left' = RootDepth - leaked'
    BY <1>3, <1>4 DEF Fits
  <2>6. Depths'
    BY <2>1, <2>4, <2>5 DEF Depths
  <2>7. ReturnDiesWithCall'
    BY <2>3, <2>4 DEF ReturnDiesWithCall
  <2> QED
    BY <1>1, <1>3, <2>6, <2>7
<1>5. CASE n # 0
  <2>1. n \in 1 .. n /\ n \in DOMAIN stack /\ n > 0 /\ n <= Len(stack) + 1
    BY <1>2, <1>5
  <2>2. Running'
    BY <1>1, <2>1 DEF Running
  <2>3. Holds(stack'[n], n)
    BY <1>1, <2>1, PointFacts DEF IInv, Depths, Holds
  <2>4. InPlace(stack'[n], left', n)
    <3>1. left' <= RootDepth - leaked - n
      BY <1>2, <1>3, AgentsAssumption DEF Fits, IInv, TypeOK
    <3> QED
      BY <1>1, <1>3, <2>1, <2>3, <3>1, PointFacts DEF InPlace
  <2>5. \A i \in 1 .. n - 1 : /\ stack'[i] = stack[i] /\ stack[i].pc \in {"act"} \cup Checking
                              /\ i <= Len(stack)
    BY <1>1, <1>2 DEF IInv, Depths
  <2>6. Depths' /\ left' \in Int
    BY <1>1, <1>2, <2>1, <2>2, <2>4, <2>5, DepthsByTop
  <2>7. stack'[1].policy = stack[1].policy
    BY <1>1, <1>2, <2>1
  <2> QED
    BY <1>1, <2>2, <2>6, <2>7 DEF IInv, ReturnDiesWithCall
<1> QED
  BY <1>4, <1>5

\* Where the first call is after a return.
LEMMA LeaveAt ==
  ASSUME IInv, Running, NEW how \in Values, Leave(how)
  PROVE  /\ OnWeave => At = Top.pc /\ At' = "top"
         /\ ~OnWeave => At' = At \/ (At \in Checking /\ At' \in Checked)
<1>1. Len(stack) \in Nat \ {0} /\ Top = stack[Len(stack)] /\ At = stack[1].pc
  BY TopFacts DEF IInv, At
<1>2. stack' \in Seq(Frames) /\ Len(stack') = Len(stack) - 1
  BY LeaveShape
<1>3. CASE OnWeave
  <2>1. stack' = <<>>
    BY <1>2, <1>3 DEF OnWeave
  <2> QED
    BY <1>1, <1>3, <2>1 DEF At, Running, OnWeave
<1>4. CASE ~OnWeave
  <2>1. Len(stack) # 1
    BY <1>4 DEF OnWeave
  <2>2. Len(stack) > 1
    BY <1>1, <2>1
  <2>3. At' = stack'[1].pc
    BY <1>1, <1>2, <2>2 DEF At, Running
  <2>4. stack'[1].pc = stack[1].pc \/ (stack[1].pc \in Checking /\ stack'[1].pc \in Checked)
    <3>1. CASE Len(stack) = 2
      <4>1. Len(stack) - 1 = 1
        BY <3>1
      <4> QED
        BY <2>2, <4>1, LeaveShape
    <3>2. CASE Len(stack) # 2
      <4>1. 1 \in 1 .. Len(stack) - 2
        BY <1>1, <2>2, <3>2
      <4> QED
        BY <4>1, LeaveShape
    <3> QED
      BY <3>1, <3>2
  <2> QED
    BY <1>1, <1>4, <2>3, <2>4
<1> QED
  BY <1>3, <1>4

\* react_auto's `finally` takes away what react_auto bound.
LEMMA DropReturnFacts ==
  ASSUME IInv, Running, NEW how, DropReturn(how)
  PROVE  /\ returnBound' \in BOOLEAN /\ (returnBound' => returnBound)
         /\ OnWeave /\ returnBound' => torn
<1>1. OnWeave => Top = stack[1]
  BY DEF OnWeave, Top
<1> QED
  BY <1>1 DEF DropReturn, IInv, TypeOK, ReturnDiesWithCall

-----------------------------------------------------------------------------
(* The list and where the first call is *)

LEMMA WeaveFacts ==
  ASSUME TypeOK, NEW added \in Seq(Roles), Weave(added)
  PROVE  /\ OnWeave => weave' = weave \o added
         /\ ~OnWeave => weave' = weave /\ errors' = errors
         /\ ~Contains(added, "error") => errors' = errors
         /\ OnWeave /\ Contains(added, "error") => errors' = errors + 1
         /\ weave' \in Seq(Roles) /\ errors' \in Nat
<1>1. weave \in Seq(Roles) /\ errors \in Nat
  BY DEF TypeOK
<1>2. weave \o added \in Seq(Roles)
  BY <1>1
<1> QED
  BY <1>1, <1>2 DEF Weave

\* The first call still waits for an answer or still does not, and no verification begins.
Alike(from, to) ==
  (to \in Awaiting <=> from \in Awaiting) /\ (to \in Deciding => from \in Deciding)

LEMMA SameListKeeps ==
  ASSUME IInv, UNCHANGED <<weave, errors, verified, tainted>>, Alike(At, At')
  PROVE  Parts'
BY DEF IInv, Parts, Shaped, Alike, Uncounted, VerifiedOncePerError

LEMMA WovenParts ==
  ASSUME IInv, NEW added \in Woven, Weave(added), UNCHANGED <<verified, tainted>>, Alike(At, At'),
         OnWeave => At \notin Awaiting
  PROVE  Parts' /\ weave' \in Seq(Roles) /\ errors' \in Nat
<1>1. added \in Seq(Roles) /\ ~Contains(added, "error") /\ TypeOK /\ weave \in Seq(Roles)
  <2>1. {"plain", "verifier"} \subseteq Roles
    BY DEF Roles
  <2>2. added \in Seq(Roles)
    <3>1. \A a, b \in Roles : <<a>> \in Seq(Roles) /\ <<a, b>> \in Seq(Roles)
      OBVIOUS
    <3> QED
      BY <2>1, <3>1, EmptySeq DEF Woven
  <2>3. TypeOK /\ weave \in Seq(Roles)
    BY DEF IInv, TypeOK
  <2> QED
    BY <2>2, <2>3, WovenKeeps
<1>2. weave' \in Seq(Roles) /\ errors' \in Nat /\ errors' = errors
  BY <1>1, WeaveFacts
<1>3. CASE OnWeave
  <2>1. weave' = weave \o added
    BY <1>1, <1>3, WeaveFacts
  <2>2. (Answered(weave) => Answered(weave')) /\ (ShouldRun(weave') => ShouldRun(weave))
    BY <1>1, <2>1, WovenKeeps
  <2> QED
    BY <1>2, <1>3, <2>2 DEF IInv, Parts, Shaped, Alike, Uncounted, VerifiedOncePerError
<1>4. CASE ~OnWeave
  <2>1. weave' = weave
    BY <1>1, <1>4, WeaveFacts
  <2> QED
    BY <1>2, <2>1, SameListKeeps
<1> QED
  BY <1>3, <1>4

-----------------------------------------------------------------------------
(* Steps that set the frame on top *)

LEMMA TopInPlace ==
  ASSUME IInv, Running
  PROVE  InPlace(Top, left, Len(stack)) /\ Top \in Frames /\ Len(stack) \in Nat \ {0}
<1>1. Top = stack[Len(stack)] /\ Len(stack) \in DOMAIN stack /\ Top \in Frames
      /\ Len(stack) \in Nat \ {0}
  BY TopFacts DEF IInv
<1> QED
  BY <1>1 DEF IInv, Depths, InPlace

LEMMA StepByMove ==
  ASSUME IInv, Running, NEW f \in Frames, SetTop(f), f.policy = Top.policy,
         InPlace(f, left', Len(stack)), UNCHANGED <<returnBound, leaked, torn, calls>>,
         tainted' \in BOOLEAN, verified' \in Nat, weave' \in Seq(Roles), errors' \in Nat, Parts'
  PROVE  IInv'
<1>1. stack' \in Seq(Frames) /\ left' \in Int /\ Depths' /\ ReturnDiesWithCall'
  BY MoveKeeps
<1> QED
  BY <1>1 DEF IInv, TypeOK

\* A step that weaves nothing and begins no verification.
LEMMA StepByQuietMove ==
  ASSUME IInv, Running, NEW f \in Frames, SetTop(f), f.policy = Top.policy,
         InPlace(f, left', Len(stack)), Alike(Top.pc, f.pc),
         UNCHANGED <<weave, returnBound, calls, tainted, leaked, torn, errors, verified>>
  PROVE  IInv'
<1>1. Alike(At, At')
  BY MoveAt DEF IInv, Alike
<1>2. Parts'
  BY <1>1, SameListKeeps
<1> QED
  BY <1>2, StepByMove DEF IInv, TypeOK

\* A step that weaves no call and no answer and begins no verification.
LEMMA StepByWovenMove ==
  ASSUME IInv, Running, NEW f \in Frames, SetTop(f), f.policy = Top.policy,
         InPlace(f, left', Len(stack)),
         UNCHANGED <<returnBound, leaked, torn, calls, tainted, verified>>,
         NEW added \in Woven, Weave(added), Alike(Top.pc, f.pc), Top.pc \notin Awaiting
  PROVE  IInv'
<1>1. TypeOK
  BY DEF IInv
<1>2. CASE OnWeave
  <2>1. Alike(At, At') /\ At \notin Awaiting
    BY <1>1, <1>2, MoveAt
  <2>2. Parts' /\ weave' \in Seq(Roles) /\ errors' \in Nat
    BY <2>1, WovenParts
  <2> QED
    BY <2>2, StepByMove DEF IInv, TypeOK
<1>3. CASE ~OnWeave
  <2>1. At' = At
    BY <1>1, <1>3, MoveAt
  <2>2. Alike(At, At')
    BY <2>1 DEF Alike
  <2>3. Parts' /\ weave' \in Seq(Roles) /\ errors' \in Nat
    BY <1>3, <2>2, WovenParts
  <2> QED
    BY <2>3, StepByMove DEF IInv, TypeOK
<1> QED
  BY <1>2, <1>3

\* A step from one point outside of a descend(), and of a call's way, to another.
LEMMA PlainMove ==
  ASSUME NEW n \in Nat, NEW f, InPlace(Top, left, n), left' = left,
         Top.pc \in {"setup", "top", "generate", "hook"},
         f.pc \in {"setup", "top", "generate", "hook"},
         f.saved \in {Top.saved, None}, f.pc = "generate" => left > 0
  PROVE  InPlace(f, left', n) /\ Alike(Top.pc, f.pc) /\ Top.pc \notin Awaiting
<1>1. \A pc \in {"setup", "top", "generate", "hook"} :
        pc \notin Descended /\ pc \notin Lowered /\ pc \notin Within
        /\ pc \notin Awaiting /\ pc \notin Deciding
  BY DEF Descended, Lowered, Within, Deciding, Checking, Checked, Awaiting
<1>2. f.saved = None
  BY <1>1 DEF InPlace, Holds
<1>3. InPlace(f, left', n)
  BY <1>1, <1>2 DEF InPlace, Holds
<1> QED
  BY <1>1, <1>3 DEF Alike

LEMMA QuietIsWoven ==
  ASSUME IInv, UNCHANGED <<weave, errors>>
  PROVE  <<>> \in Woven /\ Weave(<<>>)
<1>1. weave \o <<>> = weave
  BY ConcatEmptySeq DEF IInv, TypeOK
<1> QED
  BY <1>1 DEF Woven, Weave, Contains

LEMMA BeginRoundKeeps ==
  ASSUME IInv, BeginRound
  PROVE  IInv'
<1> DEFINE f == [Top EXCEPT !.pc = "generate"]
           added == IF Top.policy = "react_auto" /\ Top.round = Most(Top.turns - 1, 0)
                      THEN <<"plain">> ELSE <<>>
<1>1. /\ Running /\ Top.pc = "top" /\ left > 0 /\ SetTop(f) /\ Weave(added)
      /\ UNCHANGED <<left, returnBound, calls, tainted, leaked, torn, verified>>
  BY DEF BeginRound, Goto
<1>2. InPlace(Top, left, Len(stack)) /\ Top \in Frames
  BY <1>1, TopInPlace
<1>3. f \in Frames /\ f.policy = Top.policy /\ f.pc = "generate" /\ f.saved = Top.saved
  BY <1>2, PointFacts DEF Frames
<1>4. added \in Woven
  BY DEF Woven
<1> HIDE DEF f, added
<1>5. InPlace(f, left', Len(stack)) /\ Alike(Top.pc, f.pc) /\ Top.pc \notin Awaiting
  BY <1>1, <1>2, <1>3, TopInPlace, PlainMove
<1> QED
  BY <1>1, <1>2, <1>3, <1>4, <1>5, StepByWovenMove

\* The frame that RoundOver sets.
LEMMA RoundOverFrame ==
  ASSUME IInv, Running, RoundOver
  PROVE  \E f \in Frames : /\ SetTop(f) /\ f.policy = Top.policy /\ f.saved = None
                           /\ f.pc \in {"hook", "top"}
<1> DEFINE r == IF Top.hooked THEN Top.round ELSE Top.round + 1
           pc == IF Top.hooked THEN "hook" ELSE "top"
           f == [Top EXCEPT !.saved = None, !.round = r, !.pc = pc]
<1>1. SetTop([Top EXCEPT !.saved = None, !.round = IF Top.hooked THEN @ ELSE @ + 1,
                         !.pc = IF Top.hooked THEN "hook" ELSE "top"])
  BY DEF RoundOver
<1>2. Top \in Frames
  BY TopInPlace
<1>3. [Top EXCEPT !.saved = None, !.round = IF Top.hooked THEN @ ELSE @ + 1,
                  !.pc = IF Top.hooked THEN "hook" ELSE "top"] = f
  BY <1>2 DEF Frames
<1>4. SetTop(f)
  BY <1>1, <1>3
<1>5. Top.round \in Nat
  BY <1>2 DEF Frames
<1>6. r \in Nat /\ pc \in {"hook", "top"} /\ pc \in Points
  BY <1>5, PointFacts
<1> HIDE DEF r, pc
<1>7. f \in Frames /\ f.policy = Top.policy /\ f.saved = None /\ f.pc \in {"hook", "top"}
  BY <1>2, <1>6 DEF Frames
<1> HIDE DEF f
<1> QED
  BY <1>4, <1>7

\* A round without a call is over.
LEMMA IdleRound ==
  ASSUME IInv, Running, Top.pc = "generate", RoundOver, NEW added \in Woven, Weave(added),
         UNCHANGED <<left, returnBound, calls, tainted, leaked, torn, verified>>
  PROVE  IInv'
<1>1. PICK f \in Frames : /\ SetTop(f) /\ f.policy = Top.policy /\ f.saved = None
                          /\ f.pc \in {"hook", "top"}
  BY RoundOverFrame
<1>2. InPlace(Top, left, Len(stack))
  BY TopInPlace
<1>3. InPlace(f, left', Len(stack)) /\ Alike(Top.pc, f.pc) /\ Top.pc \notin Awaiting
  BY <1>1, <1>2, TopInPlace, PlainMove
<1> QED
  BY <1>1, <1>3, StepByWovenMove

LEMMA RejectAnswerKeeps ==
  ASSUME IInv, RejectAnswer
  PROVE  IInv'
<1>1. <<"plain", "plain">> \in Woven
  BY DEF Woven
<1> QED
  BY <1>1, IdleRound DEF RejectAnswer

LEMMA IdleTurnKeeps ==
  ASSUME IInv, NEW turn \in Turns, IdleTurn(turn)
  PROVE  IInv'
<1>1. turn \in Woven
  BY DEF Woven, Turns
<1> QED
  BY <1>1, IdleRound DEF IdleTurn

\* A call is kept: the list waits for its answer.
LEMMA CallTurnKeeps ==
  ASSUME IInv, CallTurn
  PROVE  IInv'
<1> DEFINE f == [Top EXCEPT !.pc = "called"]
<1>1. /\ Running /\ Top.pc = "generate" /\ Weave(<<"call">>) /\ SetTop(f)
      /\ UNCHANGED <<left, returnBound, calls, tainted, leaked, torn, verified>>
  BY DEF CallTurn, Goto
<1>2. InPlace(Top, left, Len(stack)) /\ Top \in Frames /\ TypeOK
  BY <1>1, TopInPlace DEF IInv
<1>3. f \in Frames /\ f.policy = Top.policy /\ f.pc = "called" /\ f.saved = Top.saved
  BY <1>2, PointFacts DEF Frames
<1> HIDE DEF f
<1>4. InPlace(f, left', Len(stack))
  BY <1>1, <1>2, <1>3, PointFacts DEF InPlace, Holds
<1>5. /\ "call" \in Roles \ {"error"} /\ <<"call">> \in Seq(Roles)
      /\ ~Contains(<<"call">>, "error") /\ weave \in Seq(Roles)
  BY DEF Roles, Replies, Contains, IInv, TypeOK
<1>6. weave' \in Seq(Roles) /\ errors' \in Nat /\ errors' = errors
  BY <1>1, <1>2, <1>5, WeaveFacts
<1>7. Parts'
  <2>1. CASE OnWeave
    <3>1. weave' = weave \o <<"call">> /\ At = "generate" /\ At' = "called"
      BY <1>1, <1>2, <1>3, <1>5, <2>1, WeaveFacts, MoveAt
    <3>2. Answered(weave) => Pending(weave')
      BY <1>5, <3>1, CallPends
    <3>3. ShouldRun(weave') => ShouldRun(weave)
      BY <1>5, <3>1, OnlyErrorsCheck
    <3> QED
      BY <1>1, <1>6, <3>1, <3>2, <3>3, PointFacts
         DEF IInv, Parts, Shaped, Uncounted, VerifiedOncePerError
  <2>2. CASE ~OnWeave
    <3>1. weave' = weave /\ At' = At
      BY <1>1, <1>2, <1>3, <1>5, <2>2, WeaveFacts, MoveAt
    <3> QED
      BY <1>1, <1>6, <3>1, SameListKeeps DEF Alike
  <2> QED
    BY <2>1, <2>2
<1> QED
  BY <1>1, <1>3, <1>4, <1>6, <1>7, StepByMove DEF IInv, TypeOK

\* The frame that descend() sets.
LEMMA DescendFrame ==
  ASSUME IInv, Running, Top.pc \notin Descended, NEW pc \in Lowered, Descend(pc), leaked' = leaked
  PROVE  \E f \in Frames : /\ SetTop(f) /\ f.policy = Top.policy /\ f.pc = pc
                           /\ InPlace(f, left', Len(stack))
<1> DEFINE f == [Top EXCEPT !.pc = pc, !.saved = left]
<1>1. InPlace(Top, left, Len(stack)) /\ Top \in Frames /\ left \in Int
  BY TopInPlace DEF IInv, TypeOK
<1>2. SetTop(f) /\ left' = left - 1
  BY DEF Descend
<1>3. f \in Frames /\ f.policy = Top.policy /\ f.pc = pc /\ f.saved = left
  BY <1>1, PointFacts DEF Frames
<1> HIDE DEF f
<1>4. pc \in Descended /\ pc \notin Within /\ pc # "generate"
  BY PointFacts
<1>5. InPlace(f, left', Len(stack))
  BY <1>1, <1>2, <1>3, <1>4 DEF InPlace, Holds
<1> QED
  BY <1>2, <1>3, <1>5

\* The frame that enters the `try`.
LEMMA EnterFrame ==
  ASSUME IInv, Running, Top.pc \in Lowered, NEW pc \in Within, Goto(pc), UNCHANGED <<left, leaked>>
  PROVE  \E f \in Frames : /\ SetTop(f) /\ f.policy = Top.policy /\ f.pc = pc
                           /\ InPlace(f, left', Len(stack))
<1> DEFINE f == [Top EXCEPT !.pc = pc]
<1>1. InPlace(Top, left, Len(stack)) /\ Top \in Frames /\ Len(stack) \in Nat /\ leaked \in Nat
  BY TopInPlace DEF IInv, TypeOK
<1>2. SetTop(f)
  BY DEF Goto
<1>3. f \in Frames /\ f.policy = Top.policy /\ f.pc = pc /\ f.saved = Top.saved
  BY <1>1, PointFacts DEF Frames
<1> HIDE DEF f
<1>4. pc \in Descended /\ pc \notin Lowered /\ pc # "generate" /\ Top.pc \in Descended
  BY PointFacts
<1>5. Fits(Top.saved, Len(stack)) /\ left = Top.saved - 1
  BY <1>1, <1>4 DEF InPlace, Holds
<1>6. left <= RootDepth - leaked - Len(stack)
  BY <1>1, <1>5, AgentsAssumption DEF Fits
<1>7. InPlace(f, left', Len(stack))
  BY <1>1, <1>3, <1>4, <1>5, <1>6 DEF InPlace, Holds
<1> QED
  BY <1>2, <1>3, <1>7

LEMMA CellBeginsKeeps ==
  ASSUME IInv, BeginCell \/ EnterCell
  PROVE  IInv'
<1>1. CASE BeginCell
  <2>1. PICK f \in Frames : /\ SetTop(f) /\ f.policy = Top.policy /\ f.pc = "entering"
                            /\ InPlace(f, left', Len(stack))
    BY <1>1, DescendFrame, PointFacts DEF BeginCell
  <2> QED
    BY <1>1, <2>1, StepByQuietMove, PointFacts DEF BeginCell, Alike
<1>2. CASE EnterCell
  <2>1. PICK f \in Frames : /\ SetTop(f) /\ f.policy = Top.policy /\ f.pc = "act"
                            /\ InPlace(f, left', Len(stack))
    BY <1>2, EnterFrame, PointFacts DEF EnterCell
  <2> QED
    BY <1>2, <2>1, StepByQuietMove, PointFacts DEF EnterCell, Alike
<1> QED
  BY <1>1, <1>2

\* The answer to a call comes: the list is well formed again, and an error more has not
\* been verified.
LEMMA AnsweredParts ==
  ASSUME IInv, Running, NEW reply \in Replies, Weave(<<reply>>),
         UNCHANGED <<tainted, verified>>,
         OnWeave => At \in Awaiting /\ At' \notin Awaiting \cup Deciding, ~OnWeave => Alike(At, At')
  PROVE  Parts' /\ weave' \in Seq(Roles) /\ errors' \in Nat
<1>1. reply \in Roles /\ <<reply>> \in Seq(Roles) /\ weave \in Seq(Roles) /\ TypeOK
  BY DEF Roles, IInv, TypeOK
<1>2. weave' \in Seq(Roles) /\ errors' \in Nat
  BY <1>1, WeaveFacts
<1>3. CASE OnWeave
  <2>1. weave' = weave \o <<reply>>
    BY <1>1, <1>3, WeaveFacts
  <2>2. Pending(weave) => Answered(weave')
    BY <1>1, <2>1, ReplyAnswers
  <2>3. ~tainted => Answered(weave')
    BY <1>3, <2>2 DEF IInv, Parts, Shaped
  <2>4. CASE reply = "error"
    <3>1. Contains(<<reply>>, "error")
      BY <2>4 DEF Contains
    <3>2. errors' = errors + 1
      BY <1>1, <1>3, <3>1, WeaveFacts
    <3> QED
      BY <1>2, <1>3, <2>3, <3>2, PointFacts
         DEF IInv, TypeOK, Parts, Shaped, Uncounted, VerifiedOncePerError
  <2>5. CASE reply # "error"
    <3>1. ~Contains(<<reply>>, "error")
      BY <2>5 DEF Contains
    <3>2. errors' = errors
      BY <1>1, <3>1, WeaveFacts
    <3>3. ShouldRun(weave') => ShouldRun(weave)
      BY <1>1, <2>1, <2>5, OnlyErrorsCheck
    <3> QED
      BY <1>2, <1>3, <2>3, <3>2, <3>3, PointFacts
         DEF IInv, TypeOK, Parts, Shaped, Uncounted, VerifiedOncePerError
  <2> QED
    BY <2>4, <2>5
<1>4. CASE ~OnWeave
  <2>1. weave' = weave /\ errors' = errors
    BY <1>1, <1>4, WeaveFacts
  <2> QED
    BY <1>2, <1>4, <2>1, SameListKeeps
<1> QED
  BY <1>3, <1>4

LEMMA EndCellKeeps ==
  ASSUME IInv, NEW reply \in Replies, EndCell(reply)
  PROVE  IInv'
<1>1. /\ Running /\ Top.pc = "act" /\ left' = Top.saved /\ Weave(<<reply>>) /\ RoundOver
      /\ UNCHANGED <<returnBound, calls, tainted, leaked, torn, verified>>
  BY DEF EndCell
<1>2. PICK f \in Frames : /\ SetTop(f) /\ f.policy = Top.policy /\ f.saved = None
                          /\ f.pc \in {"hook", "top"}
  BY <1>1, RoundOverFrame
<1>3. InPlace(f, left', Len(stack))
  <2>1. Fits(left', Len(stack)) /\ left' \in Int
    BY <1>1, TopInPlace, PointFacts DEF InPlace, Holds, Fits
  <2> QED
    BY <1>2, <2>1, PointFacts DEF InPlace, Holds
<1>4. Parts' /\ weave' \in Seq(Roles) /\ errors' \in Nat
  BY <1>1, <1>2, MoveAt, AnsweredParts, PointFacts DEF IInv, Alike
<1> QED
  BY <1>1, <1>2, <1>3, <1>4, StepByMove DEF IInv, TypeOK

LEMMA RefuseCallKeeps ==
  ASSUME IInv, RefuseCall
  PROVE  IInv'
<1>1. /\ Running /\ Top.pc = "called" /\ Weave(<<"tool">>) /\ RoundOver
      /\ UNCHANGED <<left, returnBound, calls, tainted, leaked, torn, verified>>
  BY DEF RefuseCall
<1>2. PICK f \in Frames : /\ SetTop(f) /\ f.policy = Top.policy /\ f.saved = None
                          /\ f.pc \in {"hook", "top"}
  BY <1>1, RoundOverFrame
<1>3. InPlace(f, left', Len(stack))
  BY <1>1, <1>2, TopInPlace, PointFacts DEF InPlace, Holds
<1>4. "tool" \in Replies
  BY DEF Replies
<1>5. Parts' /\ weave' \in Seq(Roles) /\ errors' \in Nat
  BY <1>1, <1>2, <1>4, MoveAt, AnsweredParts, PointFacts DEF IInv, Alike
<1> QED
  BY <1>1, <1>2, <1>3, <1>5, StepByMove DEF IInv, TypeOK

-----------------------------------------------------------------------------
(* Returns *)

LEMMA StepByLeave ==
  ASSUME IInv, Running, NEW how \in Values, Leave(how), Fits(left', Len(stack)),
         DropReturn(how) \/ (returnBound' = returnBound /\ Top.policy = "llm"),
         UNCHANGED <<leaked, torn, calls, tainted, verified>>,
         Parts', weave' \in Seq(Roles), errors' \in Nat
  PROVE  IInv'
<1>1. OnWeave => Top = stack[1]
  BY DEF OnWeave, Top
<1>2. /\ returnBound' \in BOOLEAN /\ (returnBound' => returnBound)
      /\ OnWeave /\ returnBound' => torn
  <2>1. CASE DropReturn(how)
    BY <2>1, DropReturnFacts
  <2>2. CASE returnBound' = returnBound /\ Top.policy = "llm"
    BY <1>1, <2>2 DEF IInv, TypeOK, ReturnDiesWithCall
  <2> QED
    BY <2>1, <2>2
<1>3. stack' \in Seq(Frames) /\ left' \in Int /\ Depths' /\ ReturnDiesWithCall'
  BY <1>2, LeaveKeeps
<1> QED
  BY <1>2, <1>3 DEF IInv, TypeOK

\* A call returns that is in no descend(), and has no call to answer.
LEMMA OutsideLeaves ==
  ASSUME IInv, Running, NEW how \in Values, Leave(how), Top.pc \notin Awaiting \cup Descended,
         left' = left,
         DropReturn(how) \/ (returnBound' = returnBound /\ Top.policy = "llm"),
         UNCHANGED <<leaked, torn, calls, tainted, verified>>, NEW added \in Woven, Weave(added)
  PROVE  IInv'
<1>1. Fits(left', Len(stack))
  BY TopInPlace DEF InPlace
<1>2. Alike(At, At') /\ (OnWeave => At \notin Awaiting)
  BY LeaveAt, PointFacts DEF Alike
<1>3. Parts' /\ weave' \in Seq(Roles) /\ errors' \in Nat
  BY <1>2, WovenParts
<1> QED
  BY <1>1, <1>3, StepByLeave

LEMMA OpenKeeps ==
  ASSUME IInv, Open
  PROVE  IInv'
<1> DEFINE added == IF Top.policy = "react_auto" /\ Top.turns > 0 THEN <<"plain">> ELSE <<>>
           f == [Top EXCEPT !.pc = "top"]
<1>1. /\ Running /\ Top.pc = "setup" /\ Weave(added)
      /\ UNCHANGED <<left, calls, tainted, leaked, torn, verified>>
      /\ IF left > 0 THEN SetTop(f) /\ UNCHANGED returnBound
                     ELSE Leave("nothing") /\ DropReturn("nothing")
  BY DEF Open, Goto
<1>2. added \in Woven /\ "nothing" \in Values
  BY DEF Woven, Values
<1>3. InPlace(Top, left, Len(stack)) /\ Top \in Frames
  BY <1>1, TopInPlace
<1>4. f \in Frames /\ f.policy = Top.policy /\ f.pc = "top" /\ f.saved = Top.saved
  BY <1>3, PointFacts DEF Frames
<1> HIDE DEF f, added
<1>5. CASE left > 0
  <2>1. InPlace(f, left', Len(stack)) /\ Alike(Top.pc, f.pc) /\ Top.pc \notin Awaiting
    BY <1>1, <1>3, <1>4, TopInPlace, PlainMove
  <2> QED
    BY <1>1, <1>2, <1>3, <1>4, <1>5, <2>1, StepByWovenMove
<1>6. CASE ~(left > 0)
  BY <1>1, <1>2, <1>6, OutsideLeaves, PointFacts
<1> QED
  BY <1>5, <1>6

LEMMA QuietLeavesKeep ==
  ASSUME IInv, Exhaust \/ BackendFails \/ AcceptAnswer
  PROVE  IInv'
<1>1. UNCHANGED <<weave, errors>>
  BY DEF Exhaust, BackendFails, AcceptAnswer
<1>2. <<>> \in Woven /\ Weave(<<>>) /\ "nothing" \in Values /\ "value" \in Values
  BY <1>1, QuietIsWoven DEF Values
<1>3. CASE Exhaust
  BY <1>2, <1>3, OutsideLeaves, PointFacts DEF Exhaust
<1>4. CASE BackendFails
  BY <1>2, <1>4, OutsideLeaves, PointFacts DEF BackendFails
<1>5. CASE AcceptAnswer
  BY <1>2, <1>5, OutsideLeaves, PointFacts DEF AcceptAnswer
<1> QED
  BY <1>3, <1>4, <1>5

LEMMA AcceptKeeps ==
  ASSUME IInv, NEW reply \in Replies, Accept(reply)
  PROVE  IInv'
<1>1. /\ Running /\ Top.pc = "act" /\ left' = Top.saved /\ Weave(<<reply>>)
      /\ Leave("value") /\ DropReturn("value")
      /\ UNCHANGED <<calls, tainted, leaked, torn, verified>>
  BY DEF Accept
<1>2. "value" \in Values
  BY DEF Values
<1>3. Fits(left', Len(stack))
  BY <1>1, TopInPlace, PointFacts DEF InPlace, Holds, Fits
<1>4. OnWeave => At = "act" /\ At' = "top"
  BY <1>1, <1>2, LeaveAt
<1>5. ~OnWeave => Alike(At, At')
  BY <1>1, <1>2, LeaveAt, PointFacts DEF Alike
<1>6. Parts' /\ weave' \in Seq(Roles) /\ errors' \in Nat
  BY <1>1, <1>2, <1>4, <1>5, AnsweredParts, PointFacts
<1> QED
  BY <1>1, <1>2, <1>3, <1>6, StepByLeave

-----------------------------------------------------------------------------
(* base_verifier *)

\* The verifier has returned.
LEMMA HookOverFrame ==
  ASSUME IInv, Running, HookOver
  PROVE  \E f \in Frames : /\ SetTop(f) /\ f.policy = Top.policy /\ f.saved = None
                           /\ f.pc = "top"
<1> DEFINE r == Top.round + 1
           f == [Top EXCEPT !.saved = None, !.round = r, !.pc = "top"]
<1>1. Top \in Frames /\ SetTop(f)
  BY TopInPlace DEF HookOver
<1>2. r \in Nat
  BY <1>1 DEF Frames
<1> HIDE DEF r
<1>3. f \in Frames /\ f.policy = Top.policy /\ f.saved = None /\ f.pc = "top"
  BY <1>1, <1>2, PointFacts DEF Frames
<1> HIDE DEF f
<1> QED
  BY <1>1, <1>3

LEMMA BeginHookKeeps ==
  ASSUME IInv, BeginHook
  PROVE  IInv'
<1>1. PICK f \in Frames : /\ SetTop(f) /\ f.policy = Top.policy /\ f.pc = "vetting"
                          /\ InPlace(f, left', Len(stack))
  BY DescendFrame, PointFacts DEF BeginHook
<1> QED
  BY <1>1, StepByQuietMove, PointFacts DEF BeginHook, Alike

LEMMA SkipCheckKeeps ==
  ASSUME IInv, SkipCheck
  PROVE  IInv'
<1>1. /\ Running /\ Top.pc = "vetting" /\ HookOver /\ left' = Top.saved
      /\ UNCHANGED <<weave, returnBound, calls, tainted, leaked, torn, errors, verified>>
  BY DEF SkipCheck
<1>2. PICK f \in Frames : SetTop(f) /\ f.policy = Top.policy /\ f.saved = None /\ f.pc = "top"
  BY <1>1, HookOverFrame
<1>3. Fits(left', Len(stack)) /\ left' \in Int
  BY <1>1, TopInPlace, PointFacts DEF InPlace, Holds, Fits
<1>4. InPlace(f, left', Len(stack)) /\ Alike(Top.pc, f.pc)
  BY <1>1, <1>2, <1>3, PointFacts DEF InPlace, Holds, Alike
<1> QED
  BY <1>1, <1>2, <1>4, StepByQuietMove

LEMMA BeginCheckKeeps ==
  ASSUME IInv, BeginCheck
  PROVE  IInv'
<1>1. /\ Running /\ Top.pc = "vetting" /\ (OnWeave => ShouldRun(weave)) /\ Goto("note")
      /\ UNCHANGED <<left, weave, returnBound, calls, tainted, leaked, torn, errors, verified>>
  BY DEF BeginCheck
<1>2. "note" \in Deciding /\ TypeOK
  BY DEF Deciding, Checking, IInv
<1>3. PICK f \in Frames : /\ SetTop(f) /\ f.policy = Top.policy /\ f.pc = "note"
                          /\ InPlace(f, left', Len(stack))
  BY <1>1, <1>2, EnterFrame, PointFacts
<1>4. Parts'
  <2>1. CASE OnWeave
    <3>1. At = "vetting" /\ At' = "note" /\ ShouldRun(weave)
      BY <1>1, <1>2, <1>3, <2>1, MoveAt
    <3> QED
      BY <1>1, <1>2, <3>1, PointFacts DEF IInv, Parts, Shaped, Uncounted, VerifiedOncePerError
  <2>2. CASE ~OnWeave
    <3>1. At' = At
      BY <1>1, <1>2, <1>3, <2>2, MoveAt
    <3> QED
      BY <1>1, <3>1, SameListKeeps DEF Alike
  <2> QED
    BY <2>1, <2>2
<1> QED
  BY <1>1, <1>3, <1>4, StepByMove DEF IInv, TypeOK

\* From one circuit of a verifier to the next.
LEMMA StepInCheck ==
  ASSUME IInv, Running, Top.pc \in Deciding, NEW pc \in Deciding, Goto(pc),
         UNCHANGED <<left, returnBound, calls, leaked, torn>>
  PROVE  \E f \in Frames : /\ SetTop(f) /\ f.policy = Top.policy /\ f.pc = pc
                           /\ InPlace(f, left', Len(stack))
<1> DEFINE f == [Top EXCEPT !.pc = pc]
<1>1. InPlace(Top, left, Len(stack)) /\ Top \in Frames
  BY TopInPlace
<1>2. /\ {pc, Top.pc} \subseteq Within /\ pc \in Points /\ pc # "generate"
      /\ {pc, Top.pc} \subseteq Descended /\ pc \notin Lowered
  BY PointFacts
<1>3. f \in Frames /\ f.policy = Top.policy /\ f.pc = pc /\ f.saved = Top.saved
  BY <1>1, <1>2 DEF Frames
<1>4. SetTop(f)
  BY DEF Goto
<1> HIDE DEF f
<1>5. InPlace(f, left', Len(stack))
  BY <1>1, <1>2, <1>3 DEF InPlace, Holds
<1> QED
  BY <1>3, <1>4, <1>5

\* It may weave a note.
LEMMA WovenCheckKeeps ==
  ASSUME IInv, Running, Top.pc \in Deciding, NEW pc \in Deciding, Goto(pc),
         UNCHANGED <<left, returnBound, calls, leaked, torn, tainted, verified>>,
         NEW added \in Woven, Weave(added)
  PROVE  IInv'
<1>1. PICK f \in Frames : /\ SetTop(f) /\ f.policy = Top.policy /\ f.pc = pc
                          /\ InPlace(f, left', Len(stack))
  BY StepInCheck
<1>2. Alike(Top.pc, f.pc) /\ Top.pc \notin Awaiting
  BY <1>1, PointFacts DEF Alike
<1> QED
  BY <1>1, <1>2, StepByWovenMove

LEMMA CheckStepsKeep ==
  ASSUME IInv, (\E yes \in BOOLEAN : TakeNote(yes) \/ TakeProposal(yes)) \/ Reject
  PROVE  IInv'
<1>1. {"mark", "propose", "approve", "noted", "proposed", "approved"} \subseteq Deciding
  BY DEF Deciding, Checking, Checked
<1>2. ASSUME NEW yes \in BOOLEAN, TakeNote(yes) PROVE IInv'
  <2> DEFINE added == IF yes THEN <<"plain", "verifier">> ELSE <<>>
  <2>1. added \in Woven
    BY DEF Woven
  <2>2. Weave(added) /\ Running /\ Top.pc = "noted" /\ Goto("propose")
        /\ UNCHANGED <<left, returnBound, calls, tainted, leaked, torn, verified>>
    BY <1>2 DEF TakeNote
  <2> HIDE DEF added
  <2> QED
    BY <1>1, <2>1, <2>2, WovenCheckKeeps
<1>3. ASSUME NEW yes \in BOOLEAN, TakeProposal(yes) PROVE IInv'
  <2> DEFINE pc == IF yes THEN "approve" ELSE "mark"
  <2>1. /\ Running /\ Top.pc = "proposed" /\ Goto(pc) /\ pc \in Deciding
        /\ UNCHANGED <<left, weave, returnBound, calls, tainted, leaked, torn, errors, verified>>
    BY <1>1, <1>3 DEF TakeProposal
  <2> HIDE DEF pc
  <2> QED
    BY <1>1, <2>1, QuietIsWoven, WovenCheckKeeps
<1>4. CASE Reject
  BY <1>1, <1>4, QuietIsWoven, WovenCheckKeeps DEF Reject
<1> QED
  BY <1>2, <1>3, <1>4

\* A list with a message less is a list.
LEMMA RemoveAtType ==
  ASSUME NEW w \in Seq(Roles), NEW i \in DOMAIN w
  PROVE  RemoveAt(w, i) \in Seq(Roles)
<1>1. Len(w) \in Nat /\ i \in 1 .. Len(w) /\ \A j \in 1 .. Len(w) : w[j] \in Roles
  OBVIOUS
<1>2. SubSeq(w, 1, i - 1) \in Seq(Roles)
  BY <1>1, SubSeqProperties
<1>3. SubSeq(w, i + 1, Len(w)) \in Seq(Roles)
  BY <1>1, SubSeqProperties
<1> QED
  BY <1>2, <1>3 DEF RemoveAt

LEMMA EditKeeps ==
  ASSUME IInv, NEW edited \in Edits, Edit(edited)
  PROVE  IInv'
<1>1. /\ Running /\ Top.pc = "approved" /\ Goto("mark")
      /\ weave' = IF OnWeave THEN Append(edited, "verifier") ELSE weave
      /\ tainted' = (tainted \/ OnWeave)
      /\ UNCHANGED <<left, returnBound, calls, leaked, torn, errors, verified>>
  BY DEF Edit
<1>2. "mark" \in Deciding /\ "approved" \in Deciding /\ "plain" \in Roles /\ "verifier" \in Roles
  BY DEF Deciding, Checked, Roles
<1>3. weave \in Seq(Roles) /\ TypeOK
  BY DEF IInv, TypeOK
<1>4. edited \in Seq(Roles)
  <2>1. Append(weave, "plain") \in Seq(Roles)
    BY <1>2, <1>3
  <2> QED
    BY <1>3, <2>1, RemoveAtType DEF Edits
<1>5. weave' \in Seq(Roles) /\ tainted' \in BOOLEAN
  <2>1. Append(edited, "verifier") \in Seq(Roles)
    BY <1>2, <1>4
  <2> QED
    BY <1>1, <1>3, <2>1 DEF IInv, TypeOK
<1>6. PICK f \in Frames : /\ SetTop(f) /\ f.policy = Top.policy /\ f.pc = "mark"
                          /\ InPlace(f, left', Len(stack))
  BY <1>1, <1>2, StepInCheck
<1>7. Parts'
  <2>1. CASE OnWeave
    <3>1. At = "approved" /\ At' = "mark" /\ tainted'
      BY <1>1, <1>3, <1>6, <2>1, MoveAt
    <3> QED
      BY <1>1, <1>2, <3>1, PointFacts DEF IInv, Parts, Uncounted, VerifiedOncePerError
  <2>2. CASE ~OnWeave
    <3>1. At' = At /\ weave' = weave /\ tainted' = tainted
      BY <1>1, <1>3, <1>6, <2>2, MoveAt DEF IInv, TypeOK
    <3> QED
      BY <1>1, <3>1, SameListKeeps DEF Alike
  <2> QED
    BY <2>1, <2>2
<1> QED
  BY <1>1, <1>5, <1>6, <1>7, StepByMove DEF IInv, TypeOK

LEMMA MarkKeeps ==
  ASSUME IInv, Mark
  PROVE  IInv'
<1> DEFINE added == IF weave # <<>> /\ Last(weave) # "verifier" THEN <<"verifier">> ELSE <<>>
<1>1. /\ Running /\ Top.pc = "mark" /\ left' = Top.saved /\ Weave(added) /\ HookOver
      /\ verified' = IF OnWeave THEN verified + 1 ELSE verified
      /\ UNCHANGED <<returnBound, calls, tainted, leaked, torn>>
  BY DEF Mark
<1>2. added \in Woven /\ weave \in Seq(Roles) /\ TypeOK /\ verified \in Nat /\ errors \in Nat
  BY DEF Woven, IInv, TypeOK
<1>3. added = <<>> \/ added = <<"verifier">>
  OBVIOUS
<1>4. added = <<>> => weave = <<>> \/ weave[Len(weave)] = "verifier"
  BY DEF Last
<1> HIDE DEF added
<1>5. added \in Seq(Roles) /\ ~Contains(added, "error") /\ "verifier" \in Roles
  <2>1. "verifier" \in Roles
    BY DEF Roles
  <2>2. <<"verifier">> \in Seq(Roles)
    BY <2>1
  <2> QED
    BY <1>2, <1>3, <2>1, <2>2, WovenKeeps, EmptySeq
<1>6. weave' \in Seq(Roles) /\ errors' \in Nat /\ errors' = errors
  BY <1>1, <1>2, <1>5, WeaveFacts
<1>7. PICK f \in Frames : SetTop(f) /\ f.policy = Top.policy /\ f.saved = None /\ f.pc = "top"
  BY <1>1, HookOverFrame
<1>8. "mark" \in Deciding /\ "mark" \in Within /\ "top" \notin Deciding
  BY PointFacts DEF Deciding
<1>9. InPlace(f, left', Len(stack))
  <2>1. Fits(left', Len(stack)) /\ left' \in Int
    BY <1>1, <1>8, TopInPlace, PointFacts DEF InPlace, Holds, Fits
  <2> QED
    BY <1>7, <2>1, PointFacts DEF InPlace, Holds
<1>10. Parts'
  <2>1. CASE OnWeave
    <3>1. weave' = weave \o added /\ At = "mark" /\ At' = "top" /\ verified' = verified + 1
      BY <1>1, <1>2, <1>5, <1>7, <2>1, WeaveFacts, MoveAt
    <3>2. Answered(weave) => Answered(weave')
      BY <1>2, <3>1, WovenKeeps
    <3>3. weave' # <<>> => weave'[Len(weave')] = "verifier"
      <4>1. CASE added = <<>>
        BY <1>2, <1>4, <3>1, <4>1, ConcatEmptySeq
      <4>2. CASE added = <<"verifier">>
        BY <1>2, <1>5, <3>1, <4>2, OneMore
      <4> QED
        BY <1>3, <4>1, <4>2
    <3>4. ~ShouldRun(weave')
      BY <1>6, <3>3, MarkEndsCheck
    <3>5. verified + 1 <= errors
      BY <1>2, <1>8, <3>1 DEF IInv, Parts, Uncounted
    <3> QED
      BY <1>1, <1>6, <1>8, <3>1, <3>2, <3>4, <3>5, PointFacts
         DEF IInv, Parts, Shaped, Uncounted, VerifiedOncePerError
  <2>2. CASE ~OnWeave
    <3>1. weave' = weave /\ At' = At /\ verified' = verified
      BY <1>1, <1>2, <1>5, <1>7, <2>2, WeaveFacts, MoveAt
    <3> QED
      BY <1>1, <1>6, <3>1, SameListKeeps DEF Alike
  <2> QED
    BY <2>1, <2>2
<1> QED
  BY <1>1, <1>2, <1>6, <1>7, <1>9, <1>10, StepByMove DEF IInv, TypeOK

-----------------------------------------------------------------------------
(* Calls and interrupts *)

LEMMA CallKeeps ==
  ASSUME IInv, NEW policy \in Policies, NEW request \in Requests, NEW hooked \in BOOLEAN,
         Call(policy, request, hooked)
  PROVE  IInv'
<1> DEFINE f == Frame(policy, request, hooked)
<1>1. /\ ~Running /\ Admits(policy) /\ calls' = calls + 1 /\ stack' = <<f>>
      /\ returnBound' = (returnBound \/ policy = "react_auto")
      /\ UNCHANGED <<left, weave, tainted, leaked, torn, errors, verified>>
  BY DEF Call
<1>2. f \in Frames /\ f.policy = policy /\ f.pc = "setup" /\ f.saved = None
  BY BudgetType DEF Frame
<1> HIDE DEF f
<1>3. /\ stack' \in Seq(Frames) /\ stack' # <<>> /\ Len(stack') = 1 /\ stack'[1] = f
      /\ DOMAIN stack' = 1 .. 1
  BY <1>1, <1>2
<1>4. TypeOK'
  BY <1>1, <1>3 DEF IInv, TypeOK
<1>5. left = RootDepth - leaked /\ stack = <<>> /\ leaked \in Nat
  BY <1>1 DEF IInv, TypeOK, Depths, Running
<1>6. Running' /\ Top' = f
  BY <1>3 DEF Running, Top
<1>7. Depths'
  <2>1. \A i \in DOMAIN stack' : i = 1 /\ stack'[i] = f
    BY <1>3
  <2>2. f.pc \notin Descended /\ f.pc \notin Within /\ f.pc \notin Lowered /\ f.pc # "generate"
    BY <1>2, PointFacts
  <2>3. \A i \in 1 .. Len(stack') - 1 : FALSE
    BY <1>3
  <2>4. Fits(left, 1)' /\ left' \in Int
    BY <1>1, <1>5, AgentsAssumption DEF Fits
  <2>5. InPlace(f, left, 1)' /\ Holds(f, 1)'
    BY <1>2, <2>2, <2>4 DEF InPlace, Holds
  <2>6. InPlace(Top, left, Len(stack))'
    BY <1>3, <1>6, <2>5
  <2>7. \A i \in DOMAIN stack' : Holds(stack[i], i)'
    BY <1>3, <2>5
  <2> QED
    BY <1>6, <2>3, <2>6, <2>7 DEF Depths
<1>8. ReturnDiesWithCall'
  BY <1>1, <1>2, <1>3, <1>6 DEF IInv, ReturnDiesWithCall, Admits
<1>9. Parts'
  <2>1. At = "top" /\ At' = "setup"
    BY <1>1, <1>2, <1>3, <1>6 DEF At
  <2> QED
    BY <1>1, <2>1, SameListKeeps, PointFacts DEF Alike
<1> QED
  BY <1>4, <1>7, <1>8, <1>9 DEF IInv

LEMMA SubCallKeeps ==
  ASSUME IInv, NEW policy \in Policies, NEW request \in SubRequests, NEW hooked \in BOOLEAN,
         SubCall(policy, request, hooked)
  PROVE  IInv'
<1> DEFINE f == Frame(policy, request, hooked)
           n == Len(stack) + 1
<1>1. /\ Running /\ Top.pc \in {"act"} \cup Checking /\ stack' = Append(stack, f)
      /\ UNCHANGED <<left, weave, returnBound, calls, tainted, leaked, torn, errors, verified>>
  BY DEF SubCall
<1>2. f \in Frames /\ f.policy = policy /\ f.pc = "setup" /\ f.saved = None
  BY BudgetType DEF Frame
<1> HIDE DEF f
<1>3. stack \in Seq(Frames) /\ Len(stack) \in Nat \ {0} /\ Top = stack[Len(stack)]
  BY <1>1, TopFacts DEF IInv, TypeOK
<1>4. /\ stack' \in Seq(Frames) /\ Len(stack') = n /\ stack'[n] = f /\ n \in Nat
      /\ \A i \in 1 .. n - 1 : stack'[i] = stack[i]
      /\ n <= Len(stack) + 1
  BY <1>1, <1>2, <1>3
<1>5. Running'
  BY <1>3, <1>4 DEF Running
<1>6. \A i \in 1 .. n - 1 : stack[i].pc \in {"act"} \cup Checking /\ i <= Len(stack)
  BY <1>1, <1>3 DEF IInv, Depths
<1>7. InPlace(f, left', n)
  <2>1. left <= RootDepth - leaked - Len(stack) /\ left \in Int /\ leaked \in Nat
    BY <1>1, TopInPlace, PointFacts DEF InPlace, IInv, TypeOK
  <2>2. Fits(left', n) /\ left' \in Int
    BY <1>1, <1>3, <2>1, AgentsAssumption DEF Fits
  <2> QED
    BY <1>2, <2>2, PointFacts DEF InPlace, Holds
<1> HIDE DEF n
<1>8. Depths' /\ left' \in Int
  BY <1>1, <1>4, <1>5, <1>6, <1>7, DepthsByTop
<1>9. stack'[1] = stack[1]
  BY <1>1, <1>3
<1>10. ReturnDiesWithCall'
  BY <1>1, <1>5, <1>9 DEF IInv, ReturnDiesWithCall
<1>11. Parts'
  <2>1. At' = At
    BY <1>1, <1>5, <1>9 DEF At
  <2> QED
    BY <1>1, <2>1, SameListKeeps DEF Alike
<1> QED
  BY <1>1, <1>4, <1>8, <1>10, <1>11 DEF IInv, TypeOK

\* What an interrupt cuts is the first call that no cell below catches it for.
LEMMA InterruptKeeps ==
  ASSUME IInv, Running, NEW keep \in Catchers, Interrupt(keep)
  PROVE  IInv'
<1> DEFINE cut == stack[keep + 1]
<1>1. /\ stack' = SubSeq(stack, 1, keep)
      /\ left' = IF cut.pc \in Within THEN cut.saved ELSE left
      /\ leaked' = IF keep = 0 /\ cut.pc \in Lowered THEN leaked + 1 ELSE leaked
      /\ returnBound' = (returnBound /\ ~(/\ keep = 0 /\ cut.pc # "setup"
                                         /\ cut.policy = "react_auto"))
      /\ torn' = (torn \/ (keep = 0 /\ cut.pc = "setup" /\ cut.policy = "react_auto"))
      /\ tainted' = (tainted \/ (keep = 0 /\ cut.pc \in Awaiting))
      /\ UNCHANGED <<weave, calls, errors, verified>>
  BY DEF Interrupt, Awaiting
<1>2. /\ Len(stack) \in Nat \ {0} /\ Top = stack[Len(stack)] /\ stack \in Seq(Frames)
      /\ \A i \in 1 .. Len(stack) : stack[i] \in Frames
  BY TopFacts DEF IInv, TypeOK
<1>3. keep \in Nat /\ keep < Len(stack) /\ (keep # 0 => stack[keep].pc = "act")
  BY <1>2 DEF Catchers
<1>4. /\ stack' \in Seq(Frames) /\ Len(stack') = keep
      /\ \A i \in 1 .. keep : stack'[i] = stack[i]
  <2>1. keep \in Int /\ 1 \in Int /\ \A i \in 1 .. keep : stack[i] \in Frames
    BY <1>2, <1>3
  <2>2. /\ SubSeq(stack, 1, keep) \in Seq(Frames)
        /\ Len(SubSeq(stack, 1, keep)) = IF 1 <= keep THEN keep - 1 + 1 ELSE 0
        /\ \A i \in 1 .. keep - 1 + 1 : SubSeq(stack, 1, keep)[i] = stack[1 + i - 1]
    BY <2>1, SubSeqProperties
  <2>3. \A i \in 1 .. keep : stack'[i] = stack[i]
    <3>1. \A i \in 1 .. keep : SubSeq(stack, 1, keep)[i] = stack[i]
      BY <1>3, <2>2
    <3> QED
      BY <1>1, <3>1
  <2>4. Len(stack') = keep
    BY <1>1, <1>3, <2>2
  <2> QED
    BY <1>1, <2>2, <2>3, <2>4
<1>5. /\ keep # 0 => left' <= RootDepth - leaked - keep
      /\ keep = 0 => left' = RootDepth - leaked'
      /\ left' \in Int /\ leaked \in Nat /\ leaked' \in Nat
  <2>1. keep + 1 \in DOMAIN stack /\ keep + 1 \in 1 .. Len(stack) /\ leaked \in Nat
    BY <1>2, <1>3 DEF IInv, TypeOK
  <2>2. leaked' \in Nat
    <3>1. leaked' = leaked \/ leaked' = leaked + 1
      BY <1>1
    <3> HIDE DEF cut
    <3> QED
      BY <2>1, <3>1
  <2>3. CASE cut.pc \in Within
    <3>1. Fits(cut.saved, keep + 1) /\ cut.pc \notin Lowered
      BY <2>1, <2>3, PointFacts DEF IInv, Depths, Holds
    <3>2. left' = cut.saved /\ leaked' = leaked
      BY <1>1, <2>3, <3>1
    <3> QED
      BY <1>3, <2>1, <2>2, <3>1, <3>2, AgentsAssumption DEF Fits
  <2>4. CASE cut.pc \notin Within
    <3>1. keep + 1 = Len(stack)
      <4>1. keep + 1 \notin 1 .. Len(stack) - 1
        BY <2>4, PointFacts DEF IInv, Depths
      <4> QED
        BY <1>2, <1>3, <4>1
    <3>2. cut = Top /\ left' = left /\ InPlace(cut, left, keep + 1)
      BY <1>1, <1>2, <2>4, <3>1, TopInPlace
    <3>3. CASE cut.pc \in Lowered
      <4>1. left = cut.saved - 1 /\ Fits(cut.saved, keep + 1)
        BY <3>2, <3>3, PointFacts DEF InPlace, Holds
      <4> QED
        BY <1>1, <1>3, <2>1, <2>2, <3>2, <3>3, <4>1, AgentsAssumption DEF Fits
    <3>4. CASE cut.pc \notin Lowered
      <4>1. Fits(left, keep + 1)
        BY <2>4, <3>2, <3>4 DEF InPlace, Descended
      <4> QED
        BY <1>1, <1>3, <2>1, <2>2, <3>2, <3>4, <4>1, AgentsAssumption DEF Fits
    <3> QED
      BY <3>3, <3>4
  <2> QED
    BY <2>3, <2>4
<1>6. /\ returnBound' \in BOOLEAN /\ torn' \in BOOLEAN /\ tainted' \in BOOLEAN
  BY <1>1 DEF IInv, TypeOK
<1> HIDE DEF cut
<1>7. TypeOK'
  BY <1>1, <1>4, <1>5, <1>6 DEF IInv, TypeOK
<1>8. CASE keep = 0
  <2>1. stack' = <<>> /\ ~Running'
    BY <1>4, <1>8, EmptySeq DEF Running
  <2>2. left' = RootDepth - leaked'
    BY <1>5, <1>8
  <2>3. Depths'
    BY <1>4, <1>8, <2>1, <2>2 DEF Depths
  <2>4. cut = stack[1]
    BY <1>8 DEF cut
  <2>5. ReturnDiesWithCall'
    BY <1>1, <1>8, <2>1, <2>4 DEF IInv, ReturnDiesWithCall
  <2>6. At = cut.pc /\ At' = "top"
    BY <2>1, <2>4 DEF At
  <2>7. Parts'
    BY <1>1, <1>8, <2>6, PointFacts DEF IInv, Parts, Shaped, Uncounted, VerifiedOncePerError
  <2> QED
    BY <1>7, <2>3, <2>5, <2>7 DEF IInv
<1>9. CASE keep # 0
  <2>1. Running' /\ stack'[1] = stack[1] /\ stack'[keep] = stack[keep]
    BY <1>3, <1>4, <1>9 DEF Running
  <2>2. InPlace(stack'[keep], left', keep)
    <3>1. keep \in DOMAIN stack /\ stack[keep].pc = "act"
      BY <1>2, <1>3, <1>9
    <3>2. Holds(stack[keep], keep)
      BY <3>1 DEF IInv, Depths
    <3> QED
      BY <1>5, <1>9, <2>1, <3>1, <3>2, PointFacts DEF InPlace
  <2>3. \A i \in 1 .. keep - 1 : /\ stack'[i] = stack[i] /\ stack[i].pc \in {"act"} \cup Checking
                                 /\ i <= Len(stack)
    BY <1>2, <1>3, <1>4 DEF IInv, Depths
  <2>4. Depths'
    BY <1>1, <1>3, <1>4, <1>9, <2>1, <2>2, <2>3, DepthsByTop
  <2>5. returnBound' = returnBound /\ torn' = torn /\ tainted' = tainted
    BY <1>1, <1>9 DEF IInv, TypeOK
  <2>6. ReturnDiesWithCall'
    BY <2>1, <2>5 DEF IInv, ReturnDiesWithCall
  <2>7. At' = At
    BY <2>1 DEF At
  <2>8. Parts'
    BY <1>1, <2>5, <2>7, SameListKeeps DEF Alike
  <2> QED
    BY <1>7, <2>4, <2>6, <2>8 DEF IInv
<1> QED
  BY <1>8, <1>9

\* The caller's own doings, and no step.
LEMMA CallerKeeps ==
  ASSUME IInv, (\E policy \in Policies : Refuse(policy)) \/ Prune \/ UNCHANGED vars
  PROVE  IInv'
<1>1. /\ UNCHANGED <<left, stack, weave, tainted, leaked, errors, verified>> /\ calls' \in Nat
      /\ returnBound' \in BOOLEAN /\ torn' \in BOOLEAN
      /\ (returnBound' = returnBound /\ torn' = torn) \/ ~returnBound'
  <2>1. calls \in Nat /\ returnBound \in BOOLEAN /\ torn \in BOOLEAN
    BY DEF IInv, TypeOK
  <2>2. CASE \E policy \in Policies : Refuse(policy)
    BY <2>1, <2>2 DEF Refuse
  <2>3. CASE Prune
    BY <2>1, <2>3 DEF Prune
  <2>4. CASE UNCHANGED vars
    BY <2>1, <2>4 DEF vars
  <2> QED
    BY <2>2, <2>3, <2>4
<1>2. TypeOK' /\ Depths' /\ ReturnDiesWithCall'
  BY <1>1 DEF IInv, TypeOK, Depths, ReturnDiesWithCall, Running, Top, Holds, Fits, InPlace
<1>3. At' = At
  BY <1>1 DEF At, Running
<1>4. Parts'
  BY <1>1, <1>3, SameListKeeps DEF Alike
<1> QED
  BY <1>2, <1>4 DEF IInv

-----------------------------------------------------------------------------
(* The theorems *)

LEMMA InitHolds == Init => IInv
<1> SUFFICES ASSUME Init PROVE IInv
  OBVIOUS
<1>1. stack = <<>> /\ weave = <<>> /\ ~Running /\ At = "top"
  BY DEF Init, Running, At
<1>2. TypeOK
  <2>1. stack \in Seq(Frames) /\ weave \in Seq(Roles)
    BY <1>1, EmptySeq
  <2>2. left \in Int /\ calls \in Nat /\ errors \in Nat /\ verified \in Nat
    BY AgentsAssumption DEF Init
  <2>3. returnBound \in BOOLEAN /\ tainted \in BOOLEAN /\ leaked \in Nat /\ torn \in BOOLEAN
    BY DEF Init
  <2> QED
    BY <2>1, <2>2, <2>3 DEF TypeOK
<1>3. Depths /\ ReturnDiesWithCall
  BY <1>1, AgentsAssumption DEF Init, Depths, ReturnDiesWithCall
<1>4. Parts
  BY <1>1, PointFacts
     DEF Init, Parts, Shaped, Answered, Uncounted, ShouldRun, VerifiedOncePerError, Deciding,
         Checking, Checked
<1> QED
  BY <1>2, <1>3, <1>4 DEF IInv

LEMMA ProgressKeeps ==
  ASSUME IInv, Progress
  PROVE  IInv'
<1>1. CASE \/ Open \/ BeginRound \/ Exhaust \/ BackendFails \/ AcceptAnswer
           \/ RejectAnswer \/ CallTurn \/ RefuseCall \/ BeginCell \/ EnterCell
  BY <1>1, OpenKeeps, BeginRoundKeeps, QuietLeavesKeep, RejectAnswerKeeps, CallTurnKeeps,
     RefuseCallKeeps, CellBeginsKeeps
<1>2. CASE \E turn \in Turns : IdleTurn(turn)
  BY <1>2, IdleTurnKeeps
<1>3. CASE BeginHook \/ SkipCheck \/ BeginCheck \/ Mark
  BY <1>3, BeginHookKeeps, SkipCheckKeeps, BeginCheckKeeps, MarkKeeps
<1>4. CASE Reject \/ \E yes \in BOOLEAN : TakeNote(yes) \/ TakeProposal(yes)
  BY <1>4, CheckStepsKeep
<1>5. CASE \E edited \in Edits : Edit(edited)
  BY <1>5, EditKeeps
<1>6. CASE \E request \in SubRequests : SubCall("react_auto", request, FALSE)
  BY <1>6, SubCallKeeps DEF Policies
<1> QED
  BY <1>1, <1>2, <1>3, <1>4, <1>5, <1>6 DEF Progress

LEMMA StepKeeps == IInv /\ [Next]_vars => IInv'
<1> SUFFICES ASSUME IInv, [Next]_vars PROVE IInv'
  OBVIOUS
<1>1. CASE Progress
  BY <1>1, ProgressKeeps
<1>2. CASE \E level \in 1 .. Len(stack) : CellEnds(level)
  BY <1>2, AcceptKeeps, EndCellKeeps DEF CellEnds
<1>3. ASSUME NEW policy \in Policies, NEW hooked \in BOOLEAN, NEW request \in Requests,
             Call(policy, request, hooked)
      PROVE  IInv'
  BY <1>3, CallKeeps
<1>4. ASSUME NEW policy \in Policies, NEW hooked \in BOOLEAN, NEW request \in SubRequests,
             SubCall(policy, request, hooked)
      PROVE  IInv'
  BY <1>4, SubCallKeeps
<1>5. CASE (\E policy \in Policies : Refuse(policy)) \/ Prune \/ AllDone \/ UNCHANGED vars
  BY <1>5, CallerKeeps DEF AllDone
<1>6. CASE Running /\ \E keep \in Catchers : Interrupt(keep)
  BY <1>6, InterruptKeeps
<1> QED
  BY <1>1, <1>2, <1>3, <1>4, <1>5, <1>6 DEF Next

\* The parts of the invariant hold together, for all budgets and any depth of the root.
THEOREM Inductive == Spec => []IInv
<1>1. Init => IInv
  BY InitHolds
<1>2. IInv /\ [Next]_vars => IInv'
  BY StepKeeps
<1> QED
  BY <1>1, <1>2, PTL DEF Spec

\* The variables hold what they should.
THEOREM TypeCorrect == Spec => []TypeOK
<1>1. IInv => TypeOK
  BY DEF IInv
<1> QED
  BY <1>1, Inductive, PTL

\* No request is made deeper than the root allows, and every way out of a call gives the
\* depth back, however deep agents, cells and verifiers nest; an interrupt that comes
\* before the `try` of a descend(), and that no cell catches, takes one level for good.
THEOREM DepthAlwaysKept == Spec => []DepthKept
<1>1. ASSUME IInv, NEW i \in DOMAIN stack, stack[i].pc = "generate"
      PROVE  i <= RootDepth - leaked
  <2>1. Running /\ i \in 1 .. Len(stack) /\ leaked \in Nat
    BY <1>1 DEF Running, IInv, TypeOK
  <2>2. i \notin 1 .. Len(stack) - 1
    BY <1>1 DEF IInv, Depths, Checking
  <2>3. Len(stack) \in Nat \ {0} /\ Top = stack[Len(stack)]
    BY <1>1, <2>1, TopFacts DEF IInv
  <2>4. i = Len(stack)
    BY <2>1, <2>2, <2>3
  <2>5. left > 0 /\ Fits(left, i)
    BY <1>1, <2>1, <2>3, <2>4, TopInPlace, PointFacts DEF InPlace
  <2> QED
    BY <2>1, <2>5, AgentsAssumption DEF Fits
<1>2. IInv => (~Running => left = RootDepth - leaked)
  BY DEF IInv, Depths
<1>3. IInv => DepthKept
  BY <1>1, <1>2 DEF DepthKept
<1> QED
  BY <1>3, Inductive, PTL

\* RETURN does not outlive react_auto's call, but for an interrupt before its `try`.
THEOREM ReturnAlwaysDies == Spec => []ReturnDiesWithCall
<1>1. IInv => ReturnDiesWithCall
  BY DEF IInv
<1> QED
  BY <1>1, Inductive, PTL

\* The backend sees well-formed lists, whatever works on them, in whatever order.
THEOREM ListsWellFormed == Spec => []UnansweredOnlyByInterrupt
<1>1. IInv => UnansweredOnlyByInterrupt
  BY DEF IInv, Parts, Shaped, At, Awaiting, UnansweredOnlyByInterrupt
<1> QED
  BY <1>1, Inductive, PTL

\* No error is verified twice.
THEOREM ErrorsVerifiedOnce == Spec => []VerifiedOncePerError
<1>1. IInv => VerifiedOncePerError
  BY DEF IInv, Parts
<1> QED
  BY <1>1, Inductive, PTL

=============================================================================

------------------------ MODULE KernelSessionProofs -------------------------
(***************************************************************************)
(* Proofs about KernelSession.  First, every step keeps TypeOK and Bounds; *)
(* TypeOK is split by kind of variable, because a leaf with a few goals    *)
(* over many actions is quick where one with many goals is not.  Then,     *)
(* every step keeps the rest of IInv, so IInv is inductive, and from it    *)
(* the theorems: ReplyAnswersCell, RerunLeavesNoTrace and AcceptIsWoken    *)
(* for every number of calls.                                              *)
(***************************************************************************)
EXTENDS KernelSession, TLAPS

-----------------------------------------------------------------------------
(* Sequences: appending, taking the head off, being empty or single. *)

\* Append puts one element after the ones that were there.
LEMMA AppendFacts ==
  ASSUME NEW S, NEW s \in Seq(S), NEW e \in S
  PROVE  /\ Append(s, e) \in Seq(S)
         /\ DOMAIN Append(s, e) = 1 .. Len(s) + 1
         /\ DOMAIN s = 1 .. Len(s) /\ Len(s) \in Nat
         /\ Len(Append(s, e)) = Len(s) + 1
         /\ \A i \in DOMAIN s : Append(s, e)[i] = s[i]
         /\ Append(s, e)[Len(s) + 1] = e
  OBVIOUS

\* Tail moves every element but the first one place down.
LEMMA TailFacts ==
  ASSUME NEW S, NEW s \in Seq(S), s # <<>>
  PROVE  /\ Head(s) \in S /\ Head(s) = s[1]
         /\ Tail(s) \in Seq(S)
         /\ DOMAIN s = 1 .. Len(s) /\ Len(s) \in Nat \ {0}
         /\ DOMAIN Tail(s) = 1 .. Len(s) - 1
         /\ Len(Tail(s)) = Len(s) - 1
         /\ \A i \in DOMAIN Tail(s) : i + 1 \in DOMAIN s /\ Tail(s)[i] = s[i + 1]
  OBVIOUS

\* The empty sequence is the one of length 0.
LEMMA EmptyFacts ==
  ASSUME NEW S, NEW s \in Seq(S)
  PROVE  /\ s = <<>> <=> Len(s) = 0
         /\ <<>> \in Seq(S) /\ Len(<<>>) = 0 /\ DOMAIN <<>> = {}
  OBVIOUS

\* The empty sequence is a sequence over any set.
LEMMA EmptySeq ==
  ASSUME NEW S
  PROVE  <<>> \in Seq(S)
  OBVIOUS

\* A sequence of at most one element that is not empty is its head.
LEMMA Single ==
  ASSUME NEW S, NEW s \in Seq(S), s # <<>>, Len(s) <= 1
  PROVE  Tail(s) = <<>> /\ DOMAIN s = {1} /\ Head(s) = s[1] /\ s[1] \in S
<1>1. Len(s) \in Nat \ {0}
  BY EmptyFacts
<1>2. Len(s) = 1
  BY <1>1
<1>3. DOMAIN s = {1}
  BY <1>2
<1>4. Tail(s) \in Seq(S) /\ Len(Tail(s)) = 0
  BY <1>2
<1>5. Tail(s) = <<>>
  BY <1>4, EmptyFacts
<1>6. Head(s) = s[1] /\ s[1] \in S
  BY TailFacts
<1>7. QED
  BY <1>3, <1>5, <1>6

-----------------------------------------------------------------------------
(* Frames and their fields. *)

\* A frame built of fields of the right kinds is an answer.
LEMMA FrameType ==
  ASSUME NEW t \in {"ready", "boot_error", "result", "return", "unreadable"},
         NEW n \in 0 .. MaxCells, NEW h \in {"none", "done", "cut", "refused"},
         NEW s \in State
  PROVE  Frame(t, n, h, s) \in Answers
  BY DEF Frame, Answers

\* The fields of an answer.
LEMMA AnswerField ==
  ASSUME NEW f \in Answers
  PROVE  f.snap \in State /\ f.cell \in 0 .. MaxCells
  BY DEF Answers

\* The fields of a request.
LEMMA RequestField ==
  ASSUME NEW f \in Requests
  PROVE  f.type \in {"code", "rehydrate", "shutdown"} /\ f.cell \in 0 .. MaxCells
  BY DEF Requests

-----------------------------------------------------------------------------
(* The parts of TypeOK. *)

TypeNames ==
  /\ lock \in {"free", "worker", "closer"}
  /\ listener \in {"none", "private", "exposed", "shut"}
  /\ wpc \in WorkerPc
  /\ cpc \in CloserPc
  /\ kpc \in KernelPc
  /\ result \in {"result", "return", "cut"}

TypeFlags ==
  /\ closed \in BOOLEAN
  /\ pipe \in BOOLEAN
  /\ note \in BOOLEAN
  /\ pre \in BOOLEAN
  /\ grace \in BOOLEAN
  /\ got \in BOOLEAN
  /\ dialled \in BOOLEAN
  /\ armed \in BOOLEAN
  /\ pending \in BOOLEAN
  /\ told \in BOOLEAN

TypeNumbers ==
  /\ proc \in Kernels
  /\ epoch \in Kernels
  /\ cell \in 0 .. MaxCells
  /\ kcell \in 0 .. MaxCells

TypeReq == req \in Seq(Requests)
TypeResp == resp \in Seq(Answers)
TypeReply == reply \in Answers

TypeData ==
  /\ blob \in State
  /\ ns \in State
  /\ fed \in SUBSET Cells
  /\ strays \in SUBSET Kernels
  /\ out \in [Cells -> Outcomes]
  /\ asked \in [Cells -> 0 .. MaxCells + 1]
  /\ saved \in State
  /\ lost \in State
  /\ dropped \in State
TypeWires ==
  /\ req \in Seq(Requests)
  /\ resp \in Seq(Answers)
  /\ reply \in Answers

\* The parts make up the whole.
LEMMA TypeParts ==
  TypeOK <=> /\ TypeNames /\ TypeFlags /\ TypeNumbers /\ TypeData
             /\ TypeReq /\ TypeResp /\ TypeReply
  BY DEF TypeOK, TypeNames, TypeFlags, TypeNumbers, TypeData, TypeReq, TypeResp, TypeReply

\* A step that changes nothing keeps the invariant.
LEMMA Stutter ==
  ASSUME IInv, UNCHANGED vars
  PROVE  IInv'
<1>1. TypeOK' /\ Bounds'
  BY DEF IInv, TypeOK, Bounds, vars
<1>2. OneExchange' /\ ExchangeIsMine' /\ NoSocket'
  BY DEF IInv, OneExchange, ExchangeIsMine, NoSocket, Running, Booting, NoWork, vars
<1>3. OnlyClean' /\ Wakeable'
  BY DEF IInv, OnlyClean, Clean, Wakeable, AcceptIsWoken, vars
<1>4. QED
  BY <1>1, <1>2, <1>3 DEF IInv

-----------------------------------------------------------------------------
(* Steps. *)

\* Program counters and other names stay in their sets.
LEMMA NamesStep ==
  ASSUME IInv, Next
  PROVE  TypeNames'
<1>0. TypeNames
  BY TypeParts DEF IInv
<1>1. CASE ExecuteCell \/ WorkerAcquire \/ CheckPipe \/ WriteFrame \/
           TornUnderWorker \/ ReadReset \/ ReadFrame
  BY <1>0, <1>1 DEF TypeNames, WorkerPc, KernelPc, CloserPc, Finish, session,
       worker, closer, kernel, wires, ExecuteCell, WorkerAcquire, CheckPipe,
       WriteFrame, TornUnderWorker, ReadReset, Reset, ReadFrame
<1>2. CASE ReadEof \/ TimeoutClean \/ TimeoutPartial \/ GraceExpires \/
           SendSigint \/ Report
  BY <1>0, <1>2 DEF TypeNames, WorkerPc, KernelPc, CloserPc, session, worker,
       closer, kernel, wires, ReadEof, TimeoutClean, TimeoutPartial,
       GraceExpires, SendSigint, Report
<1>3. CASE KillAndRespawn \/ Popen \/ PublishListener \/ RecheckClosed
  BY <1>0, <1>3 DEF TypeNames, WorkerPc, KernelPc, CloserPc, KillSilently,
       DropListener, Finish, worker, closer, kernel, wires, KillAndRespawn,
       Popen, PublishListener, RecheckClosed
<1>4. CASE Accept \/ AcceptFails \/ HelloReady \/ Restored \/ HandshakeFails
  BY <1>0, <1>4 DEF TypeNames, WorkerPc, KernelPc, CloserPc, KillSilently,
       DropListener, Finish, worker, closer, kernel, wires, Accept,
       AcceptFails, HelloReady, Restored, HandshakeFails
<1>5. CASE Close \/ WakeAccept \/ CloserAcquire \/ AcquireExpires \/ ForceKill
           \/ ReacquireExpires \/ AskToExit \/ WaitForExit \/ Teardown \/
           Cleanup
  BY <1>0, <1>5 DEF TypeNames, WorkerPc, KernelPc, CloserPc, KillSilently,
       session, worker, closer, kernel, wires, Close, WakeAccept,
       CloserAcquire, AcquireExpires, ForceKill, ReacquireExpires, AskToExit,
       WaitForExit, Teardown, Cleanup
<1>6. CASE KernelConnect \/ KernelBoots \/ KernelHangsUp \/ KernelCrash \/
           IdleInterrupted \/ KernelShutdown \/ KernelRehydrate \/
           KernelTakesCell
  BY <1>0, <1>6 DEF TypeNames, WorkerPc, KernelPc, CloserPc, Linked, Frame,
       session, worker, closer, kernel, wires, KernelConnect, KernelBoots,
       KernelHangsUp, KernelCrash, IdleInterrupted, KernelShutdown,
       KernelRehydrate, KernelTakesCell
<1>7. CASE GuardRefuses \/ ArmSigint \/ BodyStarts \/ LoopTorn \/ BodyEnds \/
           BodyInterrupted \/ DisarmSigint \/ KernelAnswers
  BY <1>0, <1>7 DEF TypeNames, WorkerPc, KernelPc, CloserPc, Snapshots,
       Linked, Frame, session, worker, closer, kernel, wires, GuardRefuses,
       ArmSigint, BodyStarts, LoopTorn, BodyEnds, BodyInterrupted,
       DisarmSigint, KernelAnswers
<1>8. CASE Terminated
  BY <1>8, Stutter DEF Terminated, IInv, TypeOK, TypeNames
<1>9. QED
  BY <1>1, <1>2, <1>3, <1>4, <1>5, <1>6, <1>7, <1>8 DEF Next, WorkerStep,
     Timeout, CloserStep, KernelStep, BodyStep

\* Flags stay Boolean.
LEMMA FlagsStep ==
  ASSUME IInv, Next
  PROVE  TypeFlags'
<1>0. TypeFlags
  BY TypeParts DEF IInv
<1>1. CASE ExecuteCell
  BY <1>0, <1>1 DEF TypeFlags, closer, kernel, wires, ExecuteCell
<1>2. CASE WorkerAcquire
  BY <1>0, <1>2 DEF TypeFlags, session, worker, closer, kernel, wires,
       WorkerAcquire
<1>3. CASE CheckPipe
  BY <1>0, <1>3 DEF TypeFlags, session, worker, closer, kernel, wires,
       CheckPipe
<1>4. CASE WriteFrame
  BY <1>0, <1>4 DEF TypeFlags, session, worker, closer, kernel, WriteFrame
<1>5. CASE TornUnderWorker \/ ReadReset
  BY <1>0, <1>5 DEF TypeFlags, Finish, session, closer, kernel, wires,
       TornUnderWorker, ReadReset, Reset
<1>6. CASE ReadFrame
  BY <1>0, <1>6 DEF TypeFlags, session, closer, kernel, ReadFrame
<1>7. CASE ReadEof
  BY <1>0, <1>7 DEF TypeFlags, session, worker, closer, kernel, wires, ReadEof
<1>8. CASE TimeoutClean
  BY <1>0, <1>8 DEF TypeFlags, session, worker, closer, kernel, wires,
       TimeoutClean
<1>9. CASE TimeoutPartial
  BY <1>0, <1>9 DEF TypeFlags, session, worker, closer, kernel, wires,
       TimeoutPartial
<1>10. CASE GraceExpires
  BY <1>0, <1>10 DEF TypeFlags, session, worker, closer, kernel, wires,
       GraceExpires
<1>11. CASE SendSigint
  BY <1>0, <1>11 DEF TypeFlags, session, worker, closer, wires, SendSigint
<1>12. CASE Report
  BY <1>0, <1>12 DEF TypeFlags, closer, kernel, wires, Report
<1>13. CASE KillAndRespawn
  BY <1>0, <1>13 DEF TypeFlags, KillSilently, Finish, closer, kernel,
       KillAndRespawn
<1>14. CASE Popen
  BY <1>0, <1>14 DEF TypeFlags, closer, wires, Popen
<1>15. CASE PublishListener
  BY <1>0, <1>15 DEF TypeFlags, worker, closer, kernel, wires, PublishListener
<1>16. CASE RecheckClosed
  BY <1>0, <1>16 DEF TypeFlags, DropListener, Finish, closer, kernel,
       RecheckClosed
<1>17. CASE Accept
  BY <1>0, <1>17 DEF TypeFlags, DropListener, worker, closer, kernel, wires,
       Accept
<1>18. CASE AcceptFails
  BY <1>0, <1>18 DEF TypeFlags, KillSilently, DropListener, Finish, closer,
       kernel, AcceptFails
<1>19. CASE HelloReady
  BY <1>0, <1>19 DEF TypeFlags, Finish, closer, kernel, HelloReady
<1>20. CASE Restored
  BY <1>0, <1>20 DEF TypeFlags, Finish, closer, kernel, Restored
<1>21. CASE HandshakeFails
  BY <1>0, <1>21 DEF TypeFlags, KillSilently, Finish, closer, kernel,
       HandshakeFails
<1>22. CASE Close
  BY <1>0, <1>22 DEF TypeFlags, session, worker, kernel, wires, Close
<1>23. CASE WakeAccept
  BY <1>0, <1>23 DEF TypeFlags, worker, kernel, wires, WakeAccept
<1>24. CASE CloserAcquire
  BY <1>0, <1>24 DEF TypeFlags, session, worker, closer, kernel, wires,
       CloserAcquire
<1>25. CASE AcquireExpires
  BY <1>0, <1>25 DEF TypeFlags, session, worker, kernel, wires, AcquireExpires
<1>26. CASE ForceKill
  BY <1>0, <1>26 DEF TypeFlags, session, worker, kernel, wires, ForceKill
<1>27. CASE ReacquireExpires
  BY <1>0, <1>27 DEF TypeFlags, session, worker, kernel, wires,
       ReacquireExpires
<1>28. CASE AskToExit
  BY <1>0, <1>28 DEF TypeFlags, session, worker, kernel, AskToExit
<1>29. CASE WaitForExit
  BY <1>0, <1>29 DEF TypeFlags, session, worker, kernel, wires, WaitForExit
<1>30. CASE Teardown
  BY <1>0, <1>30 DEF TypeFlags, KillSilently, worker, kernel, Teardown
<1>31. CASE Cleanup
  BY <1>0, <1>31 DEF TypeFlags, session, worker, kernel, wires, Cleanup
<1>32. CASE KernelConnect
  BY <1>0, <1>32 DEF TypeFlags, session, worker, closer, wires, KernelConnect
<1>33. CASE KernelBoots
  BY <1>0, <1>33 DEF TypeFlags, Linked, Frame, session, worker, closer,
       kernel, KernelBoots
<1>34. CASE KernelHangsUp
  BY <1>0, <1>34 DEF TypeFlags, Linked, session, worker, closer, kernel,
       wires, KernelHangsUp
<1>35. CASE KernelCrash
  BY <1>0, <1>35 DEF TypeFlags, session, worker, closer, kernel, wires,
       KernelCrash
<1>36. CASE IdleInterrupted
  BY <1>0, <1>36 DEF TypeFlags, session, worker, closer, IdleInterrupted
<1>37. CASE KernelShutdown
  BY <1>0, <1>37 DEF TypeFlags, session, worker, closer, kernel,
       KernelShutdown
<1>38. CASE KernelRehydrate
  BY <1>0, <1>38 DEF TypeFlags, Linked, Frame, session, worker, closer,
       KernelRehydrate
<1>39. CASE KernelTakesCell
  BY <1>0, <1>39 DEF TypeFlags, session, worker, closer, KernelTakesCell
<1>40. CASE GuardRefuses
  BY <1>0, <1>40 DEF TypeFlags, Snapshots, Linked, Frame, session, worker,
       closer, kernel, GuardRefuses
<1>41. CASE ArmSigint
  BY <1>0, <1>41 DEF TypeFlags, session, worker, closer, wires, ArmSigint
<1>42. CASE BodyStarts
  BY <1>0, <1>42 DEF TypeFlags, session, worker, closer, wires, BodyStarts
<1>43. CASE LoopTorn
  BY <1>0, <1>43 DEF TypeFlags, Linked, Frame, session, worker, closer,
       kernel, LoopTorn
<1>44. CASE BodyEnds
  BY <1>0, <1>44 DEF TypeFlags, session, worker, closer, wires, BodyEnds
<1>45. CASE BodyInterrupted
  BY <1>0, <1>45 DEF TypeFlags, session, worker, closer, wires,
       BodyInterrupted
<1>46. CASE DisarmSigint
  BY <1>0, <1>46 DEF TypeFlags, session, worker, closer, wires, DisarmSigint
<1>47. CASE KernelAnswers
  BY <1>0, <1>47 DEF TypeFlags, Snapshots, Linked, Frame, session, worker,
       closer, kernel, KernelAnswers
<1>48. CASE Terminated
  BY <1>48, Stutter DEF Terminated, IInv, TypeOK, TypeFlags
<1>49. QED
  BY <1>1, <1>2, <1>3, <1>4, <1>5, <1>6, <1>7, <1>8, <1>9, <1>10, <1>11,
     <1>12, <1>13, <1>14, <1>15, <1>16, <1>17, <1>18, <1>19, <1>20, <1>21,
     <1>22, <1>23, <1>24, <1>25, <1>26, <1>27, <1>28, <1>29, <1>30, <1>31,
     <1>32, <1>33, <1>34, <1>35, <1>36, <1>37, <1>38, <1>39, <1>40, <1>41,
     <1>42, <1>43, <1>44, <1>45, <1>46, <1>47, <1>48 DEF Next, WorkerStep,
     Timeout, CloserStep, KernelStep, BodyStep

\* Process, epoch and cell numbers stay in range: Bounds says why.
LEMMA NumbersStep ==
  ASSUME IInv, Next
  PROVE  TypeNumbers'
<1>0. TypeNumbers /\ Bounds /\ TypeReq
  BY TypeParts DEF IInv
<1>1. CASE ExecuteCell \/ WorkerAcquire \/ CheckPipe \/ WriteFrame \/
           TornUnderWorker \/ ReadReset \/ ReadFrame
  BY <1>0, <1>1, MaxCellsAssumption, RequestField, TailFacts DEF TypeNumbers,
       Bounds, TypeReq, Kernels, Spawned, Finish, session, worker, closer,
       kernel, wires, ExecuteCell, WorkerAcquire, CheckPipe, WriteFrame,
       TornUnderWorker, ReadReset, Reset, ReadFrame
<1>2. CASE ReadEof \/ TimeoutClean \/ TimeoutPartial \/ GraceExpires \/
           SendSigint \/ Report
  BY <1>0, <1>2, MaxCellsAssumption, RequestField, TailFacts DEF TypeNumbers,
       Bounds, TypeReq, Kernels, Spawned, session, worker, closer, kernel,
       wires, ReadEof, TimeoutClean, TimeoutPartial, GraceExpires, SendSigint,
       Report
<1>3. CASE KillAndRespawn \/ Popen \/ PublishListener \/ RecheckClosed
  BY <1>0, <1>3, MaxCellsAssumption, RequestField, TailFacts DEF TypeNumbers,
       Bounds, TypeReq, Kernels, Spawned, KillSilently, DropListener, Finish,
       worker, closer, kernel, wires, KillAndRespawn, Popen, PublishListener,
       RecheckClosed
<1>4. CASE Accept \/ AcceptFails \/ HelloReady \/ Restored \/ HandshakeFails
  BY <1>0, <1>4, MaxCellsAssumption, RequestField, TailFacts DEF TypeNumbers,
       Bounds, TypeReq, Kernels, Spawned, KillSilently, DropListener, Finish,
       worker, closer, kernel, wires, Accept, AcceptFails, HelloReady,
       Restored, HandshakeFails
<1>5. CASE Close \/ WakeAccept \/ CloserAcquire \/ AcquireExpires \/ ForceKill
           \/ ReacquireExpires \/ AskToExit \/ WaitForExit \/ Teardown \/
           Cleanup
  BY <1>0, <1>5, MaxCellsAssumption, RequestField, TailFacts DEF TypeNumbers,
       Bounds, TypeReq, Kernels, Spawned, KillSilently, session, worker,
       closer, kernel, wires, Close, WakeAccept, CloserAcquire,
       AcquireExpires, ForceKill, ReacquireExpires, AskToExit, WaitForExit,
       Teardown, Cleanup
<1>6. CASE KernelConnect \/ KernelBoots \/ KernelHangsUp \/ KernelCrash \/
           IdleInterrupted \/ KernelShutdown \/ KernelRehydrate \/
           KernelTakesCell
  BY <1>0, <1>6, MaxCellsAssumption, RequestField, TailFacts DEF TypeNumbers,
       Bounds, TypeReq, Kernels, Spawned, Linked, Frame, session, worker,
       closer, kernel, wires, KernelConnect, KernelBoots, KernelHangsUp,
       KernelCrash, IdleInterrupted, KernelShutdown, KernelRehydrate,
       KernelTakesCell
<1>7. CASE GuardRefuses \/ ArmSigint \/ BodyStarts \/ LoopTorn \/ BodyEnds \/
           BodyInterrupted \/ DisarmSigint \/ KernelAnswers
  BY <1>0, <1>7, MaxCellsAssumption, RequestField, TailFacts DEF TypeNumbers,
       Bounds, TypeReq, Kernels, Spawned, Snapshots, Linked, Frame, session,
       worker, closer, kernel, wires, GuardRefuses, ArmSigint, BodyStarts,
       LoopTorn, BodyEnds, BodyInterrupted, DisarmSigint, KernelAnswers
<1>8. CASE Terminated
  BY <1>8, Stutter DEF Terminated, IInv, TypeOK, TypeNumbers
<1>9. QED
  BY <1>1, <1>2, <1>3, <1>4, <1>5, <1>6, <1>7, <1>8 DEF Next, WorkerStep,
     Timeout, CloserStep, KernelStep, BodyStep

\* The cell a kernel takes is the call in progress, so its number is a cell's.
LEMMA TakesCellData ==
  ASSUME IInv, KernelTakesCell
  PROVE  TypeData'
<1>0. TypeOK /\ ExchangeIsMine /\ Bounds
  BY DEF IInv
<1>1. req # <<>> /\ Head(req) = req[1] /\ 1 \in DOMAIN req
  BY <1>0, TailFacts DEF TypeOK, KernelTakesCell
<1>2. Head(req).cell = cell /\ cell \in Cells
  BY <1>0, <1>1, MaxCellsAssumption DEF ExchangeIsMine, KernelTakesCell, Bounds, TypeOK, Cells, Sent
<1>3. QED
  BY <1>0, <1>2 DEF TypeOK, TypeData, KernelTakesCell, session, worker

\* States, snapshots and histories keep their types.
LEMMA DataStep ==
  ASSUME IInv, Next
  PROVE  TypeData'
<1>0. TypeData /\ TypeNumbers /\ TypeReply /\ TypeResp /\ TypeNames
  BY TypeParts DEF IInv
<1>1. CASE ExecuteCell
  BY <1>0, <1>1, MaxCellsAssumption, AnswerField DEF TypeData, TypeNumbers,
       TypeReply, Cells, State, Kernels, Outcomes, closer, kernel, wires,
       ExecuteCell
<1>2. CASE WorkerAcquire \/ CheckPipe
  BY <1>0, <1>2, MaxCellsAssumption, AnswerField DEF TypeData, TypeNumbers,
       TypeReply, Cells, State, Kernels, Outcomes, session, worker, closer,
       kernel, wires, WorkerAcquire, CheckPipe
<1>3. CASE WriteFrame \/ TornUnderWorker \/ ReadReset \/ ReadFrame
  BY <1>0, <1>3, MaxCellsAssumption, AnswerField DEF TypeData, TypeNumbers,
       TypeReply, Cells, State, Kernels, Outcomes, Finish, session, worker,
       closer, kernel, wires, WriteFrame, TornUnderWorker, ReadReset, Reset, ReadFrame
<1>4. CASE ReadEof \/ TimeoutClean \/ TimeoutPartial \/ GraceExpires \/
           SendSigint \/ Report
  BY <1>0, <1>4, MaxCellsAssumption, AnswerField DEF TypeData, TypeNumbers,
       TypeReply, Cells, State, Kernels, Outcomes, session, worker, closer,
       kernel, wires, ReadEof, TimeoutClean, TimeoutPartial, GraceExpires,
       SendSigint, Report
<1>5. CASE KillAndRespawn
  BY <1>0, <1>5, MaxCellsAssumption, AnswerField DEF TypeData, TypeNumbers,
       TypeReply, Cells, State, Kernels, Outcomes, KillSilently, Finish,
       closer, kernel, KillAndRespawn
<1>6. CASE Popen
  BY <1>0, <1>6, MaxCellsAssumption, AnswerField DEF TypeData, TypeNumbers,
       TypeReply, Cells, State, Kernels, Outcomes, closer, wires, Popen
<1>7. CASE PublishListener \/ RecheckClosed
  BY <1>0, <1>7, MaxCellsAssumption, AnswerField DEF TypeData, TypeNumbers,
       TypeReply, Cells, State, Kernels, Outcomes, DropListener, Finish,
       worker, closer, kernel, wires, PublishListener, RecheckClosed
<1>8. CASE Accept \/ AcceptFails \/ HelloReady \/ Restored \/ HandshakeFails
  BY <1>0, <1>8, MaxCellsAssumption, AnswerField DEF TypeData, TypeNumbers,
       TypeReply, Cells, State, Kernels, Outcomes, KillSilently, DropListener,
       Finish, worker, closer, kernel, wires, Accept, AcceptFails, HelloReady,
       Restored, HandshakeFails
<1>9. CASE Close \/ WakeAccept \/ CloserAcquire \/ AcquireExpires \/ ForceKill
           \/ ReacquireExpires \/ AskToExit \/ WaitForExit \/ Teardown \/
           Cleanup
  BY <1>0, <1>9, MaxCellsAssumption, AnswerField DEF TypeData, TypeNumbers,
       TypeReply, Cells, State, Kernels, Outcomes, KillSilently, session,
       worker, closer, kernel, wires, Close, WakeAccept, CloserAcquire,
       AcquireExpires, ForceKill, ReacquireExpires, AskToExit, WaitForExit,
       Teardown, Cleanup
<1>10. CASE KernelConnect \/ KernelBoots \/ KernelHangsUp \/ KernelCrash \/
           IdleInterrupted \/ KernelShutdown \/ KernelRehydrate
  BY <1>0, <1>10, MaxCellsAssumption, AnswerField DEF TypeData, TypeNumbers,
       TypeReply, Cells, State, Kernels, Outcomes, Linked, Frame, session,
       worker, closer, kernel, wires, KernelConnect, KernelBoots,
       KernelHangsUp, KernelCrash, IdleInterrupted, KernelShutdown,
       KernelRehydrate
<1>11. CASE GuardRefuses \/ ArmSigint \/ BodyStarts \/ LoopTorn \/ BodyEnds \/
           BodyInterrupted \/ DisarmSigint \/ KernelAnswers
  BY <1>0, <1>11, MaxCellsAssumption, AnswerField DEF TypeData, TypeNumbers,
       TypeReply, Cells, State, Kernels, Outcomes, Snapshots, Linked, Frame,
       session, worker, closer, kernel, wires, GuardRefuses, ArmSigint,
       BodyStarts, LoopTorn, BodyEnds, BodyInterrupted, DisarmSigint,
       KernelAnswers
<1>12. CASE Terminated
  BY <1>12, Stutter DEF Terminated, IInv, TypeOK, TypeData
<1>13. CASE KernelTakesCell
  BY <1>13, TakesCellData
<1>14. QED
  BY <1>1, <1>2, <1>3, <1>4, <1>5, <1>6, <1>7, <1>8, <1>9, <1>10, <1>11,
     <1>12, <1>13 DEF Next, WorkerStep, Timeout, CloserStep, KernelStep,
     BodyStep

\* What the parent writes is a request.
LEMMA RequestsSent ==
  ASSUME IInv, WriteFrame \/ HelloReady \/ AskToExit
  PROVE  TypeReq'
<1>0. TypeOK /\ MaxCells \in Nat /\ cell \in 0 .. MaxCells
  BY MaxCellsAssumption DEF IInv, TypeOK
<1>1. \A t \in {"code", "rehydrate", "shutdown"}, n \in {0, cell} : [type |-> t, cell |-> n] \in Requests
  BY <1>0 DEF Requests
<1>2. ASSUME NEW f \in Requests PROVE Append(req, f) \in Seq(Requests)
  BY <1>0, AppendFacts DEF TypeOK
<1>3. CASE WriteFrame
  BY <1>0, <1>1, <1>2, <1>3 DEF TypeOK, TypeReq, WriteFrame
<1>4. CASE HelloReady
  BY <1>0, <1>1, <1>2, <1>4 DEF TypeOK, TypeReq, HelloReady
<1>5. CASE AskToExit
  BY <1>0, <1>1, <1>2, <1>5 DEF TypeOK, TypeReq, AskToExit
<1>6. QED
  BY <1>3, <1>4, <1>5

\* The request direction of the socket keeps its type.
LEMMA ReqStep ==
  ASSUME IInv, Next
  PROVE  TypeReq'
<1>0. TypeReq
  BY TypeParts DEF IInv
<1>1. CASE ExecuteCell \/ WorkerAcquire \/ CheckPipe \/ TornUnderWorker \/ ReadReset \/ ReadFrame
  BY <1>0, <1>1, EmptySeq DEF TypeReq, Finish, session, worker, closer,
       kernel, wires, ExecuteCell, WorkerAcquire, CheckPipe, TornUnderWorker, ReadReset,
       Reset, ReadFrame
<1>2. CASE ReadEof \/ TimeoutClean \/ TimeoutPartial \/ GraceExpires \/
           SendSigint \/ Report
  BY <1>0, <1>2, EmptySeq DEF TypeReq, session, worker, closer, kernel, wires,
       ReadEof, TimeoutClean, TimeoutPartial, GraceExpires, SendSigint, Report
<1>3. CASE KillAndRespawn \/ Popen \/ PublishListener \/ RecheckClosed
  BY <1>0, <1>3, EmptySeq DEF TypeReq, KillSilently, DropListener, Finish,
       worker, closer, kernel, wires, KillAndRespawn, Popen, PublishListener,
       RecheckClosed
<1>4. CASE Accept \/ AcceptFails \/ Restored \/ HandshakeFails
  BY <1>0, <1>4, EmptySeq DEF TypeReq, KillSilently, DropListener, Finish,
       worker, closer, kernel, wires, Accept, AcceptFails, Restored,
       HandshakeFails
<1>5. CASE Close \/ WakeAccept \/ CloserAcquire \/ AcquireExpires \/ ForceKill
           \/ ReacquireExpires \/ WaitForExit \/ Teardown \/ Cleanup
  BY <1>0, <1>5, EmptySeq DEF TypeReq, KillSilently, session, worker, closer,
       kernel, wires, Close, WakeAccept, CloserAcquire, AcquireExpires,
       ForceKill, ReacquireExpires, WaitForExit, Teardown, Cleanup
<1>6. CASE KernelConnect \/ KernelBoots \/ KernelHangsUp \/ KernelCrash
  BY <1>0, <1>6, EmptySeq DEF TypeReq, Linked, Frame, session, worker, closer,
       kernel, wires, KernelConnect, KernelBoots, KernelHangsUp, KernelCrash
<1>7. CASE IdleInterrupted
  BY <1>0, <1>7, EmptySeq DEF TypeReq, session, worker, closer,
       IdleInterrupted
<1>8. CASE KernelShutdown
  BY <1>0, <1>8, EmptySeq DEF TypeReq, session, worker, closer, kernel,
       KernelShutdown
<1>9. CASE KernelRehydrate \/ KernelTakesCell
  BY <1>0, <1>9, EmptySeq DEF TypeReq, Linked, Frame, session, worker, closer,
       KernelRehydrate, KernelTakesCell
<1>10. CASE GuardRefuses \/ ArmSigint \/ BodyStarts \/ LoopTorn \/ BodyEnds \/
           BodyInterrupted \/ DisarmSigint \/ KernelAnswers
  BY <1>0, <1>10, EmptySeq DEF TypeReq, Snapshots, Linked, Frame, session,
       worker, closer, kernel, wires, GuardRefuses, ArmSigint, BodyStarts,
       LoopTorn, BodyEnds, BodyInterrupted, DisarmSigint, KernelAnswers
<1>11. CASE Terminated
  BY <1>11, Stutter DEF Terminated, IInv, TypeOK, TypeReq
<1>12. CASE WriteFrame \/ HelloReady \/ AskToExit
  BY <1>12, RequestsSent
<1>13. QED
  BY <1>1, <1>2, <1>3, <1>4, <1>5, <1>6, <1>7, <1>8, <1>9, <1>10, <1>11, <1>12
     DEF Next, WorkerStep, Timeout, CloserStep, KernelStep, BodyStep

\* The hello is an answer, and reading it leaves answers.
LEMMA HelloAnswered ==
  ASSUME IInv, HelloReady \/ KernelBoots
  PROVE  TypeResp'
<1>0. TypeOK /\ MaxCells \in Nat
  BY MaxCellsAssumption DEF IInv, TypeOK
<1>1. \A t \in {"ready", "boot_error"} : Frame(t, 0, "none", {}) \in Answers
  BY <1>0 DEF Frame, Answers, State
<1>2. ASSUME NEW f \in Answers PROVE Append(resp, f) \in Seq(Answers)
  BY <1>0, AppendFacts DEF TypeOK
<1>3. CASE HelloReady
  <2>1. resp # <<>> /\ resp' = Tail(resp)
    BY <1>3 DEF HelloReady
  <2>2. QED
    BY <1>0, <2>1, TailFacts DEF TypeOK, TypeResp
<1>4. CASE KernelBoots
  BY <1>0, <1>1, <1>2, <1>4 DEF TypeOK, TypeResp, KernelBoots
<1>6. QED
  BY <1>3, <1>4

\* The answer direction of the socket keeps its type.
LEMMA RespStep ==
  ASSUME IInv, Next
  PROVE  TypeResp'
<1>0. TypeResp /\ TypeNumbers /\ TypeData
  BY TypeParts DEF IInv
<1>1. CASE ExecuteCell \/ WorkerAcquire \/ CheckPipe
  BY <1>0, <1>1, MaxCellsAssumption, FrameType, EmptySeq DEF TypeResp,
       TypeNumbers, TypeData, State, session, worker, closer, kernel, wires,
       ExecuteCell, WorkerAcquire, CheckPipe
<1>2. CASE WriteFrame
  BY <1>0, <1>2, MaxCellsAssumption, FrameType, EmptySeq DEF TypeResp,
       TypeNumbers, TypeData, State, session, worker, closer, kernel,
       WriteFrame
<1>3. CASE TornUnderWorker \/ ReadReset
  BY <1>0, <1>3, MaxCellsAssumption, FrameType, EmptySeq DEF TypeResp,
       TypeNumbers, TypeData, State, Finish, session, closer, kernel, wires,
       TornUnderWorker, ReadReset, Reset
<1>4. CASE ReadFrame
  BY <1>0, <1>4, MaxCellsAssumption, FrameType, EmptySeq DEF TypeResp,
       TypeNumbers, TypeData, State, session, closer, kernel, ReadFrame
<1>5. CASE ReadEof \/ TimeoutClean \/ TimeoutPartial \/ GraceExpires \/
           SendSigint \/ Report
  BY <1>0, <1>5, MaxCellsAssumption, FrameType, EmptySeq DEF TypeResp,
       TypeNumbers, TypeData, State, session, worker, closer, kernel, wires,
       ReadEof, TimeoutClean, TimeoutPartial, GraceExpires, SendSigint, Report
<1>6. CASE KillAndRespawn \/ Popen \/ PublishListener \/ RecheckClosed
  BY <1>0, <1>6, MaxCellsAssumption, FrameType, EmptySeq DEF TypeResp,
       TypeNumbers, TypeData, State, KillSilently, DropListener, Finish,
       worker, closer, kernel, wires, KillAndRespawn, Popen, PublishListener,
       RecheckClosed
<1>7. CASE Accept \/ AcceptFails
  BY <1>0, <1>7, MaxCellsAssumption, FrameType, EmptySeq DEF TypeResp,
       TypeNumbers, TypeData, State, KillSilently, DropListener, Finish,
       worker, closer, kernel, wires, Accept, AcceptFails
<1>8. CASE Restored
  BY <1>0, <1>8, MaxCellsAssumption, FrameType, EmptySeq DEF TypeResp,
       TypeNumbers, TypeData, State, Finish, closer, kernel, Restored
<1>9. CASE HandshakeFails
  BY <1>0, <1>9, MaxCellsAssumption, FrameType, EmptySeq DEF TypeResp,
       TypeNumbers, TypeData, State, KillSilently, Finish, closer, kernel,
       HandshakeFails
<1>10. CASE Close \/ WakeAccept \/ CloserAcquire \/ AcquireExpires \/
           ForceKill \/ ReacquireExpires \/ AskToExit \/ WaitForExit \/
           Teardown \/ Cleanup
  BY <1>0, <1>10, MaxCellsAssumption, FrameType, EmptySeq DEF TypeResp,
       TypeNumbers, TypeData, State, KillSilently, session, worker, closer,
       kernel, wires, Close, WakeAccept, CloserAcquire, AcquireExpires,
       ForceKill, ReacquireExpires, AskToExit, WaitForExit, Teardown, Cleanup
<1>11. CASE KernelConnect \/ KernelHangsUp \/ KernelCrash
  BY <1>0, <1>11, MaxCellsAssumption, FrameType, EmptySeq DEF TypeResp,
       TypeNumbers, TypeData, State, Linked, session, worker, closer, kernel,
       wires, KernelConnect, KernelHangsUp, KernelCrash
<1>12. CASE IdleInterrupted \/ KernelShutdown
  BY <1>0, <1>12, MaxCellsAssumption, FrameType, EmptySeq DEF TypeResp,
       TypeNumbers, TypeData, State, session, worker, closer, kernel,
       IdleInterrupted, KernelShutdown
<1>13. CASE KernelRehydrate
  BY <1>0, <1>13, MaxCellsAssumption, FrameType, EmptySeq DEF TypeResp,
       TypeNumbers, TypeData, State, Linked, session, worker, closer,
       KernelRehydrate
<1>14. CASE KernelTakesCell
  BY <1>0, <1>14, MaxCellsAssumption, FrameType, EmptySeq DEF TypeResp,
       TypeNumbers, TypeData, State, session, worker, closer, KernelTakesCell
<1>15. CASE GuardRefuses
  BY <1>0, <1>15, MaxCellsAssumption, FrameType, EmptySeq DEF TypeResp,
       TypeNumbers, TypeData, State, Snapshots, Linked, session, worker,
       closer, kernel, GuardRefuses
<1>16. CASE ArmSigint
  BY <1>0, <1>16, MaxCellsAssumption, FrameType, EmptySeq DEF TypeResp,
       TypeNumbers, TypeData, State, session, worker, closer, wires, ArmSigint
<1>17. CASE BodyStarts
  BY <1>0, <1>17, MaxCellsAssumption, FrameType, EmptySeq DEF TypeResp,
       TypeNumbers, TypeData, State, session, worker, closer, wires,
       BodyStarts
<1>18. CASE LoopTorn
  BY <1>0, <1>18, MaxCellsAssumption, FrameType, EmptySeq DEF TypeResp,
       TypeNumbers, TypeData, State, Linked, session, worker, closer, kernel,
       LoopTorn
<1>19. CASE BodyEnds \/ BodyInterrupted
  BY <1>0, <1>19, MaxCellsAssumption, FrameType, EmptySeq DEF TypeResp,
       TypeNumbers, TypeData, State, session, worker, closer, wires, BodyEnds,
       BodyInterrupted
<1>20. CASE DisarmSigint
  BY <1>0, <1>20, MaxCellsAssumption, FrameType, EmptySeq DEF TypeResp,
       TypeNumbers, TypeData, State, session, worker, closer, wires,
       DisarmSigint
<1>21. CASE KernelAnswers
  BY <1>0, <1>21, MaxCellsAssumption, FrameType, EmptySeq DEF TypeResp,
       TypeNumbers, TypeData, State, Snapshots, Linked, session, worker,
       closer, kernel, KernelAnswers
<1>22. CASE Terminated
  BY <1>22, Stutter DEF Terminated, IInv, TypeOK, TypeResp
<1>23. CASE HelloReady \/ KernelBoots
  BY <1>23, HelloAnswered
<1>24. QED
  BY <1>1, <1>2, <1>3, <1>4, <1>5, <1>6, <1>7, <1>8, <1>9, <1>10, <1>11,
     <1>12, <1>13, <1>14, <1>15, <1>16, <1>17, <1>18, <1>19, <1>20, <1>21,
     <1>22, <1>23 DEF Next, WorkerStep, Timeout, CloserStep, KernelStep,
     BodyStep

\* The reply kept by the worker is an answer.
LEMMA ReplyStep ==
  ASSUME IInv, Next
  PROVE  TypeReply'
<1>0. TypeReply /\ TypeResp
  BY TypeParts DEF IInv
<1>1. CASE ExecuteCell \/ WorkerAcquire \/ CheckPipe \/ WriteFrame \/
           TornUnderWorker \/ ReadReset \/ ReadFrame
  BY <1>0, <1>1 DEF TypeReply, TypeResp, Finish, session, worker, closer,
       kernel, wires, ExecuteCell, WorkerAcquire, CheckPipe, WriteFrame,
       TornUnderWorker, ReadReset, Reset, ReadFrame
<1>2. CASE ReadEof \/ TimeoutClean \/ TimeoutPartial \/ GraceExpires \/
           SendSigint \/ Report
  BY <1>0, <1>2 DEF TypeReply, TypeResp, session, worker, closer, kernel,
       wires, ReadEof, TimeoutClean, TimeoutPartial, GraceExpires, SendSigint,
       Report
<1>3. CASE KillAndRespawn \/ Popen \/ PublishListener \/ RecheckClosed
  BY <1>0, <1>3 DEF TypeReply, TypeResp, KillSilently, DropListener, Finish,
       worker, closer, kernel, wires, KillAndRespawn, Popen, PublishListener,
       RecheckClosed
<1>4. CASE Accept \/ AcceptFails \/ HelloReady \/ Restored \/ HandshakeFails
  BY <1>0, <1>4 DEF TypeReply, TypeResp, KillSilently, DropListener, Finish,
       worker, closer, kernel, wires, Accept, AcceptFails, HelloReady,
       Restored, HandshakeFails
<1>5. CASE Close \/ WakeAccept \/ CloserAcquire \/ AcquireExpires \/ ForceKill
           \/ ReacquireExpires \/ AskToExit \/ WaitForExit \/ Teardown \/
           Cleanup
  BY <1>0, <1>5 DEF TypeReply, TypeResp, KillSilently, session, worker,
       closer, kernel, wires, Close, WakeAccept, CloserAcquire,
       AcquireExpires, ForceKill, ReacquireExpires, AskToExit, WaitForExit,
       Teardown, Cleanup
<1>6. CASE KernelConnect \/ KernelBoots \/ KernelHangsUp \/ KernelCrash \/
           IdleInterrupted \/ KernelShutdown \/ KernelRehydrate \/
           KernelTakesCell
  BY <1>0, <1>6 DEF TypeReply, TypeResp, Linked, Frame, session, worker,
       closer, kernel, wires, KernelConnect, KernelBoots, KernelHangsUp,
       KernelCrash, IdleInterrupted, KernelShutdown, KernelRehydrate,
       KernelTakesCell
<1>7. CASE GuardRefuses \/ ArmSigint \/ BodyStarts \/ LoopTorn \/ BodyEnds \/
           BodyInterrupted \/ DisarmSigint \/ KernelAnswers
  BY <1>0, <1>7 DEF TypeReply, TypeResp, Snapshots, Linked, Frame, session,
       worker, closer, kernel, wires, GuardRefuses, ArmSigint, BodyStarts,
       LoopTorn, BodyEnds, BodyInterrupted, DisarmSigint, KernelAnswers
<1>8. CASE Terminated
  BY <1>8, Stutter DEF Terminated, IInv, TypeOK, TypeReply
<1>9. QED
  BY <1>1, <1>2, <1>3, <1>4, <1>5, <1>6, <1>7, <1>8 DEF Next, WorkerStep,
     Timeout, CloserStep, KernelStep, BodyStep

\* Every step keeps the types.
LEMMA TypeStep ==
  ASSUME IInv, Next
  PROVE  TypeOK'
<1>1. TypeNames' /\ TypeFlags' /\ TypeNumbers' /\ TypeData'
  BY NamesStep, FlagsStep, NumbersStep, DataStep
<1>2. TypeReq' /\ TypeResp' /\ TypeReply'
  BY ReqStep, RespStep, ReplyStep
<1>3. QED
  BY <1>1, <1>2 DEF TypeOK, TypeNames, TypeFlags, TypeNumbers, TypeData, TypeReq, TypeResp,
                    TypeReply

\* A call spawns one kernel at most, so numbers follow the call's.
LEMMA BoundsStep ==
  ASSUME IInv, Next
  PROVE  Bounds'
<1>0. Bounds /\ TypeNumbers
  BY TypeParts DEF IInv
<1>1. CASE ExecuteCell \/ WorkerAcquire \/ CheckPipe \/ WriteFrame \/
           TornUnderWorker \/ ReadReset \/ ReadFrame
  BY <1>0, <1>1, MaxCellsAssumption DEF Bounds, TypeNumbers, Spawned, Kernels,
       Finish, session, worker, closer, kernel, wires, ExecuteCell,
       WorkerAcquire, CheckPipe, WriteFrame, TornUnderWorker, ReadReset, Reset, ReadFrame
<1>2. CASE ReadEof \/ TimeoutClean \/ TimeoutPartial \/ GraceExpires \/
           SendSigint \/ Report
  BY <1>0, <1>2, MaxCellsAssumption DEF Bounds, TypeNumbers, Spawned, Kernels,
       session, worker, closer, kernel, wires, ReadEof, TimeoutClean,
       TimeoutPartial, GraceExpires, SendSigint, Report
<1>3. CASE KillAndRespawn \/ Popen \/ PublishListener \/ RecheckClosed
  BY <1>0, <1>3, MaxCellsAssumption DEF Bounds, TypeNumbers, Spawned, Kernels,
       KillSilently, DropListener, Finish, worker, closer, kernel, wires,
       KillAndRespawn, Popen, PublishListener, RecheckClosed
<1>4. CASE Accept \/ AcceptFails \/ HelloReady \/ Restored \/ HandshakeFails
  BY <1>0, <1>4, MaxCellsAssumption DEF Bounds, TypeNumbers, Spawned, Kernels,
       KillSilently, DropListener, Finish, worker, closer, kernel, wires,
       Accept, AcceptFails, HelloReady, Restored, HandshakeFails
<1>5. CASE Close \/ WakeAccept \/ CloserAcquire \/ AcquireExpires \/ ForceKill
           \/ ReacquireExpires \/ AskToExit \/ WaitForExit \/ Teardown \/
           Cleanup
  BY <1>0, <1>5, MaxCellsAssumption DEF Bounds, TypeNumbers, Spawned, Kernels,
       KillSilently, session, worker, closer, kernel, wires, Close,
       WakeAccept, CloserAcquire, AcquireExpires, ForceKill, ReacquireExpires,
       AskToExit, WaitForExit, Teardown, Cleanup
<1>6. CASE KernelConnect \/ KernelBoots \/ KernelHangsUp \/ KernelCrash \/
           IdleInterrupted \/ KernelShutdown \/ KernelRehydrate \/
           KernelTakesCell
  BY <1>0, <1>6, MaxCellsAssumption DEF Bounds, TypeNumbers, Spawned, Kernels,
       Linked, Frame, session, worker, closer, kernel, wires, KernelConnect,
       KernelBoots, KernelHangsUp, KernelCrash, IdleInterrupted,
       KernelShutdown, KernelRehydrate, KernelTakesCell
<1>7. CASE GuardRefuses \/ ArmSigint \/ BodyStarts \/ LoopTorn \/ BodyEnds \/
           BodyInterrupted \/ DisarmSigint \/ KernelAnswers
  BY <1>0, <1>7, MaxCellsAssumption DEF Bounds, TypeNumbers, Spawned, Kernels,
       Snapshots, Linked, Frame, session, worker, closer, kernel, wires,
       GuardRefuses, ArmSigint, BodyStarts, LoopTorn, BodyEnds,
       BodyInterrupted, DisarmSigint, KernelAnswers
<1>8. CASE Terminated
  BY <1>8, Stutter DEF Terminated, IInv
<1>9. QED
  BY <1>1, <1>2, <1>3, <1>4, <1>5, <1>6, <1>7, <1>8 DEF Next, WorkerStep,
     Timeout, CloserStep, KernelStep, BodyStep

-----------------------------------------------------------------------------
(* The two directions of the socket. *)

\* A request is written behind the ones that wait.
LEMMA ReqAppend ==
  ASSUME TypeOK, NEW f \in Requests, req' = Append(req, f)
  PROVE  /\ req' \in Seq(Requests)
         /\ DOMAIN req' = 1 .. Len(req) + 1
         /\ DOMAIN req = 1 .. Len(req) /\ Len(req) \in Nat
         /\ \A i \in DOMAIN req : req'[i] = req[i]
         /\ req'[Len(req) + 1] = f
  BY AppendFacts DEF TypeOK

\* The kernel reads the first request.
LEMMA ReqTail ==
  ASSUME TypeOK, req # <<>>, req' = Tail(req)
  PROVE  /\ req' \in Seq(Requests)
         /\ Head(req) \in Requests /\ Head(req) = req[1] /\ 1 \in DOMAIN req
         /\ \A i \in DOMAIN req' :
              i \in Nat \ {0} /\ i + 1 \in DOMAIN req /\ req'[i] = req[i + 1]
  BY TailFacts DEF TypeOK

\* An answer written to the empty direction is the only one there.
LEMMA RespAppend ==
  ASSUME TypeOK, NEW f \in Answers, resp = <<>>, resp' = Append(resp, f)
  PROVE  /\ resp' = <<f>> /\ resp' \in Seq(Answers)
         /\ DOMAIN resp' = {1} /\ Len(resp') = 1 /\ resp'[1] = f
  BY AppendFacts DEF TypeOK

\* An answer that waits is the only one.
LEMMA RespOne ==
  ASSUME TypeOK, OneExchange, resp # <<>>
  PROVE  /\ Tail(resp) = <<>> /\ DOMAIN resp = {1}
         /\ Head(resp) = resp[1] /\ resp[1] \in Answers
         /\ Tail(resp) \in Seq(Answers) /\ DOMAIN Tail(resp) = {} /\ Len(Tail(resp)) = 0
  BY Single, EmptyFacts DEF TypeOK, OneExchange

\* While an answer waits the kernel has nothing to do.
LEMMA Idle ==
  ASSUME IInv, resp # <<>>
  PROVE  NoWork /\ ~Running /\ ~Booting
  BY DEF IInv, OneExchange

-----------------------------------------------------------------------------
(* One exchange at a time. *)

\* A code frame goes out when nothing else is under way.
LEMMA WriteIsOnly ==
  ASSUME IInv, WriteFrame
  PROVE  OneExchange'
<1>0. TypeOK /\ ExchangeIsMine /\ NoSocket /\ OneExchange
  BY DEF IInv
<1>1. CASE kpc = "dead"
  BY <1>0, <1>1 DEF OneExchange, WriteFrame, session, worker, kernel, closer, Running, Booting, NoWork
<1>2. CASE kpc # "dead"
  <2>1. NoWork /\ ~Running /\ ~Booting /\ resp = <<>> /\ resp' = <<>> /\ kpc' = kpc
    <3>1. DOMAIN req = 1 .. Len(req) /\ \A i \in DOMAIN req : req[i] \in Requests
      BY <1>0 DEF TypeOK
    <3>2. resp # <<>> => 1 \in DOMAIN resp
      BY <1>0, TailFacts DEF TypeOK
    <3> QED
      BY <1>0, <3>1, <3>2, RequestField DEF WriteFrame, ExchangeIsMine, NoSocket, NoWork, Sent, Spawned
  <2>2. [type |-> "code", cell |-> cell] \in Requests
    BY <1>0 DEF TypeOK, Requests
  <2>3. \A i \in DOMAIN req' : i # Len(req) + 1 => req'[i].type = "shutdown"
    BY <1>0, <1>2, <2>1, <2>2, ReqAppend DEF WriteFrame, NoWork
  <2>4. QED
    BY <1>0, <2>1, <2>3, EmptyFacts DEF OneExchange, Running, Booting, TypeOK
<1>3. QED
  BY <1>1, <1>2

\* The rehydrate request goes out when the hello has been read.
LEMMA HelloIsOnly ==
  ASSUME IInv, HelloReady
  PROVE  OneExchange'
<1>0. TypeOK /\ OneExchange /\ resp # <<>> /\ kpc' = kpc /\ resp' = <<>> /\ NoWork /\ ~Running /\ ~Booting
  BY RespOne, Idle DEF IInv, HelloReady
<1>1. CASE req' = req
  BY <1>0, <1>1, EmptyFacts DEF OneExchange, Running, Booting, NoWork, TypeOK
<1>2. CASE req' # req
  <2>1. req' = Append(req, [type |-> "rehydrate", cell |-> 0])
    BY <1>2 DEF HelloReady
  <2>2. [type |-> "rehydrate", cell |-> 0] \in Requests
    BY MaxCellsAssumption DEF Requests
  <2>3. \A i \in DOMAIN req' : i # Len(req) + 1 => req'[i].type = "shutdown"
    BY <1>0, <2>1, <2>2, ReqAppend DEF NoWork
  <2>4. QED
    BY <1>0, <2>3, EmptyFacts DEF OneExchange, Running, Booting, TypeOK
<1>3. QED
  BY <1>1, <1>2

\* The shutdown request asks for no work.
LEMMA ShutdownIsNoWork ==
  ASSUME IInv, AskToExit
  PROVE  OneExchange'
<1>0. TypeOK /\ OneExchange /\ kpc' = kpc /\ resp' = resp
  BY DEF IInv, AskToExit
<1>1. CASE req' = req
  BY <1>0, <1>1 DEF OneExchange, Running, Booting, NoWork
<1>2. CASE req' # req
  <2>1. req' = Append(req, [type |-> "shutdown", cell |-> 0])
    BY <1>2 DEF AskToExit
  <2>2. [type |-> "shutdown", cell |-> 0] \in Requests
    BY MaxCellsAssumption DEF Requests
  <2>3. \A i \in DOMAIN req' : req'[i].type # "shutdown" => i \in DOMAIN req /\ req'[i] = req[i]
    BY <1>0, <2>1, <2>2, ReqAppend
  <2>4. QED
    BY <1>0, <2>3 DEF OneExchange, Running, Booting, NoWork
<1>3. QED
  BY <1>1, <1>2

\* A swallowed interrupt can only lose a request.
LEMMA SwallowIsLess ==
  ASSUME IInv, IdleInterrupted
  PROVE  OneExchange'
<1>0. TypeOK /\ OneExchange /\ kpc' = kpc /\ resp' = resp /\ req' \in {req, <<>>}
  BY DEF IInv, IdleInterrupted, kernel
<1>1. CASE req' = req
  BY <1>0, <1>1 DEF OneExchange, Running, Booting, NoWork
<1>2. CASE req' = <<>>
  BY <1>0, <1>2, EmptyFacts DEF OneExchange, Running, Booting, NoWork, TypeOK
<1>3. QED
  BY <1>0, <1>1, <1>2

\* The kernel takes the one request that asks for work, or shutdown.
LEMMA TakingMovesIt ==
  ASSUME IInv, KernelShutdown \/ KernelRehydrate \/ KernelTakesCell
  PROVE  OneExchange'
<1>0. TypeOK /\ OneExchange /\ req # <<>> /\ req' = Tail(req) /\ kpc = "idle" /\ Head(req) = req[1] /\ 1 \in DOMAIN req
  BY ReqTail DEF IInv, KernelShutdown, KernelRehydrate, KernelTakesCell
<1>1. \A i, j \in DOMAIN req' : req'[i].type # "shutdown" /\ req'[j].type # "shutdown" => i = j
  <2>1. ASSUME NEW i \in DOMAIN req', NEW j \in DOMAIN req', req'[i].type # "shutdown", req'[j].type # "shutdown"
        PROVE  i = j
    <3>1. i + 1 = j + 1
      BY <1>0, <2>1, ReqTail DEF OneExchange
    <3>2. QED
      BY <1>0, <3>1, ReqTail
  <2>2. QED
    BY <2>1
<1>2. Head(req).type # "shutdown" => NoWork' /\ resp = <<>>
  <2>1. SUFFICES ASSUME Head(req).type # "shutdown" PROVE NoWork' /\ resp = <<>>
    OBVIOUS
  <2>2. \A i \in DOMAIN req' : i + 1 # 1
    BY <1>0, ReqTail
  <2>3. QED
    BY <1>0, <2>1, <2>2, ReqTail DEF OneExchange, NoWork
<1>3. CASE KernelShutdown
  <2>1. NoWork => NoWork'
    BY <1>0, ReqTail DEF NoWork
  <2>2. QED
    BY <1>0, <1>1, <1>3, <2>1 DEF KernelShutdown, OneExchange, Running, Booting
<1>4. CASE KernelRehydrate
  <2>1. Frame("ready", 0, "none", {}) \in Answers
    BY MaxCellsAssumption DEF Frame, Answers, State
  <2>2. Len(resp') = 1 /\ NoWork' /\ kpc' = "idle"
    BY <1>0, <1>2, <1>4, <2>1, RespAppend DEF KernelRehydrate
  <2>3. QED
    BY <1>1, <2>2 DEF OneExchange, Running, Booting
<1>5. CASE KernelTakesCell
  BY <1>0, <1>1, <1>2, <1>5 DEF KernelTakesCell, OneExchange, Running, Booting
<1>6. QED
  BY <1>3, <1>4, <1>5

\* Every step keeps it one.
LEMMA OneExchangeStep ==
  ASSUME IInv, Next
  PROVE  OneExchange'
<1>0. OneExchange /\ ExchangeIsMine /\ NoSocket /\ TypeReq /\ TypeResp
  BY TypeParts DEF IInv
<1>1. CASE ExecuteCell \/ WorkerAcquire \/ CheckPipe \/ TornUnderWorker \/ ReadReset \/ ReadFrame
  BY <1>0, <1>1 DEF OneExchange, ExchangeIsMine, NoSocket, TypeReq, TypeResp,
       Running, Booting, NoWork, Sent, Spawned, Finish, session, worker,
       closer, kernel, wires, ExecuteCell, WorkerAcquire, CheckPipe,
       TornUnderWorker, ReadReset, Reset, ReadFrame
<1>2. CASE ReadEof \/ TimeoutClean \/ TimeoutPartial \/ GraceExpires \/
           SendSigint \/ Report
  BY <1>0, <1>2 DEF OneExchange, ExchangeIsMine, NoSocket, TypeReq, TypeResp,
       Running, Booting, NoWork, Sent, Spawned, session, worker, closer,
       kernel, wires, ReadEof, TimeoutClean, TimeoutPartial, GraceExpires,
       SendSigint, Report
<1>3. CASE KillAndRespawn \/ Popen \/ PublishListener \/ RecheckClosed
  BY <1>0, <1>3 DEF OneExchange, ExchangeIsMine, NoSocket, TypeReq, TypeResp,
       Running, Booting, NoWork, Sent, Spawned, KillSilently, DropListener,
       Finish, worker, closer, kernel, wires, KillAndRespawn, Popen,
       PublishListener, RecheckClosed
<1>4. CASE Accept \/ AcceptFails \/ Restored \/ HandshakeFails
  BY <1>0, <1>4 DEF OneExchange, ExchangeIsMine, NoSocket, TypeReq, TypeResp,
       Running, Booting, NoWork, Sent, Spawned, KillSilently, DropListener,
       Finish, worker, closer, kernel, wires, Accept, AcceptFails, Restored,
       HandshakeFails
<1>5. CASE Close \/ WakeAccept \/ CloserAcquire \/ AcquireExpires \/ ForceKill
           \/ ReacquireExpires \/ WaitForExit \/ Teardown \/ Cleanup
  BY <1>0, <1>5 DEF OneExchange, ExchangeIsMine, NoSocket, TypeReq, TypeResp,
       Running, Booting, NoWork, Sent, Spawned, KillSilently, session, worker,
       closer, kernel, wires, Close, WakeAccept, CloserAcquire,
       AcquireExpires, ForceKill, ReacquireExpires, WaitForExit, Teardown,
       Cleanup
<1>6. CASE KernelConnect \/ KernelBoots \/ KernelHangsUp \/ KernelCrash
  BY <1>0, <1>6 DEF OneExchange, ExchangeIsMine, NoSocket, TypeReq, TypeResp,
       Running, Booting, NoWork, Sent, Spawned, Linked, Frame, session,
       worker, closer, kernel, wires, KernelConnect, KernelBoots,
       KernelHangsUp, KernelCrash
<1>7. CASE GuardRefuses \/ ArmSigint \/ BodyStarts \/ LoopTorn \/ BodyEnds \/
           BodyInterrupted \/ DisarmSigint \/ KernelAnswers
  BY <1>0, <1>7 DEF OneExchange, ExchangeIsMine, NoSocket, TypeReq, TypeResp,
       Running, Booting, NoWork, Sent, Spawned, Snapshots, Linked, Frame,
       session, worker, closer, kernel, wires, GuardRefuses, ArmSigint,
       BodyStarts, LoopTorn, BodyEnds, BodyInterrupted, DisarmSigint,
       KernelAnswers
<1>8. CASE Terminated
  BY <1>8, Stutter DEF Terminated, IInv
<1>9. CASE WriteFrame
  BY <1>9, WriteIsOnly
<1>10. CASE HelloReady
  BY <1>10, HelloIsOnly
<1>11. CASE AskToExit
  BY <1>11, ShutdownIsNoWork
<1>12. CASE IdleInterrupted
  BY <1>12, SwallowIsLess
<1>13. CASE KernelShutdown \/ KernelRehydrate \/ KernelTakesCell
  BY <1>13, TakingMovesIt
<1>14. QED
  BY <1>1, <1>2, <1>3, <1>4, <1>5, <1>6, <1>7, <1>8, <1>9, <1>10, <1>11,
     <1>12, <1>13 DEF Next, WorkerStep, Timeout, CloserStep, KernelStep,
     BodyStep

-----------------------------------------------------------------------------
(* It belongs to the call in progress. *)

\* The code frame of this call.
LEMMA WriteIsMine ==
  ASSUME IInv, WriteFrame
  PROVE  ExchangeIsMine'
<1>0. TypeOK /\ ExchangeIsMine /\ NoSocket /\ OneExchange
  BY DEF IInv
<1>1. CASE kpc = "dead"
  BY <1>0, <1>1 DEF ExchangeIsMine, WriteFrame, session, worker, kernel, closer, Running, Sent, Spawned
<1>2. CASE kpc # "dead"
  <2>1. resp = <<>> /\ ~Running /\ resp' = resp /\ kpc' = kpc /\ wpc' = "read" /\ cell' = cell
    <3>1. resp # <<>> => 1 \in DOMAIN resp
      BY <1>0, TailFacts DEF TypeOK
    <3> QED
      BY <1>0, <1>2, <3>1 DEF WriteFrame, ExchangeIsMine, Sent, Spawned, worker
  <2>2. [type |-> "code", cell |-> cell] \in Requests
    BY <1>0 DEF TypeOK, Requests
  <2>3. \A i \in DOMAIN req : req[i].type \notin {"code", "rehydrate"}
    BY <1>0 DEF ExchangeIsMine, WriteFrame, Sent
  <2>4. \A i \in DOMAIN req' : (i \in DOMAIN req /\ req'[i] = req[i]) \/ req'[i] = [type |-> "code", cell |-> cell]
    BY <1>0, <1>2, <2>2, ReqAppend DEF WriteFrame
  <2>5. DOMAIN resp' = {}
    BY <1>0, <2>1, EmptyFacts DEF TypeOK
  <2>6. QED
    BY <2>1, <2>3, <2>4, <2>5 DEF ExchangeIsMine, Running, Sent
<1>3. QED
  BY <1>1, <1>2

\* Without a socket there is nothing left of the exchange.
LEMMA TornLeavesNothing ==
  ASSUME IInv, TornUnderWorker
  PROVE  ExchangeIsMine'
<1>1. TypeOK /\ ~pipe /\ ~Running /\ NoWork /\ resp = <<>>
  BY DEF IInv, NoSocket, Spawned, TornUnderWorker
<1>2. DOMAIN resp = {}
  BY <1>1, EmptyFacts DEF TypeOK
<1>3. QED
  BY <1>1, <1>2 DEF TornUnderWorker, Finish, ExchangeIsMine, Running, NoWork, wires, kernel

\* Nor does a reset leave anything.
LEMMA ResetLeavesNothing ==
  ASSUME IInv, ReadReset
  PROVE  ExchangeIsMine'
<1>1. TypeOK /\ kpc = "dead" /\ resp = <<>> /\ req' = <<>> /\ resp' = resp /\ wpc' = "idle"
  BY DEF IInv, ReadReset, Reset, Finish
<1>2. DOMAIN resp' = {} /\ DOMAIN req' = {} /\ kpc' = "dead"
  BY <1>1, EmptyFacts DEF TypeOK, ReadReset
<1>3. QED
  BY <1>1, <1>2 DEF ExchangeIsMine, Running

\* Reading ends the exchange: the reply is this cell's, or a kill follows.
LEMMA ReadIsMine ==
  ASSUME IInv, ReadFrame \/ Restored
  PROVE  ExchangeIsMine'
<1>1. TypeOK /\ OneExchange /\ ExchangeIsMine /\ ~Running /\ NoWork /\ resp # <<>> /\ Head(resp) = resp[1] /\ 1 \in DOMAIN resp
  BY Idle, RespOne DEF IInv, ReadFrame, Restored
<1>2. DOMAIN resp' = {} /\ req' = req /\ kpc' = kpc
  BY <1>1, RespOne DEF ReadFrame, Restored
<1>3. CASE ReadFrame
  <2>1. resp[1].type \in {"unreadable", "boot_error"} \/ (reply' = resp[1] /\ resp[1].type \in {"result", "return"})
    <3>1. resp[1].type \in {"ready", "boot_error", "result", "return", "unreadable"}
      BY <1>1, RespOne DEF Answers
    <3>2. QED
      BY <1>1, <1>3, <3>1 DEF ReadFrame, ExchangeIsMine, Sent
  <2>2. QED
    BY <1>1, <1>2, <1>3, <2>1 DEF ReadFrame, ExchangeIsMine, Running, NoWork, Sent
<1>4. CASE Restored
  BY <1>1, <1>2, <1>4 DEF Restored, Finish, ExchangeIsMine, Running, NoWork, kernel
<1>5. QED
  BY <1>3, <1>4

\* The hello is followed by a rehydrate request or by nothing.
LEMMA HelloIsMine ==
  ASSUME IInv, HelloReady
  PROVE  ExchangeIsMine'
<1>0. TypeOK /\ OneExchange /\ resp # <<>> /\ kpc' = kpc /\ resp' = <<>> /\ NoWork /\ ~Running /\ cell' = cell
  BY RespOne, Idle DEF IInv, HelloReady
<1>1. DOMAIN resp' = {}
  BY <1>0, EmptyFacts DEF TypeOK
<1>2. CASE req' = req
  BY <1>0, <1>1, <1>2 DEF ExchangeIsMine, Running, NoWork, HelloReady, Finish
<1>3. CASE req' # req
  <2>1. req' = Append(req, [type |-> "rehydrate", cell |-> 0]) /\ wpc' = "restored"
    BY <1>3 DEF HelloReady
  <2>2. [type |-> "rehydrate", cell |-> 0] \in Requests
    BY MaxCellsAssumption DEF Requests
  <2>3. \A i \in DOMAIN req' : req'[i].type \in {"shutdown", "rehydrate"}
    BY <1>0, <2>1, <2>2, ReqAppend DEF NoWork
  <2>4. QED
    BY <1>0, <1>1, <2>1, <2>3 DEF ExchangeIsMine, Running
<1>4. QED
  BY <1>2, <1>3

\* The shutdown request belongs to no call.
LEMMA ShutdownIsNobodys ==
  ASSUME IInv, AskToExit
  PROVE  ExchangeIsMine'
<1>0. TypeOK /\ ExchangeIsMine /\ kpc' = kpc /\ resp' = resp /\ UNCHANGED <<wpc, cell, kcell, reply>>
  BY DEF IInv, AskToExit, worker, kernel
<1>1. CASE req' = req
  BY <1>0, <1>1 DEF ExchangeIsMine, Running
<1>2. CASE req' # req
  <2>1. req' = Append(req, [type |-> "shutdown", cell |-> 0])
    BY <1>2 DEF AskToExit
  <2>2. [type |-> "shutdown", cell |-> 0] \in Requests
    BY MaxCellsAssumption DEF Requests
  <2>3. \A i \in DOMAIN req' : req'[i].type # "shutdown" => i \in DOMAIN req /\ req'[i] = req[i]
    BY <1>0, <2>1, <2>2, ReqAppend
  <2>4. QED
    BY <1>0, <2>3 DEF ExchangeIsMine, Running
<1>3. QED
  BY <1>1, <1>2

\* A kernel that boots is the one the worker waits for.
LEMMA BootIsMine ==
  ASSUME IInv, KernelBoots
  PROVE  ExchangeIsMine'
<1>0. TypeOK /\ OneExchange /\ ExchangeIsMine /\ NoSocket /\ Booting /\ resp = <<>> /\ NoWork
  BY DEF IInv, OneExchange, Booting, KernelBoots
<1>1. wpc \in Spawned \cup {"hello"}
  BY <1>0 DEF NoSocket, KernelBoots, Linked
<1>2. /\ DOMAIN resp' = {1} /\ resp'[1].type \in {"ready", "boot_error"}
      /\ kpc' \in {"idle", "dead"} /\ UNCHANGED <<req, wpc, cell, kcell, reply>>
  <2>1. Frame("ready", 0, "none", {}) \in Answers /\ Frame("boot_error", 0, "none", {}) \in Answers
    BY MaxCellsAssumption DEF Frame, Answers, State
  <2>2. QED
    BY <1>0, <2>1, RespAppend DEF KernelBoots, worker, kernel, Frame
<1>3. QED
  BY <1>0, <1>1, <1>2 DEF ExchangeIsMine, Running, NoWork, Sent, Spawned

\* Losing a request leaves only what was there.
LEMMA SwallowIsMine ==
  ASSUME IInv, IdleInterrupted
  PROVE  ExchangeIsMine'
<1>0. TypeOK /\ ExchangeIsMine /\ kpc' = kpc /\ resp' = resp /\ req' \in {req, <<>>} /\ UNCHANGED <<wpc, cell, kcell, reply>>
  BY DEF IInv, IdleInterrupted, kernel, worker
<1>1. DOMAIN <<>> = {}
  BY <1>0, EmptyFacts DEF TypeOK
<1>2. QED
  BY <1>0, <1>1 DEF ExchangeIsMine, Running

\* The kernel runs what was asked of it.
LEMMA TakingIsMine ==
  ASSUME IInv, KernelRehydrate \/ KernelTakesCell
  PROVE  ExchangeIsMine'
<1>0. TypeOK /\ OneExchange /\ ExchangeIsMine /\ req # <<>> /\ Head(req) = req[1] /\ 1 \in DOMAIN req
      /\ resp = <<>> /\ req' = Tail(req) /\ UNCHANGED <<wpc, cell, reply>>
  BY ReqTail DEF IInv, KernelRehydrate, KernelTakesCell, OneExchange, NoWork, worker
<1>1. \A i \in DOMAIN req' : i + 1 \in DOMAIN req /\ req'[i] = req[i + 1]
  BY <1>0, ReqTail
<1>2. CASE KernelRehydrate
  <2>1. Frame("ready", 0, "none", {}) \in Answers
    BY MaxCellsAssumption DEF Frame, Answers, State
  <2>2. DOMAIN resp' = {1} /\ resp'[1].type = "ready" /\ kpc' = "idle"
    BY <1>0, <1>2, <2>1, RespAppend DEF KernelRehydrate, Frame
  <2>3. wpc = "restored"
    BY <1>0, <1>2 DEF ExchangeIsMine, KernelRehydrate
  <2>4. QED
    BY <1>0, <1>1, <2>2, <2>3 DEF ExchangeIsMine, Running, Sent
<1>3. CASE KernelTakesCell
  <2>1. DOMAIN resp' = {} /\ kcell' = req[1].cell /\ wpc \in Sent /\ req[1].cell = cell
    BY <1>0, <1>3, EmptyFacts DEF ExchangeIsMine, KernelTakesCell, TypeOK
  <2>2. QED
    BY <1>0, <1>1, <2>1 DEF ExchangeIsMine
<1>4. QED
  BY <1>2, <1>3

\* A loop torn by SIGINT is torn in this cell.
LEMMA TornIsMine ==
  ASSUME IInv, LoopTorn
  PROVE  ExchangeIsMine'
<1>0. TypeOK /\ OneExchange /\ ExchangeIsMine /\ Running /\ resp = <<>> /\ NoWork /\ wpc \in Sent
  BY DEF IInv, OneExchange, Running, LoopTorn, ExchangeIsMine
<1>1. Frame("boot_error", kcell, "none", {}) \in Answers
  BY <1>0 DEF Frame, Answers, State, TypeOK
<1>2. DOMAIN resp' = {1} /\ resp'[1].type = "boot_error"
  BY <1>0, <1>1, RespAppend DEF LoopTorn, Frame
<1>3. QED
  BY <1>0, <1>2 DEF ExchangeIsMine, Running, NoWork, LoopTorn, worker, kernel

\* Every step keeps it this call's.
LEMMA ExchangeIsMineStep ==
  ASSUME IInv, Next
  PROVE  ExchangeIsMine'
<1>0. ExchangeIsMine /\ OneExchange /\ NoSocket /\ TypeReq /\ TypeResp /\
      TypeNumbers
  BY TypeParts DEF IInv
<1>1. CASE ExecuteCell \/ WorkerAcquire \/ CheckPipe
  BY <1>0, <1>1 DEF ExchangeIsMine, OneExchange, NoSocket, TypeReq, TypeResp,
       TypeNumbers, Running, Booting, NoWork, Sent, Spawned, session, worker,
       closer, kernel, wires, ExecuteCell, WorkerAcquire, CheckPipe
<1>2. CASE ReadEof \/ TimeoutClean \/ TimeoutPartial \/ GraceExpires \/
           SendSigint \/ Report
  BY <1>0, <1>2 DEF ExchangeIsMine, OneExchange, NoSocket, TypeReq, TypeResp,
       TypeNumbers, Running, Booting, NoWork, Sent, Spawned, session, worker,
       closer, kernel, wires, ReadEof, TimeoutClean, TimeoutPartial,
       GraceExpires, SendSigint, Report
<1>3. CASE KillAndRespawn \/ Popen \/ PublishListener \/ RecheckClosed
  BY <1>0, <1>3 DEF ExchangeIsMine, OneExchange, NoSocket, TypeReq, TypeResp,
       TypeNumbers, Running, Booting, NoWork, Sent, Spawned, KillSilently,
       DropListener, Finish, worker, closer, kernel, wires, KillAndRespawn,
       Popen, PublishListener, RecheckClosed
<1>4. CASE Accept \/ AcceptFails \/ HandshakeFails
  BY <1>0, <1>4 DEF ExchangeIsMine, OneExchange, NoSocket, TypeReq, TypeResp,
       TypeNumbers, Running, Booting, NoWork, Sent, Spawned, KillSilently,
       DropListener, Finish, worker, closer, kernel, wires, Accept,
       AcceptFails, HandshakeFails
<1>5. CASE Close \/ WakeAccept \/ CloserAcquire \/ AcquireExpires \/ ForceKill
           \/ ReacquireExpires \/ WaitForExit \/ Teardown \/ Cleanup
  BY <1>0, <1>5 DEF ExchangeIsMine, OneExchange, NoSocket, TypeReq, TypeResp,
       TypeNumbers, Running, Booting, NoWork, Sent, Spawned, KillSilently,
       session, worker, closer, kernel, wires, Close, WakeAccept,
       CloserAcquire, AcquireExpires, ForceKill, ReacquireExpires,
       WaitForExit, Teardown, Cleanup
<1>6. CASE KernelConnect \/ KernelHangsUp
  BY <1>0, <1>6 DEF ExchangeIsMine, OneExchange, NoSocket, TypeReq, TypeResp,
       TypeNumbers, Running, Booting, NoWork, Sent, Spawned, Linked, session,
       worker, closer, kernel, wires, KernelConnect, KernelHangsUp
<1>7. CASE KernelCrash
  BY <1>0, <1>7 DEF ExchangeIsMine, OneExchange, NoSocket, TypeReq, TypeResp,
       TypeNumbers, Running, Booting, NoWork, Sent, Spawned, session, worker,
       closer, kernel, wires, KernelCrash
<1>8. CASE KernelShutdown
  BY <1>0, <1>8 DEF ExchangeIsMine, OneExchange, NoSocket, TypeReq, TypeResp,
       TypeNumbers, Running, Booting, NoWork, Sent, Spawned, session, worker,
       closer, kernel, KernelShutdown
<1>9. CASE GuardRefuses \/ ArmSigint \/ BodyStarts \/ BodyEnds \/
           BodyInterrupted \/ DisarmSigint \/ KernelAnswers
  BY <1>0, <1>9 DEF ExchangeIsMine, OneExchange, NoSocket, TypeReq, TypeResp,
       TypeNumbers, Running, Booting, NoWork, Sent, Spawned, Snapshots,
       Linked, Frame, session, worker, closer, kernel, wires, GuardRefuses,
       ArmSigint, BodyStarts, BodyEnds, BodyInterrupted, DisarmSigint,
       KernelAnswers
<1>10. CASE Terminated
  BY <1>10, Stutter DEF Terminated, IInv
<1>11. CASE WriteFrame
  BY <1>11, WriteIsMine
<1>12. CASE TornUnderWorker \/ ReadReset
  BY <1>12, TornLeavesNothing, ResetLeavesNothing
<1>13. CASE ReadFrame \/ Restored
  BY <1>13, ReadIsMine
<1>14. CASE HelloReady
  BY <1>14, HelloIsMine
<1>15. CASE AskToExit
  BY <1>15, ShutdownIsNobodys
<1>16. CASE KernelBoots
  BY <1>16, BootIsMine
<1>17. CASE IdleInterrupted
  BY <1>17, SwallowIsMine
<1>18. CASE KernelRehydrate \/ KernelTakesCell
  BY <1>18, TakingIsMine
<1>19. CASE LoopTorn
  BY <1>19, TornIsMine
<1>20. QED
  BY <1>1, <1>2, <1>3, <1>4, <1>5, <1>6, <1>7, <1>8, <1>9, <1>10, <1>11,
     <1>12, <1>13, <1>14, <1>15, <1>16, <1>17, <1>18, <1>19 DEF Next,
     WorkerStep, Timeout, CloserStep, KernelStep, BodyStep

-----------------------------------------------------------------------------
(* No socket, no exchange. *)

\* A rehydrate request has come through a socket.
LEMMA RehydrateHasSocket ==
  ASSUME IInv, KernelRehydrate
  PROVE  NoSocket'
<1>0. TypeOK /\ OneExchange /\ NoSocket /\ ExchangeIsMine /\ req # <<>> /\ Head(req) = req[1] /\ 1 \in DOMAIN req
  BY ReqTail DEF IInv, KernelRehydrate
<1>1. pipe
  BY <1>0 DEF NoSocket, NoWork, KernelRehydrate
<1>2. wpc = "restored"
  BY <1>0 DEF ExchangeIsMine, KernelRehydrate
<1>3. QED
  BY <1>0, <1>1, <1>2 DEF NoSocket, KernelRehydrate, Running, Booting, session

\* Every step keeps it so.
LEMMA NoSocketStep ==
  ASSUME IInv, Next
  PROVE  NoSocket'
<1>0. NoSocket /\ ExchangeIsMine /\ OneExchange /\ TypeReq /\ TypeResp
  BY TypeParts DEF IInv
<1>1. CASE ExecuteCell \/ WorkerAcquire \/ CheckPipe \/ WriteFrame \/
           TornUnderWorker \/ ReadReset \/ ReadFrame
  BY <1>0, <1>1 DEF NoSocket, ExchangeIsMine, OneExchange, TypeReq, TypeResp,
       Running, Booting, NoWork, Sent, Spawned, Finish, session, worker,
       closer, kernel, wires, ExecuteCell, WorkerAcquire, CheckPipe,
       WriteFrame, TornUnderWorker, ReadReset, Reset, ReadFrame
<1>2. CASE ReadEof \/ TimeoutClean \/ TimeoutPartial \/ GraceExpires \/
           SendSigint \/ Report
  BY <1>0, <1>2 DEF NoSocket, ExchangeIsMine, OneExchange, TypeReq, TypeResp,
       Running, Booting, NoWork, Sent, Spawned, session, worker, closer,
       kernel, wires, ReadEof, TimeoutClean, TimeoutPartial, GraceExpires,
       SendSigint, Report
<1>3. CASE KillAndRespawn \/ Popen \/ PublishListener \/ RecheckClosed
  BY <1>0, <1>3 DEF NoSocket, ExchangeIsMine, OneExchange, TypeReq, TypeResp,
       Running, Booting, NoWork, Sent, Spawned, KillSilently, DropListener,
       Finish, worker, closer, kernel, wires, KillAndRespawn, Popen,
       PublishListener, RecheckClosed
<1>4. CASE Accept \/ AcceptFails \/ HelloReady \/ Restored \/ HandshakeFails
  BY <1>0, <1>4 DEF NoSocket, ExchangeIsMine, OneExchange, TypeReq, TypeResp,
       Running, Booting, NoWork, Sent, Spawned, KillSilently, DropListener,
       Finish, worker, closer, kernel, wires, Accept, AcceptFails, HelloReady,
       Restored, HandshakeFails
<1>5. CASE Close \/ WakeAccept \/ CloserAcquire \/ AcquireExpires \/ ForceKill
           \/ ReacquireExpires \/ AskToExit \/ WaitForExit \/ Teardown \/
           Cleanup
  BY <1>0, <1>5 DEF NoSocket, ExchangeIsMine, OneExchange, TypeReq, TypeResp,
       Running, Booting, NoWork, Sent, Spawned, KillSilently, session, worker,
       closer, kernel, wires, Close, WakeAccept, CloserAcquire,
       AcquireExpires, ForceKill, ReacquireExpires, AskToExit, WaitForExit,
       Teardown, Cleanup
<1>6. CASE KernelConnect \/ KernelBoots \/ KernelHangsUp
  BY <1>0, <1>6 DEF NoSocket, ExchangeIsMine, OneExchange, TypeReq, TypeResp,
       Running, Booting, NoWork, Sent, Spawned, Linked, Frame, session,
       worker, closer, kernel, wires, KernelConnect, KernelBoots,
       KernelHangsUp
<1>7. CASE KernelCrash \/ IdleInterrupted
  BY <1>0, <1>7 DEF NoSocket, ExchangeIsMine, OneExchange, TypeReq, TypeResp,
       Running, Booting, NoWork, Sent, Spawned, session, worker, closer,
       kernel, wires, KernelCrash, IdleInterrupted
<1>8. CASE KernelShutdown
  BY <1>0, <1>8 DEF NoSocket, ExchangeIsMine, OneExchange, TypeReq, TypeResp,
       Running, Booting, NoWork, Sent, Spawned, session, worker, closer,
       kernel, KernelShutdown
<1>9. CASE KernelTakesCell
  BY <1>0, <1>9 DEF NoSocket, ExchangeIsMine, OneExchange, TypeReq, TypeResp,
       Running, Booting, NoWork, Sent, Spawned, session, worker, closer,
       KernelTakesCell
<1>10. CASE GuardRefuses \/ ArmSigint \/ BodyStarts \/ LoopTorn \/ BodyEnds \/
           BodyInterrupted \/ DisarmSigint \/ KernelAnswers
  BY <1>0, <1>10 DEF NoSocket, ExchangeIsMine, OneExchange, TypeReq, TypeResp,
       Running, Booting, NoWork, Sent, Spawned, Snapshots, Linked, Frame,
       session, worker, closer, kernel, wires, GuardRefuses, ArmSigint,
       BodyStarts, LoopTorn, BodyEnds, BodyInterrupted, DisarmSigint,
       KernelAnswers
<1>11. CASE Terminated
  BY <1>11, Stutter DEF Terminated, IInv
<1>12. CASE KernelRehydrate
  BY <1>12, RehydrateHasSocket
<1>13. QED
  BY <1>1, <1>2, <1>3, <1>4, <1>5, <1>6, <1>7, <1>8, <1>9, <1>10, <1>11, <1>12
     DEF Next, WorkerStep, Timeout, CloserStep, KernelStep, BodyStep

-----------------------------------------------------------------------------
(* Nothing of a cell that is to be run again. *)

\* The same calls with the same outcomes: the same clean cells.
LEMMA CleanSame ==
  ASSUME out' = out, cell' = cell
  PROVE  Clean' = Clean
  BY DEF Clean

\* The call in progress gets its outcome: no other cell stops being clean.
LEMMA CleanDone ==
  ASSUME IInv, wpc # "idle", NEW o \in Outcomes, out' = [out EXCEPT ![cell] = o], cell' = cell
  PROVE  /\ Clean \ {cell} \subseteq Clean'
         /\ o \notin {"rerun", "raised"} => Clean \subseteq Clean'
         /\ \A n \in Cells : n > cell => out'[n] = "none"
         /\ {0} \subseteq Clean' /\ cell # 0
<1>1. TypeOK /\ Bounds /\ OnlyClean
  BY DEF IInv
<1>2. cell \in Cells /\ MaxCells \in Nat
  BY <1>1, MaxCellsAssumption DEF TypeOK, Bounds, Cells
<1>3. \A n \in Cells : out'[n] = IF n = cell THEN o ELSE out[n]
  BY <1>1 DEF TypeOK
<1>4. Clean \subseteq 0 .. cell /\ \A n \in Clean : n = 0 \/ n \in Cells
  BY <1>2 DEF Clean, Cells
<1>5. QED BY <1>1, <1>2, <1>3, <1>4 DEF Clean, OnlyClean, Cells

\* A new call has no effects yet.
LEMMA CallIsClean ==
  ASSUME IInv, ExecuteCell
  PROVE  OnlyClean'
<1>0. TypeOK /\ OnlyClean /\ Bounds /\ ExchangeIsMine /\ MaxCells \in Nat
  BY MaxCellsAssumption DEF IInv
<1>1. Clean \subseteq Clean'
  <2>1. cell' = cell + 1 /\ out' = out /\ cell \in Nat
    BY <1>0 DEF ExecuteCell, TypeOK
  <2>2. QED
    BY <2>1 DEF Clean
<1>2. cell' \notin blob'
  <2>1. blob \subseteq 0 .. cell /\ cell \in 0 .. MaxCells
    BY <1>0 DEF OnlyClean, Clean, TypeOK
  <2>2. QED
    BY <2>1 DEF ExecuteCell
<1>3. UNCHANGED <<blob, ns, kpc, pipe, resp, out>> /\ wpc' = "lock" /\ wpc = "idle" /\ cell' = cell + 1 /\ cell \in Nat
  BY <1>0 DEF ExecuteCell, kernel, wires, TypeOK
<1>4. \A n \in Cells : n > cell' \/ n = cell' => out'[n] = "none"
  BY <1>0, <1>3 DEF OnlyClean, Cells
<1>5. QED
  BY <1>0, <1>1, <1>2, <1>3, <1>4 DEF OnlyClean

\* A call that ends without a socket leaves a kernel that ran nothing.
LEMMA GivingUpIsClean ==
  ASSUME IInv, TornUnderWorker \/ RecheckClosed
  PROVE  OnlyClean'
<1>0. TypeOK /\ OnlyClean /\ NoSocket /\ wpc # "idle" /\ UNCHANGED <<blob, ns, kpc, pipe, cell>> /\ ~pipe /\ wpc # "hello"
  BY DEF IInv, TornUnderWorker, RecheckClosed, NoSocket, Spawned, session, kernel
<1>1. CASE wpc' = "accept"
  BY <1>0, <1>1, CleanSame DEF RecheckClosed, TornUnderWorker, Finish, OnlyClean
<1>2. CASE wpc' = "idle"
  <2>1. out' = [out EXCEPT ![cell] = "raised"] /\ "raised" \in Outcomes
    BY <1>0, <1>2 DEF TornUnderWorker, RecheckClosed, Finish, Outcomes
  <2>2. /\ Clean \ {cell} \subseteq Clean' /\ {0} \subseteq Clean'
        /\ \A n \in Cells : n > cell => out'[n] = "none"
    BY <1>0, <2>1, CleanDone
  <2>3. DOMAIN resp' = {}
    <3>1. TornUnderWorker => resp = <<>>
      BY <1>0 DEF TornUnderWorker, NoSocket, Spawned
    <3>2. resp' = <<>>
      BY <1>2, <3>1 DEF TornUnderWorker, RecheckClosed, wires
    <3>3. QED
      BY <1>0, <3>2, EmptyFacts DEF TypeOK
  <2>4. QED
    BY <1>0, <1>2, <2>2, <2>3 DEF OnlyClean
<1>3. QED
  BY <1>1, <1>2 DEF TornUnderWorker, RecheckClosed, Finish

\* A reset leaves a kernel that is dead.
LEMMA ResetIsClean ==
  ASSUME IInv, ReadReset
  PROVE  OnlyClean'
<1>0. /\ TypeOK /\ OnlyClean /\ wpc # "idle" /\ wpc' = "idle" /\ kpc' = "dead"
      /\ UNCHANGED <<blob, cell>>
  BY DEF IInv, ReadReset, Reset, Finish, session
<1>1. out' = [out EXCEPT ![cell] = "raised"] /\ "raised" \in Outcomes
  BY DEF ReadReset, Finish, Outcomes
<1>2. /\ Clean \ {cell} \subseteq Clean'
      /\ \A n \in Cells : n > cell => out'[n] = "none"
  BY <1>0, <1>1, CleanDone
<1>3. DOMAIN resp' = {}
  BY EmptyFacts DEF ReadReset, Reset
<1>4. QED
  BY <1>0, <1>2, <1>3 DEF OnlyClean

\* The reply brings the snapshot of the kernel's state.
LEMMA ReadIsClean ==
  ASSUME IInv, ReadFrame
  PROVE  OnlyClean'
<1>1. TypeOK /\ OnlyClean /\ resp # <<>> /\ Head(resp) = resp[1] /\ 1 \in DOMAIN resp /\ DOMAIN resp' = {}
  BY RespOne DEF IInv, ReadFrame
<1>2. UNCHANGED <<blob, ns, kpc, pipe, cell, out>> /\ wpc \notin {"idle", "hello"} /\ wpc' \in {"kill", "reply"}
      /\ (wpc' = "reply" => reply' = resp[1])
  BY <1>1 DEF ReadFrame, session, kernel
<1>3. Clean' = Clean
  BY <1>2, CleanSame
<1>4. QED
  BY <1>1, <1>2, <1>3 DEF OnlyClean

\* A reported cell is one whose effects may stay.
LEMMA ReportIsClean ==
  ASSUME IInv, Report
  PROVE  OnlyClean'
<1>0. TypeOK /\ OnlyClean /\ ExchangeIsMine /\ wpc = "reply" /\ wpc' = "idle" /\ UNCHANGED <<ns, kpc, pipe, cell, resp>> /\ blob' \in {blob, reply.snap}
  BY DEF IInv, Report, kernel, wires
<1>1. PICK o \in {"interrupted", "returned", "executed"} : out' = [out EXCEPT ![cell] = o]
  BY DEF Report
<1>2. /\ Clean \subseteq Clean'
      /\ \A n \in Cells : n > cell => out'[n] = "none"
  BY <1>0, <1>1, CleanDone DEF Outcomes
<1>3. QED
  BY <1>0, <1>2 DEF OnlyClean

\* The kernel that ran the cell is dead, and its answer with it.
LEMMA KillIsClean ==
  ASSUME IInv, KillAndRespawn
  PROVE  OnlyClean'
<1>0. TypeOK /\ OnlyClean /\ wpc = "kill" /\ kpc' = "dead" /\ resp' = <<>> /\ UNCHANGED <<blob, cell>>
  BY DEF IInv, KillAndRespawn, KillSilently
<1>1. DOMAIN resp' = {}
  BY <1>0, EmptyFacts DEF TypeOK
<1>2. CASE closed
  <2>1. out' = [out EXCEPT ![cell] = "rerun"] /\ wpc' = "idle" /\ "rerun" \in Outcomes
    BY <1>2 DEF KillAndRespawn, Finish, Outcomes
  <2>2. /\ Clean \ {cell} \subseteq Clean'
        /\ \A n \in Cells : n > cell => out'[n] = "none"
    BY <1>0, <2>1, CleanDone
  <2>3. QED
    BY <1>0, <1>1, <2>1, <2>2 DEF OnlyClean
<1>3. CASE ~closed
  <2>1. out' = out /\ wpc' = "popen"
    BY <1>3 DEF KillAndRespawn
  <2>2. QED
    BY <1>0, <1>1, <2>1, CleanSame DEF OnlyClean
<1>4. QED
  BY <1>2, <1>3

\* A fresh kernel holds nothing.
LEMMA HelloIsClean ==
  ASSUME IInv, HelloReady
  PROVE  OnlyClean'
<1>0. TypeOK /\ OnlyClean /\ wpc = "hello" /\ pipe /\ UNCHANGED <<blob, cell, ns, kpc, pipe>> /\ DOMAIN resp' = {}
  BY RespOne DEF IInv, HelloReady, kernel
<1>1. CASE wpc' = "restored"
  BY <1>0, <1>1, CleanSame DEF HelloReady, Finish, OnlyClean
<1>2. CASE wpc' = "idle"
  <2>1. PICK o \in {"rerun", "raised"} : out' = [out EXCEPT ![cell] = o]
    BY <1>2 DEF HelloReady, Finish
  <2>2. /\ Clean \ {cell} \subseteq Clean' /\ {0} \subseteq Clean'
        /\ \A n \in Cells : n > cell => out'[n] = "none"
    BY <1>0, <2>1, CleanDone DEF Outcomes
  <2>3. QED
    BY <1>0, <1>2, <2>2 DEF OnlyClean
<1>3. QED
  BY <1>1, <1>2 DEF HelloReady, Finish

\* A restored kernel holds what the snapshot held.
LEMMA RestoredIsClean ==
  ASSUME IInv, Restored
  PROVE  OnlyClean'
<1>0. TypeOK /\ OnlyClean /\ wpc = "restored" /\ pipe /\ wpc' = "idle" /\ UNCHANGED <<blob, cell, ns, kpc, pipe>> /\ DOMAIN resp' = {}
  BY RespOne DEF IInv, Restored, kernel, Finish
<1>1. out' = [out EXCEPT ![cell] = "rerun"] /\ "rerun" \in Outcomes
  BY DEF Restored, Finish, Outcomes
<1>2. /\ Clean \ {cell} \subseteq Clean' /\ {0} \subseteq Clean' /\ cell # 0
      /\ \A n \in Cells : n > cell => out'[n] = "none"
  BY <1>0, <1>1, CleanDone
<1>3. QED
  BY <1>0, <1>2 DEF OnlyClean

\* An answer carries the kernel's state or nothing.
LEMMA AnswerIsClean ==
  ASSUME IInv, KernelBoots \/ LoopTorn \/ GuardRefuses \/ KernelAnswers
  PROVE  OnlyClean'
<1>0. TypeOK /\ OnlyClean /\ OneExchange /\ (Running \/ Booting) /\ resp = <<>>
      /\ kpc # "dead" /\ UNCHANGED <<blob, cell, ns, pipe, wpc, out, reply>>
  BY DEF IInv, OneExchange, KernelBoots, LoopTorn, GuardRefuses, KernelAnswers, Running, Booting, session, kernel, worker
<1>1. \E f \in Answers : f.snap \in {{}, ns} /\ resp' = Append(resp, f)
  <2>1. ASSUME NEW t \in {"ready", "boot_error", "result", "return", "unreadable"},
               NEW n \in {0, kcell}, NEW h \in {"none", "done", "cut", "refused"},
               NEW s \in {{}, ns}
        PROVE  Frame(t, n, h, s) \in Answers /\ Frame(t, n, h, s).snap \in {{}, ns}
    <3>1. n \in 0 .. MaxCells /\ s \in State
      <4>1. TypeNumbers /\ TypeData
        BY <1>0, TypeParts
      <4>2. n \in 0 .. MaxCells
        BY <4>1, MaxCellsAssumption DEF TypeNumbers
      <4>3. {} \in State /\ ns \in State
        BY <4>1 DEF TypeData, State
      <4>4. QED
        BY <4>2, <4>3
    <3>2. Frame(t, n, h, s) \in Answers
      BY <3>1, FrameType
    <3>3. QED
      BY <3>2 DEF Frame
  <2>2. CASE KernelBoots
    BY <2>1, <2>2 DEF KernelBoots
  <2>3. CASE LoopTorn
    BY <2>1, <2>3 DEF LoopTorn
  <2>4. CASE GuardRefuses
    BY <2>1, <2>4 DEF GuardRefuses, Snapshots
  <2>5. CASE KernelAnswers
    BY <2>1, <2>5 DEF KernelAnswers, Snapshots
  <2>6. QED
    BY <2>2, <2>3, <2>4, <2>5
<1>2. PICK f \in Answers : f.snap \in {{}, ns} /\ resp' = Append(resp, f)
  BY <1>1
<1>3. DOMAIN resp' = {1} /\ resp'[1].snap \in {{}, ns}
  BY <1>0, <1>2, RespAppend
<1>4. QED
  BY <1>0, <1>3, CleanSame DEF OnlyClean

\* A rehydrate loads the snapshot or part of it.
LEMMA RehydrateIsClean ==
  ASSUME IInv, KernelRehydrate
  PROVE  OnlyClean'
<1>0. TypeOK /\ OneExchange /\ NoSocket /\ OnlyClean /\ ExchangeIsMine /\ req # <<>> /\ Head(req) = req[1] /\ 1 \in DOMAIN req
  BY ReqTail DEF IInv, KernelRehydrate
<1>1. wpc = "restored" /\ pipe /\ resp = <<>>
  BY <1>0 DEF ExchangeIsMine, KernelRehydrate, NoSocket, NoWork, OneExchange
<1>2. ns' \subseteq blob /\ UNCHANGED <<blob, cell, pipe, wpc, out, kpc>>
  BY DEF KernelRehydrate, session, worker
<1>3. DOMAIN resp' = {1} /\ resp'[1].snap = {}
  <2>1. Frame("ready", 0, "none", {}) \in Answers
    BY MaxCellsAssumption DEF Frame, Answers, State
  <2>2. QED
    BY <1>0, <1>1, <2>1, RespAppend DEF KernelRehydrate, Frame
<1>4. QED
  BY <1>0, <1>1, <1>2, <1>3, CleanSame DEF OnlyClean

\* A new process holds what PREFIX installs, and nothing is in the socket.
LEMMA PopenIsClean ==
  ASSUME IInv, Popen
  PROVE  OnlyClean'
<1>0. TypeOK /\ OnlyClean /\ NoSocket /\ wpc = "popen" /\ wpc' = "publish" /\ ns' = {0}
      /\ UNCHANGED <<blob, cell, pipe, out, resp>>
  BY DEF IInv, Popen, wires
<1>1. resp = <<>>
  BY <1>0 DEF NoSocket, Spawned
<1>2. DOMAIN resp' = {}
  BY <1>0, <1>1, EmptyFacts DEF TypeOK
<1>3. 0 \in Clean
  BY <1>0 DEF TypeOK, Clean
<1>4. QED
  BY <1>0, <1>2, <1>3, CleanSame DEF OnlyClean

\* A spawn that fails leaves no kernel, or one that ran nothing.
LEMMA FailingIsClean ==
  ASSUME IInv, AcceptFails \/ HandshakeFails
  PROVE  OnlyClean'
<1>0. TypeOK /\ OnlyClean /\ NoSocket /\ wpc # "idle" /\ wpc' = "idle" /\ UNCHANGED <<blob, cell, ns>>
  BY DEF IInv, AcceptFails, HandshakeFails, Finish, kernel
<1>1. out' = [out EXCEPT ![cell] = "raised"] /\ "raised" \in Outcomes
  BY DEF AcceptFails, HandshakeFails, Finish, Outcomes
<1>2. /\ Clean \ {cell} \subseteq Clean' /\ {0} \subseteq Clean'
      /\ \A n \in Cells : n > cell => out'[n] = "none"
  BY <1>0, <1>1, CleanDone
<1>3. resp' = <<>> /\ (kpc' # "dead" => kpc # "dead" /\ ns = {0})
  BY <1>0 DEF AcceptFails, HandshakeFails, KillSilently, NoSocket, OnlyClean, Spawned
<1>4. DOMAIN resp' = {}
  BY <1>0, <1>3, EmptyFacts DEF TypeOK
<1>5. QED
  BY <1>0, <1>2, <1>3, <1>4 DEF OnlyClean

\* The body has effects of the call in progress, which has no outcome yet.
LEMMA BodyIsClean ==
  ASSUME IInv, BodyStarts
  PROVE  OnlyClean'
<1>0. TypeOK /\ OnlyClean /\ ExchangeIsMine /\ NoSocket /\ Bounds /\ Running
  BY DEF IInv, BodyStarts, Running
<1>1. kcell = cell /\ wpc \in Sent /\ pipe /\ cell \in Cells
  BY <1>0, MaxCellsAssumption DEF ExchangeIsMine, NoSocket, Bounds, TypeOK, Cells, Sent
<1>2. cell \in Clean
  BY <1>0, <1>1 DEF OnlyClean, Clean, Cells, Sent
<1>3. ns' \subseteq ns \cup {cell} /\ kpc # "dead" /\ UNCHANGED <<blob, cell, pipe, wpc, out, resp>>
  BY <1>1 DEF BodyStarts, session, worker, wires
<1>4. QED
  BY <1>0, <1>1, <1>2, <1>3, CleanSame DEF OnlyClean, Sent

\* Every step keeps states and snapshots clean.
LEMMA OnlyCleanStep ==
  ASSUME IInv, Next
  PROVE  OnlyClean'
<1>0. OnlyClean /\ ExchangeIsMine /\ OneExchange /\ NoSocket /\ TypeReq /\
      TypeResp /\ TypeNumbers /\ TypeData
  BY TypeParts DEF IInv
<1>1. CASE WorkerAcquire \/ CheckPipe \/ WriteFrame
  BY <1>0, <1>1 DEF OnlyClean, ExchangeIsMine, OneExchange, NoSocket, TypeReq,
       TypeResp, Running, Booting, NoWork, Sent, Spawned, Clean, session,
       worker, closer, kernel, wires, WorkerAcquire, CheckPipe, WriteFrame
<1>2. CASE ReadEof \/ TimeoutClean \/ TimeoutPartial \/ GraceExpires \/
           SendSigint
  BY <1>0, <1>2 DEF OnlyClean, ExchangeIsMine, OneExchange, NoSocket, TypeReq,
       TypeResp, Running, Booting, NoWork, Sent, Spawned, Clean, session,
       worker, closer, kernel, wires, ReadEof, TimeoutClean, TimeoutPartial,
       GraceExpires, SendSigint
<1>3. CASE PublishListener
  BY <1>0, <1>3 DEF OnlyClean, ExchangeIsMine, OneExchange, NoSocket, TypeReq,
       TypeResp, Running, Booting, NoWork, Sent, Spawned, Clean, worker,
       closer, kernel, wires, PublishListener
<1>4. CASE Accept
  BY <1>0, <1>4 DEF OnlyClean, ExchangeIsMine, OneExchange, NoSocket, TypeReq,
       TypeResp, Running, Booting, NoWork, Sent, Spawned, Clean, DropListener,
       worker, closer, kernel, wires, Accept
<1>5. CASE Close \/ WakeAccept \/ CloserAcquire \/ AcquireExpires \/ ForceKill
  BY <1>0, <1>5 DEF OnlyClean, ExchangeIsMine, OneExchange, NoSocket, TypeReq,
       TypeResp, Running, Booting, NoWork, Sent, Spawned, Clean, session,
       worker, closer, kernel, wires, Close, WakeAccept, CloserAcquire,
       AcquireExpires, ForceKill
<1>6. CASE ReacquireExpires \/ AskToExit
  BY <1>0, <1>6 DEF OnlyClean, ExchangeIsMine, OneExchange, NoSocket, TypeReq,
       TypeResp, Running, Booting, NoWork, Sent, Spawned, Clean, session,
       worker, kernel, wires, ReacquireExpires, AskToExit
<1>7. CASE WaitForExit
  BY <1>0, <1>7 DEF OnlyClean, ExchangeIsMine, OneExchange, NoSocket, TypeReq,
       TypeResp, Running, Booting, NoWork, Sent, Spawned, Clean, session,
       worker, kernel, wires, WaitForExit
<1>8. CASE Teardown
  BY <1>0, <1>8 DEF OnlyClean, ExchangeIsMine, OneExchange, NoSocket, TypeReq,
       TypeResp, Running, Booting, NoWork, Sent, Spawned, Clean, KillSilently,
       worker, kernel, Teardown
<1>9. CASE Cleanup
  BY <1>0, <1>9 DEF OnlyClean, ExchangeIsMine, OneExchange, NoSocket, TypeReq,
       TypeResp, Running, Booting, NoWork, Sent, Spawned, Clean, session,
       worker, kernel, wires, Cleanup
<1>10. CASE KernelConnect \/ KernelHangsUp \/ KernelCrash \/ IdleInterrupted
           \/ KernelShutdown \/ KernelTakesCell
  BY <1>0, <1>10 DEF OnlyClean, ExchangeIsMine, OneExchange, NoSocket,
       TypeReq, TypeResp, Running, Booting, NoWork, Sent, Spawned, Clean,
       Linked, session, worker, closer, kernel, wires, KernelConnect,
       KernelHangsUp, KernelCrash, IdleInterrupted, KernelShutdown,
       KernelTakesCell
<1>11. CASE ArmSigint
  BY <1>0, <1>11 DEF OnlyClean, ExchangeIsMine, OneExchange, NoSocket,
       TypeReq, TypeResp, Running, Booting, NoWork, Sent, Spawned, Clean,
       session, worker, closer, wires, ArmSigint
<1>12. CASE BodyEnds \/ BodyInterrupted \/ DisarmSigint
  BY <1>0, <1>12 DEF OnlyClean, ExchangeIsMine, OneExchange, NoSocket,
       TypeReq, TypeResp, Running, Booting, NoWork, Sent, Spawned, Clean,
       session, worker, closer, wires, BodyEnds, BodyInterrupted, DisarmSigint
<1>13. CASE Terminated
  BY <1>13, Stutter DEF Terminated, IInv
<1>14. CASE ExecuteCell
  BY <1>14, CallIsClean
<1>15. CASE TornUnderWorker \/ ReadReset \/ RecheckClosed
  BY <1>15, GivingUpIsClean, ResetIsClean
<1>16. CASE ReadFrame
  BY <1>16, ReadIsClean
<1>17. CASE Report
  BY <1>17, ReportIsClean
<1>18. CASE KillAndRespawn
  BY <1>18, KillIsClean
<1>19. CASE Popen
  BY <1>19, PopenIsClean
<1>20. CASE AcceptFails \/ HandshakeFails
  BY <1>20, FailingIsClean
<1>21. CASE HelloReady
  BY <1>21, HelloIsClean
<1>22. CASE Restored
  BY <1>22, RestoredIsClean
<1>23. CASE KernelBoots \/ LoopTorn \/ GuardRefuses \/ KernelAnswers
  BY <1>23, AnswerIsClean
<1>24. CASE KernelRehydrate
  BY <1>24, RehydrateIsClean
<1>25. CASE BodyStarts
  BY <1>25, BodyIsClean
<1>26. QED
  BY <1>1, <1>2, <1>3, <1>4, <1>5, <1>6, <1>7, <1>8, <1>9, <1>10, <1>11,
     <1>12, <1>13, <1>14, <1>15, <1>16, <1>17, <1>18, <1>19, <1>20, <1>21,
     <1>22, <1>23, <1>24, <1>25 DEF Next, WorkerStep, Timeout, CloserStep,
     KernelStep, BodyStep

-----------------------------------------------------------------------------
(* A waiting accept is woken. *)

\* Every step keeps the published listener where close() finds it.
LEMMA WakeableStep ==
  ASSUME IInv, Next
  PROVE  Wakeable'
<1>0. Wakeable /\ NoSocket /\ TypeNames
  BY TypeParts DEF IInv
<1>1. CASE ExecuteCell \/ WorkerAcquire \/ CheckPipe \/ WriteFrame \/
           TornUnderWorker \/ ReadReset \/ ReadFrame
  BY <1>0, <1>1 DEF Wakeable, NoSocket, TypeNames, AcceptIsWoken, Spawned,
       WorkerPc, CloserPc, Finish, session, worker, closer, kernel, wires,
       ExecuteCell, WorkerAcquire, CheckPipe, WriteFrame, TornUnderWorker, ReadReset, Reset,
       ReadFrame
<1>2. CASE ReadEof \/ TimeoutClean \/ TimeoutPartial \/ GraceExpires \/
           SendSigint \/ Report
  BY <1>0, <1>2 DEF Wakeable, NoSocket, TypeNames, AcceptIsWoken, Spawned,
       WorkerPc, CloserPc, session, worker, closer, kernel, wires, ReadEof,
       TimeoutClean, TimeoutPartial, GraceExpires, SendSigint, Report
<1>3. CASE KillAndRespawn \/ Popen \/ PublishListener \/ RecheckClosed
  BY <1>0, <1>3 DEF Wakeable, NoSocket, TypeNames, AcceptIsWoken, Spawned,
       WorkerPc, CloserPc, KillSilently, DropListener, Finish, worker, closer,
       kernel, wires, KillAndRespawn, Popen, PublishListener, RecheckClosed
<1>4. CASE Accept \/ AcceptFails \/ HelloReady \/ Restored \/ HandshakeFails
  BY <1>0, <1>4 DEF Wakeable, NoSocket, TypeNames, AcceptIsWoken, Spawned,
       WorkerPc, CloserPc, KillSilently, DropListener, Finish, worker, closer,
       kernel, wires, Accept, AcceptFails, HelloReady, Restored,
       HandshakeFails
<1>5. CASE Close \/ WakeAccept \/ CloserAcquire
  BY <1>0, <1>5 DEF Wakeable, NoSocket, TypeNames, AcceptIsWoken, Spawned,
       WorkerPc, CloserPc, session, worker, closer, kernel, wires, Close,
       WakeAccept, CloserAcquire
<1>6. CASE AcquireExpires \/ ForceKill \/ ReacquireExpires \/ AskToExit
  BY <1>0, <1>6 DEF Wakeable, NoSocket, TypeNames, AcceptIsWoken, Spawned,
       WorkerPc, CloserPc, session, worker, kernel, wires, AcquireExpires,
       ForceKill, ReacquireExpires, AskToExit
<1>7. CASE WaitForExit \/ Teardown \/ Cleanup
  BY <1>0, <1>7 DEF Wakeable, NoSocket, TypeNames, AcceptIsWoken, Spawned,
       WorkerPc, CloserPc, KillSilently, session, worker, kernel, wires,
       WaitForExit, Teardown, Cleanup
<1>8. CASE KernelConnect \/ KernelBoots \/ KernelHangsUp \/ KernelCrash \/
           IdleInterrupted \/ KernelShutdown \/ KernelRehydrate \/
           KernelTakesCell
  BY <1>0, <1>8 DEF Wakeable, NoSocket, TypeNames, AcceptIsWoken, Spawned,
       WorkerPc, CloserPc, Linked, Frame, session, worker, closer, kernel,
       wires, KernelConnect, KernelBoots, KernelHangsUp, KernelCrash,
       IdleInterrupted, KernelShutdown, KernelRehydrate, KernelTakesCell
<1>9. CASE GuardRefuses \/ ArmSigint \/ BodyStarts \/ LoopTorn \/ BodyEnds \/
           BodyInterrupted \/ DisarmSigint \/ KernelAnswers
  BY <1>0, <1>9 DEF Wakeable, NoSocket, TypeNames, AcceptIsWoken, Spawned,
       WorkerPc, CloserPc, Snapshots, Linked, Frame, session, worker, closer,
       kernel, wires, GuardRefuses, ArmSigint, BodyStarts, LoopTorn, BodyEnds,
       BodyInterrupted, DisarmSigint, KernelAnswers
<1>10. CASE Terminated
  BY <1>10, Stutter DEF Terminated, IInv
<1>11. QED
  BY <1>1, <1>2, <1>3, <1>4, <1>5, <1>6, <1>7, <1>8, <1>9, <1>10 DEF Next,
     WorkerStep, Timeout, CloserStep, KernelStep, BodyStep

-----------------------------------------------------------------------------
(* The theorems. *)

\* The constructor leaves a session in which nothing is under way.
LEMMA InitIInv ==
  ASSUME Init
  PROVE  IInv
<1>1. MaxCells \in Nat \ {0} /\ DOMAIN <<>> = {} /\ Len(<<>>) = 0
  BY MaxCellsAssumption, EmptyFacts, EmptySeq
<1>2. TypeOK
  <2>1. NoReply \in Answers
    BY <1>1 DEF NoReply, Frame, Answers, State
  <2>2. QED
    <3>1. TypeNames /\ TypeFlags
      BY DEF Init, TypeNames, TypeFlags, WorkerPc, CloserPc, KernelPc
    <3>2. TypeNumbers /\ TypeReq /\ TypeResp /\ TypeReply
      BY <1>1, <2>1, EmptySeq DEF Init, TypeNumbers, TypeReq, TypeResp, TypeReply, Kernels
    <3>3. TypeData
      BY <1>1 DEF Init, TypeData, Outcomes, Cells, State, Kernels
    <3>4. QED
      BY <3>1, <3>2, <3>3, TypeParts
<1>3. Bounds /\ OneExchange /\ ExchangeIsMine /\ NoSocket
  BY <1>1 DEF Init, Bounds, OneExchange, ExchangeIsMine, NoSocket, Running, Booting, NoWork,
              Sent, Spawned
<1>4. OnlyClean
  <2>1. 0 \in Clean
    BY <1>1 DEF Init, Clean
  <2>2. QED
    BY <1>1, <2>1 DEF Init, OnlyClean, Cells
<1>5. Wakeable
  BY DEF Init, Wakeable, AcceptIsWoken
<1>6. QED
  BY <1>2, <1>3, <1>4, <1>5 DEF IInv

\* The invariant is inductive: whatever the interleaving of the worker, the
\* closing thread and the kernel, and for any number of calls.
THEOREM Invariant == Spec => []IInv
<1>1. Init => IInv
  BY InitIInv
<1>2. IInv /\ [Next]_vars => IInv'
  <2>1. ASSUME IInv, Next PROVE IInv'
    BY <2>1, TypeStep, BoundsStep, OneExchangeStep, ExchangeIsMineStep, NoSocketStep,
       OnlyCleanStep, WakeableStep DEF IInv
  <2>2. QED
    BY <2>1, Stutter
<1>3. QED
  BY <1>1, <1>2, PTL DEF Spec

\* Every variable keeps its type.
THEOREM TypeCorrect == Spec => []TypeOK
<1>1. IInv => TypeOK
  BY DEF IInv
<1>2. QED
  BY <1>1, Invariant, PTL

\* execute_cell never takes another request's frame for its answer.
THEOREM AnswersMatch == Spec => []ReplyAnswersCell
<1>1. IInv => ReplyAnswersCell
  BY DEF IInv, ExchangeIsMine, ReplyAnswersCell
<1>2. QED
  BY <1>1, Invariant, PTL

\* What execute_cell says must be run again has left no effect.
THEOREM RerunIsSafe == Spec => []RerunLeavesNoTrace
<1>1. IInv => RerunLeavesNoTrace
  <2>1. ASSUME IInv, NEW n \in Cells, out[n] \in {"rerun", "raised"}
        PROVE  n \notin Clean
    BY <2>1, MaxCellsAssumption DEF Clean, Cells
  <2>2. QED
    BY <2>1 DEF IInv, OnlyClean, RerunLeavesNoTrace
<1>2. QED
  BY <1>1, Invariant, PTL

\* close() wakes every accept() it could otherwise wait for.
THEOREM AcceptWoken == Spec => []AcceptIsWoken
<1>1. IInv => AcceptIsWoken
  BY DEF IInv, Wakeable
<1>2. QED
  BY <1>1, Invariant, PTL
=============================================================================

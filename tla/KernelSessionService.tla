------------------------ MODULE KernelSessionService ------------------------
(***************************************************************************)
(* Proofs about KernelSession, third part: what it gives its caller over   *)
(* respawns, restores and close().  First, every step keeps SInv, what a   *)
(* call leaves behind for the next one, and from it NoOrphanKernel,        *)
(* EpochMarksAccumulator, SnapshotNeverRegresses and LossNeverSilent.      *)
(* Then the refinement: every step maps to a step of CellService or to a   *)
(* stutter, by the mapping of the INSTANCE CS.                             *)
(***************************************************************************)
EXTENDS KernelSessionProofs

-----------------------------------------------------------------------------
(* What a step can change in the socket, without sequences. *)

\* An answer in the socket after a step was there before, or it says that a
\* kernel came up or died, or it is the one a running kernel gives to its cell.
LEMMA AnswersAfter ==
  ASSUME IInv, Next, NEW i \in DOMAIN resp'
  PROVE  \/ i \in DOMAIN resp /\ resp'[i] = resp[i]
         \/ resp'[i].snap = {} /\ resp'[i].type \in {"ready", "boot_error"}
         \/ Running /\ (GuardRefuses \/ KernelAnswers) /\ resp'[i].snap \in {ns, {}}
<1>0. TypeOK /\ OneExchange
  BY DEF IInv
<1>1. CASE resp' = resp
  BY <1>1
<1>2. CASE resp' = <<>>
  BY <1>0, <1>2, EmptyFacts DEF TypeOK
<1>3. CASE ReadFrame \/ HelloReady \/ Restored
  BY <1>3, RespOne DEF IInv, ReadFrame, HelloReady, Restored
<1>4. CASE KernelBoots \/ LoopTorn \/ KernelRehydrate
  <2>1. resp = <<>>
    <3>1. KernelRehydrate => req # <<>> /\ ~NoWork
      BY <1>0, ReqTail DEF KernelRehydrate, NoWork
    <3>2. QED
      BY <1>0, <1>4, <3>1 DEF OneExchange, KernelBoots, LoopTorn, Running, Booting, KernelRehydrate
  <2>2. PICK t \in {"ready", "boot_error"}, n \in {0, kcell} :
          resp' = Append(resp, Frame(t, n, "none", {}))
    BY <1>4 DEF KernelBoots, LoopTorn, KernelRehydrate
  <2>3. Frame(t, n, "none", {}) \in Answers
    BY <1>0, MaxCellsAssumption DEF Frame, Answers, State, TypeOK
  <2>4. QED
    BY <1>0, <2>1, <2>2, <2>3, RespAppend DEF Frame
<1>5. CASE GuardRefuses \/ KernelAnswers
  <2>1. resp = <<>> /\ Running
    BY <1>0, <1>5 DEF OneExchange, GuardRefuses, KernelAnswers, Running
  <2>2. PICK t \in {"result", "return", "unreadable"}, h \in {"refused", "cut", "done"},
             s \in {ns, {}} :
          resp' = Append(resp, Frame(t, kcell, h, s))
    BY <1>5 DEF GuardRefuses, KernelAnswers, Snapshots
  <2>3. Frame(t, kcell, h, s) \in Answers
    <3>1. kcell \in 0 .. MaxCells /\ s \in State
      BY <1>0 DEF TypeOK, State
    <3>2. QED
      BY <3>1, FrameType
  <2>4. resp'[i] = Frame(t, kcell, h, s)
    BY <1>0, <2>1, <2>2, <2>3, RespAppend
  <2>5. QED
    BY <1>5, <2>1, <2>4 DEF Frame
<1>6. QED
  BY <1>1, <1>2, <1>3, <1>4, <1>5 DEF Next, WorkerStep, Timeout, CloserStep,
     KernelStep, BodyStep, KillSilently, wires, vars,
     ExecuteCell, WorkerAcquire, CheckPipe, WriteFrame, TornUnderWorker, ReadReset,
     Reset, ReadEof, TimeoutClean, TimeoutPartial, GraceExpires, SendSigint, Report,
     KillAndRespawn, Popen, PublishListener, RecheckClosed, Accept, AcceptFails,
     HandshakeFails, Close, WakeAccept, CloserAcquire, AcquireExpires, ForceKill,
     ReacquireExpires, AskToExit, WaitForExit, Teardown, Cleanup, KernelConnect,
     KernelHangsUp, KernelCrash, IdleInterrupted, KernelShutdown, KernelTakesCell,
     ArmSigint, BodyStarts, BodyEnds, BodyInterrupted, DisarmSigint, Terminated

\* A code frame in the socket after a step is there since before, and the kernel
\* has not taken one; or the worker has just written it.
LEMMA RequestsAfter ==
  ASSUME IInv, Next, NEW i \in DOMAIN req', req'[i].type = "code"
  PROVE  \/ WriteFrame /\ pipe /\ kpc # "dead"
         \/ ~KernelTakesCell /\ \E j \in DOMAIN req : req[j].type = "code"
<1>0. TypeOK /\ OneExchange /\ NoSocket
  BY DEF IInv
<1>1. CASE req' = req /\ ~KernelTakesCell
  BY <1>1
<1>2. CASE req' = <<>>
  BY <1>0, <1>2, EmptyFacts DEF TypeOK
<1>3. CASE WriteFrame
  <2>1. kpc = "dead" => req' = req /\ ~KernelTakesCell
    BY <1>3 DEF WriteFrame, KernelTakesCell
  <2>2. QED
    BY <1>1, <1>3, <2>1 DEF WriteFrame
<1>4. CASE HelloReady \/ AskToExit
  <2>1. CASE req' = req
    BY <1>4, <2>1 DEF HelloReady, AskToExit, KernelTakesCell, kernel
  <2>2. CASE req' # req
    <3>1. PICK t \in {"rehydrate", "shutdown"} : req' = Append(req, [type |-> t, cell |-> 0])
      BY <1>4, <2>2 DEF HelloReady, AskToExit
    <3>2. [type |-> t, cell |-> 0] \in Requests
      BY MaxCellsAssumption DEF Requests
    <3>3. i \in DOMAIN req /\ req'[i] = req[i]
      BY <1>0, <3>1, <3>2, ReqAppend
    <3>4. ~KernelTakesCell
      BY <1>4 DEF HelloReady, AskToExit, KernelTakesCell, kernel, closer
    <3>5. QED
      BY <3>3, <3>4
  <2>3. QED
    BY <2>1, <2>2
<1>5. CASE KernelShutdown \/ KernelRehydrate \/ KernelTakesCell
  <2>1. req # <<>> /\ req' = Tail(req) /\ Head(req) = req[1] /\ 1 \in DOMAIN req
    BY <1>0, <1>5, ReqTail DEF KernelShutdown, KernelRehydrate, KernelTakesCell
  <2>2. i + 1 \in DOMAIN req /\ req'[i] = req[i + 1] /\ i + 1 # 1
    BY <1>0, <2>1, ReqTail
  <2>3. req[1].type = "shutdown"
    BY <1>0, <2>1, <2>2 DEF OneExchange
  <2>4. QED
    BY <1>5, <2>1, <2>2, <2>3 DEF KernelTakesCell
<1>6. QED
  BY <1>1, <1>2, <1>3, <1>4, <1>5 DEF Next, WorkerStep, Timeout, CloserStep,
     KernelStep, BodyStep, KillSilently, wires, vars,
     ExecuteCell, WorkerAcquire, CheckPipe, TornUnderWorker, ReadReset, Reset, ReadFrame,
     ReadEof, TimeoutClean, TimeoutPartial, GraceExpires, SendSigint, Report,
     KillAndRespawn, Popen, PublishListener, RecheckClosed, Accept, AcceptFails,
     Restored, HandshakeFails, Close, WakeAccept, CloserAcquire, AcquireExpires,
     ForceKill, ReacquireExpires, WaitForExit, Teardown, Cleanup, KernelConnect,
     KernelBoots, KernelHangsUp, KernelCrash, IdleInterrupted, GuardRefuses, ArmSigint,
     BodyStarts, LoopTorn, BodyEnds, BodyInterrupted, DisarmSigint, KernelAnswers,
     Terminated

\* A step that changes nothing keeps the invariant.
LEMMA SStutter ==
  ASSUME SInv, UNCHANGED vars
  PROVE  SInv'
<1>1. IInv'
  BY Stutter DEF SInv
<1>2. LockHeld' /\ Fed'
  BY DEF SInv, LockHeld, Fed, Locked, Respawning, Spawned, Connected, Asked, Answered,
         Running, vars
<1>3. SnapshotsGrow' /\ Rooted' /\ Rehydrated'
  BY DEF SInv, SnapshotsGrow, Kept, Rooted, Rehydrated, Connected, Respawning, Spawned,
         LossNeverSilent, Spawning, vars
<1>4. QED
  BY <1>1, <1>2, <1>3 DEF SInv

-----------------------------------------------------------------------------
(* One holder of _io_lock, one process, and no respawn once close() has it. *)

\* Every step hands the lock over whole, and spawns only when the last one died.
LEMMA LockHeldStep ==
  ASSUME SInv, Next
  PROVE  LockHeld'
<1>0. LockHeld /\ NoSocket /\ TypeNames /\ Wakeable
  BY TypeParts DEF SInv, IInv
<1>1. CASE ExecuteCell \/ WorkerAcquire \/ CheckPipe \/ WriteFrame \/ TornUnderWorker
           \/ ReadReset \/ ReadFrame
  BY <1>0, <1>1 DEF LockHeld, Locked, Respawning, Spawned, NoSocket, TypeNames,
     Wakeable, Running, Finish, session, worker, kernel, closer, wires, ExecuteCell,
     WorkerAcquire, CheckPipe, WriteFrame, TornUnderWorker, ReadReset, Reset, ReadFrame
<1>2. CASE ReadEof \/ TimeoutClean \/ TimeoutPartial \/ GraceExpires \/ SendSigint \/
           Report
  BY <1>0, <1>2 DEF LockHeld, Locked, Respawning, Spawned, NoSocket, TypeNames,
     Wakeable, Running, session, worker, kernel, closer, wires, ReadEof, TimeoutClean,
     TimeoutPartial, GraceExpires, SendSigint, Report
<1>3. CASE KillAndRespawn
  BY <1>0, <1>3 DEF LockHeld, Locked, Respawning, Spawned, NoSocket, TypeNames,
     Wakeable, Running, Finish, KillSilently, session, worker, kernel, closer, wires,
     KillAndRespawn
<1>4. CASE Popen
  BY <1>0, <1>4 DEF LockHeld, Locked, Respawning, Spawned, NoSocket, TypeNames,
     Wakeable, Running, session, worker, kernel, closer, wires, Popen
<1>5. CASE PublishListener
  BY <1>0, <1>5 DEF LockHeld, Locked, Respawning, Spawned, NoSocket, TypeNames,
     Wakeable, Running, session, worker, kernel, closer, wires, PublishListener
<1>6. CASE RecheckClosed
  BY <1>0, <1>6 DEF LockHeld, Locked, Respawning, Spawned, NoSocket, TypeNames,
     Wakeable, Running, Finish, DropListener, session, worker, kernel, closer, wires,
     RecheckClosed
<1>7. CASE Accept \/ AcceptFails \/ HelloReady \/ Restored \/ HandshakeFails
  BY <1>0, <1>7 DEF LockHeld, Locked, Respawning, Spawned, NoSocket, TypeNames,
     Wakeable, Running, Finish, KillSilently, DropListener, session, worker, kernel,
     closer, wires, Accept, AcceptFails, HelloReady, Restored, HandshakeFails
<1>8. CASE Close \/ WakeAccept \/ CloserAcquire
  BY <1>0, <1>8 DEF LockHeld, Locked, Respawning, Spawned, NoSocket, TypeNames,
     Wakeable, Running, session, worker, kernel, closer, wires, Close, WakeAccept,
     CloserAcquire
<1>9. CASE AcquireExpires \/ ForceKill \/ ReacquireExpires \/ AskToExit
  BY <1>0, <1>9 DEF LockHeld, Locked, Respawning, Spawned, NoSocket, TypeNames,
     Wakeable, Running, session, worker, kernel, closer, wires, AcquireExpires,
     ForceKill, ReacquireExpires, AskToExit
<1>10. CASE WaitForExit \/ Teardown \/ Cleanup
  BY <1>0, <1>10 DEF LockHeld, Locked, Respawning, Spawned, NoSocket, TypeNames,
     Wakeable, Running, KillSilently, session, worker, kernel, closer, wires,
     WaitForExit, Teardown, Cleanup
<1>11. CASE KernelConnect \/ KernelBoots \/ KernelHangsUp \/ KernelCrash \/
           IdleInterrupted \/ KernelShutdown \/ KernelRehydrate \/ KernelTakesCell
  BY <1>0, <1>11 DEF LockHeld, Locked, Respawning, Spawned, NoSocket, TypeNames,
     Wakeable, Running, Linked, Frame, session, worker, kernel, closer, wires,
     KernelConnect, KernelBoots, KernelHangsUp, KernelCrash, IdleInterrupted,
     KernelShutdown, KernelRehydrate, KernelTakesCell
<1>12. CASE GuardRefuses \/ ArmSigint \/ BodyStarts \/ LoopTorn \/ BodyEnds \/
           BodyInterrupted \/ DisarmSigint \/ KernelAnswers
  BY <1>0, <1>12 DEF LockHeld, Locked, Respawning, Spawned, NoSocket, TypeNames,
     Wakeable, Running, Linked, Frame, Snapshots, session, worker, kernel, closer,
     wires, GuardRefuses, ArmSigint, BodyStarts, LoopTorn, BodyEnds, BodyInterrupted,
     DisarmSigint, KernelAnswers
<1>13. CASE Terminated
  BY <1>13, SStutter DEF Terminated, SInv, IInv
<1>14. QED
  BY <1>1, <1>2, <1>3, <1>4, <1>5, <1>6, <1>7, <1>8, <1>9, <1>10, <1>11, <1>12, <1>13
     DEF Next, WorkerStep, Timeout, CloserStep, KernelStep, BodyStep

-----------------------------------------------------------------------------
(* What PREFIX installs is in every state and in every snapshot. *)

\* The rehydrate request is answered to the worker that restores.
LEMMA RehydrateIsAwaited ==
  ASSUME IInv, KernelRehydrate
  PROVE  wpc = "restored" /\ pipe /\ resp = <<>>
<1>0. TypeOK /\ OneExchange /\ NoSocket /\ ExchangeIsMine
  BY DEF IInv
<1>1. req # <<>> /\ Head(req) = req[1] /\ 1 \in DOMAIN req
  BY <1>0, ReqTail DEF KernelRehydrate
<1>2. QED
  BY <1>0, <1>1 DEF ExchangeIsMine, KernelRehydrate, NoSocket, NoWork, OneExchange

\* An answer that waits is the head of the socket.
LEMMA HeadWaits ==
  ASSUME IInv
  PROVE  /\ resp # <<>> => Head(resp) = resp[1] /\ 1 \in DOMAIN resp
         /\ resp # <<>> <=> DOMAIN resp # {}
         /\ DOMAIN resp \subseteq {1}
<1>0. TypeOK /\ OneExchange
  BY DEF IInv
<1>1. QED
  BY <1>0, RespOne, EmptyFacts DEF TypeOK

\* Every step keeps what PREFIX installed.
LEMMA RootedStep ==
  ASSUME SInv, Next
  PROVE  Rooted'
<1>a. Rooted /\ Rehydrated
  BY DEF SInv
<1>b. resp # <<>> => Head(resp) = resp[1] /\ 1 \in DOMAIN resp
  BY HeadWaits DEF SInv
<1>c. KernelRehydrate => wpc = "restored" /\ blob # {}
  BY <1>a, RehydrateIsAwaited DEF SInv, Rehydrated
<1>d. \A i \in DOMAIN resp' : resp'[i].snap # {} => 0 \in resp'[i].snap
  BY <1>a, AnswersAfter DEF SInv, Rooted
<1>1. CASE ExecuteCell \/ WorkerAcquire \/ CheckPipe \/ WriteFrame \/ TornUnderWorker
           \/ ReadReset
  BY <1>a, <1>b, <1>c, <1>d, <1>1 DEF Rooted, Finish, session, worker, kernel, closer,
     wires, ExecuteCell, WorkerAcquire, CheckPipe, WriteFrame, TornUnderWorker,
     ReadReset, Reset
<1>2. CASE ReadFrame
  BY <1>a, <1>b, <1>c, <1>d, <1>2 DEF Rooted, session, worker, kernel, closer, wires,
     ReadFrame
<1>3. CASE ReadEof \/ TimeoutClean \/ TimeoutPartial \/ GraceExpires \/ SendSigint
  BY <1>a, <1>b, <1>c, <1>d, <1>3 DEF Rooted, session, worker, kernel, closer, wires,
     ReadEof, TimeoutClean, TimeoutPartial, GraceExpires, SendSigint
<1>4. CASE Report
  BY <1>a, <1>b, <1>c, <1>d, <1>4 DEF Rooted, session, worker, kernel, closer, wires,
     Report
<1>5. CASE KillAndRespawn
  BY <1>a, <1>b, <1>c, <1>d, <1>5 DEF Rooted, Finish, KillSilently, session, worker,
     kernel, closer, wires, KillAndRespawn
<1>6. CASE Popen
  BY <1>a, <1>b, <1>c, <1>d, <1>6 DEF Rooted, session, worker, kernel, closer, wires,
     Popen
<1>7. CASE PublishListener \/ RecheckClosed
  BY <1>a, <1>b, <1>c, <1>d, <1>7 DEF Rooted, Finish, DropListener, session, worker,
     kernel, closer, wires, PublishListener, RecheckClosed
<1>8. CASE Accept \/ AcceptFails
  BY <1>a, <1>b, <1>c, <1>d, <1>8 DEF Rooted, Finish, KillSilently, DropListener,
     session, worker, kernel, closer, wires, Accept, AcceptFails
<1>9. CASE HelloReady
  BY <1>a, <1>b, <1>c, <1>d, <1>9 DEF Rooted, Finish, session, worker, kernel, closer,
     wires, HelloReady
<1>10. CASE Restored
  BY <1>a, <1>b, <1>c, <1>d, <1>10 DEF Rooted, Finish, session, worker, kernel, closer,
     wires, Restored
<1>11. CASE HandshakeFails
  BY <1>a, <1>b, <1>c, <1>d, <1>11 DEF Rooted, Finish, KillSilently, session, worker,
     kernel, closer, wires, HandshakeFails
<1>12. CASE Close \/ WakeAccept \/ CloserAcquire \/ AcquireExpires \/ ForceKill \/
           ReacquireExpires
  BY <1>a, <1>b, <1>c, <1>d, <1>12 DEF Rooted, session, worker, kernel, closer, wires,
     Close, WakeAccept, CloserAcquire, AcquireExpires, ForceKill, ReacquireExpires
<1>13. CASE AskToExit \/ WaitForExit \/ Teardown \/ Cleanup
  BY <1>a, <1>b, <1>c, <1>d, <1>13 DEF Rooted, KillSilently, session, worker, kernel,
     closer, wires, AskToExit, WaitForExit, Teardown, Cleanup
<1>14. CASE KernelConnect \/ KernelBoots \/ KernelHangsUp \/ KernelCrash
  BY <1>a, <1>b, <1>c, <1>d, <1>14 DEF Rooted, Linked, session, worker, kernel, closer,
     wires, KernelConnect, KernelBoots, KernelHangsUp, KernelCrash
<1>15. CASE IdleInterrupted \/ KernelShutdown \/ KernelTakesCell
  BY <1>a, <1>b, <1>c, <1>d, <1>15 DEF Rooted, session, worker, kernel, closer, wires,
     IdleInterrupted, KernelShutdown, KernelTakesCell
<1>16. CASE KernelRehydrate
  BY <1>a, <1>b, <1>c, <1>d, <1>16 DEF Rooted, Linked, session, worker, kernel, closer,
     wires, KernelRehydrate
<1>17. CASE GuardRefuses \/ LoopTorn \/ KernelAnswers
  BY <1>a, <1>b, <1>c, <1>d, <1>17 DEF Rooted, Linked, Snapshots, session, worker,
     kernel, closer, wires, GuardRefuses, LoopTorn, KernelAnswers
<1>18. CASE ArmSigint \/ BodyStarts \/ BodyEnds \/ BodyInterrupted \/ DisarmSigint
  BY <1>a, <1>b, <1>c, <1>d, <1>18 DEF Rooted, session, worker, kernel, closer, wires,
     ArmSigint, BodyStarts, BodyEnds, BodyInterrupted, DisarmSigint
<1>19. CASE Terminated
  BY <1>19, SStutter DEF Terminated, SInv, IInv
<1>20. QED
  BY <1>1, <1>2, <1>3, <1>4, <1>5, <1>6, <1>7, <1>8, <1>9, <1>10, <1>11, <1>12, <1>13,
     <1>14, <1>15, <1>16, <1>17, <1>18, <1>19 DEF Next, WorkerStep, Timeout, CloserStep,
     KernelStep, BodyStep

-----------------------------------------------------------------------------
(* A rehydrate loads the snapshot but for what it drops, and says so. *)

\* Every step keeps a loss told, or about to be.
LEMMA RehydratedStep ==
  ASSUME SInv, Next
  PROVE  Rehydrated'
<1>a. Rehydrated /\ NoSocket /\ ExchangeIsMine /\ TypeNames /\ TypeFlags
  BY TypeParts DEF SInv, IInv
<1>b. resp # <<>> => Tail(resp) = <<>> /\ ~Booting
  BY RespOne, Idle DEF SInv, IInv
<1>c. KernelRehydrate => wpc = "restored"
  BY RehydrateIsAwaited DEF SInv
<1>1. CASE ExecuteCell \/ WorkerAcquire \/ CheckPipe \/ WriteFrame \/ TornUnderWorker
           \/ ReadReset
  BY <1>a, <1>b, <1>c, <1>1 DEF Rehydrated, LossNeverSilent, Spawning, Spawned,
     NoSocket, ExchangeIsMine, Running, Booting, Sent, Finish, session, worker, kernel,
     closer, wires, ExecuteCell, WorkerAcquire, CheckPipe, WriteFrame, TornUnderWorker,
     ReadReset, Reset
<1>2. CASE ReadFrame
  BY <1>a, <1>b, <1>c, <1>2 DEF Rehydrated, LossNeverSilent, Spawning, Spawned,
     NoSocket, ExchangeIsMine, Running, Booting, Sent, session, worker, kernel, closer,
     wires, ReadFrame
<1>3. CASE ReadEof \/ TimeoutClean \/ TimeoutPartial \/ GraceExpires \/ SendSigint
  BY <1>a, <1>b, <1>c, <1>3 DEF Rehydrated, LossNeverSilent, Spawning, Spawned,
     NoSocket, ExchangeIsMine, Running, Booting, Sent, session, worker, kernel, closer,
     wires, ReadEof, TimeoutClean, TimeoutPartial, GraceExpires, SendSigint
<1>4. CASE Report
  BY <1>a, <1>b, <1>c, <1>4 DEF Rehydrated, LossNeverSilent, Spawning, Spawned,
     NoSocket, ExchangeIsMine, Running, Booting, Sent, session, worker, kernel, closer,
     wires, Report
<1>5. CASE KillAndRespawn
  BY <1>a, <1>b, <1>c, <1>5 DEF Rehydrated, LossNeverSilent, Spawning, Spawned,
     NoSocket, ExchangeIsMine, Running, Booting, Sent, Finish, KillSilently, session,
     worker, kernel, closer, wires, KillAndRespawn
<1>6. CASE Popen
  BY <1>a, <1>b, <1>c, <1>6 DEF Rehydrated, LossNeverSilent, Spawning, Spawned,
     NoSocket, ExchangeIsMine, Running, Booting, Sent, session, worker, kernel, closer,
     wires, Popen
<1>7. CASE PublishListener \/ RecheckClosed
  BY <1>a, <1>b, <1>c, <1>7 DEF Rehydrated, LossNeverSilent, Spawning, Spawned,
     NoSocket, ExchangeIsMine, Running, Booting, Sent, Finish, DropListener, session,
     worker, kernel, closer, wires, PublishListener, RecheckClosed
<1>8. CASE Accept \/ AcceptFails
  BY <1>a, <1>b, <1>c, <1>8 DEF Rehydrated, LossNeverSilent, Spawning, Spawned,
     NoSocket, ExchangeIsMine, Running, Booting, Sent, Finish, KillSilently,
     DropListener, session, worker, kernel, closer, wires, Accept, AcceptFails
<1>9. CASE HelloReady
  BY <1>a, <1>b, <1>c, <1>9 DEF Rehydrated, LossNeverSilent, Spawning, Spawned,
     NoSocket, ExchangeIsMine, Running, Booting, Sent, Finish, session, worker, kernel,
     closer, wires, HelloReady
<1>10. CASE Restored
  BY <1>a, <1>b, <1>c, <1>10 DEF Rehydrated, LossNeverSilent, Spawning, Spawned,
     NoSocket, ExchangeIsMine, Running, Booting, Sent, Finish, session, worker, kernel,
     closer, wires, Restored
<1>11. CASE HandshakeFails
  BY <1>a, <1>b, <1>c, <1>11 DEF Rehydrated, LossNeverSilent, Spawning, Spawned,
     NoSocket, ExchangeIsMine, Running, Booting, Sent, Finish, KillSilently, session,
     worker, kernel, closer, wires, HandshakeFails
<1>12. CASE Close \/ WakeAccept \/ CloserAcquire \/ AcquireExpires \/ ForceKill \/
           ReacquireExpires
  BY <1>a, <1>b, <1>c, <1>12 DEF Rehydrated, LossNeverSilent, Spawning, Spawned,
     NoSocket, ExchangeIsMine, Running, Booting, Sent, session, worker, kernel, closer,
     wires, Close, WakeAccept, CloserAcquire, AcquireExpires, ForceKill,
     ReacquireExpires
<1>13. CASE AskToExit \/ WaitForExit \/ Teardown \/ Cleanup
  BY <1>a, <1>b, <1>c, <1>13 DEF Rehydrated, LossNeverSilent, Spawning, Spawned,
     NoSocket, ExchangeIsMine, Running, Booting, Sent, KillSilently, session, worker,
     kernel, closer, wires, AskToExit, WaitForExit, Teardown, Cleanup
<1>14. CASE KernelConnect \/ KernelBoots \/ KernelHangsUp \/ KernelCrash
  BY <1>a, <1>b, <1>c, <1>14 DEF Rehydrated, LossNeverSilent, Spawning, Spawned,
     NoSocket, ExchangeIsMine, Running, Booting, Sent, Linked, session, worker, kernel,
     closer, wires, KernelConnect, KernelBoots, KernelHangsUp, KernelCrash
<1>15. CASE IdleInterrupted \/ KernelShutdown \/ KernelTakesCell
  BY <1>a, <1>b, <1>c, <1>15 DEF Rehydrated, LossNeverSilent, Spawning, Spawned,
     NoSocket, ExchangeIsMine, Running, Booting, Sent, session, worker, kernel, closer,
     wires, IdleInterrupted, KernelShutdown, KernelTakesCell
<1>16. CASE KernelRehydrate
  BY <1>a, <1>b, <1>c, <1>16 DEF Rehydrated, LossNeverSilent, Spawning, Spawned,
     NoSocket, ExchangeIsMine, Running, Booting, Sent, Linked, session, worker, kernel,
     closer, wires, KernelRehydrate
<1>17. CASE GuardRefuses \/ LoopTorn \/ KernelAnswers
  BY <1>a, <1>b, <1>c, <1>17 DEF Rehydrated, LossNeverSilent, Spawning, Spawned,
     NoSocket, ExchangeIsMine, Running, Booting, Sent, Linked, Snapshots, session,
     worker, kernel, closer, wires, GuardRefuses, LoopTorn, KernelAnswers
<1>18. CASE ArmSigint \/ BodyStarts \/ BodyEnds \/ BodyInterrupted \/ DisarmSigint
  BY <1>a, <1>b, <1>c, <1>18 DEF Rehydrated, LossNeverSilent, Spawning, Spawned,
     NoSocket, ExchangeIsMine, Running, Booting, Sent, session, worker, kernel, closer,
     wires, ArmSigint, BodyStarts, BodyEnds, BodyInterrupted, DisarmSigint
<1>19. CASE Terminated
  BY <1>19, SStutter DEF Terminated, SInv, IInv
<1>20. QED
  BY <1>1, <1>2, <1>3, <1>4, <1>5, <1>6, <1>7, <1>8, <1>9, <1>10, <1>11, <1>12, <1>13,
     <1>14, <1>15, <1>16, <1>17, <1>18, <1>19 DEF Next, WorkerStep, Timeout, CloserStep,
     KernelStep, BodyStep

-----------------------------------------------------------------------------
(* The connected kernel. *)

\* A connected kernel was connected before, in the same state but for what the
\* cell in progress adds, or it is the one a respawn has just brought up.
LEMMA ConnectedBefore ==
  ASSUME IInv, Next, Connected'
  PROVE  \/ HelloReady /\ blob = {}
         \/ Restored
         \/ /\ Connected /\ epoch' = epoch /\ lost' = lost
            /\ ns' = ns \/ BodyStarts
            /\ fed' = fed \/ KernelTakesCell
            /\ (asked' = asked /\ cell' = cell) \/ ExecuteCell
            /\ (wpc' = "reply" => wpc = "reply" \/ ReadFrame)
<1>a. NoSocket /\ ExchangeIsMine
  BY DEF IInv
<1>b. KernelRehydrate => wpc = "restored"
  BY RehydrateIsAwaited
<1>1. CASE ExecuteCell \/ WorkerAcquire \/ CheckPipe \/ WriteFrame \/ TornUnderWorker
           \/ ReadReset
  BY <1>a, <1>b, <1>1 DEF Connected, Respawning, Spawned, NoSocket, ExchangeIsMine,
     Running, Booting, Sent, Finish, session, worker, kernel, closer, wires,
     ExecuteCell, WorkerAcquire, CheckPipe, WriteFrame, TornUnderWorker, ReadReset, Reset
<1>2. CASE ReadFrame
  BY <1>a, <1>b, <1>2 DEF Connected, Respawning, Spawned, NoSocket, ExchangeIsMine,
     Running, Booting, Sent, session, worker, kernel, closer, wires, ReadFrame
<1>3. CASE ReadEof \/ TimeoutClean \/ TimeoutPartial \/ GraceExpires \/ SendSigint
  BY <1>a, <1>b, <1>3 DEF Connected, Respawning, Spawned, NoSocket, ExchangeIsMine,
     Running, Booting, Sent, session, worker, kernel, closer, wires, ReadEof,
     TimeoutClean, TimeoutPartial, GraceExpires, SendSigint
<1>4. CASE Report
  BY <1>a, <1>b, <1>4 DEF Connected, Respawning, Spawned, NoSocket, ExchangeIsMine,
     Running, Booting, Sent, session, worker, kernel, closer, wires, Report
<1>5. CASE KillAndRespawn
  BY <1>a, <1>b, <1>5 DEF Connected, Respawning, Spawned, NoSocket, ExchangeIsMine,
     Running, Booting, Sent, Finish, KillSilently, session, worker, kernel, closer,
     wires, KillAndRespawn
<1>6. CASE Popen
  BY <1>a, <1>b, <1>6 DEF Connected, Respawning, Spawned, NoSocket, ExchangeIsMine,
     Running, Booting, Sent, session, worker, kernel, closer, wires, Popen
<1>7. CASE PublishListener \/ RecheckClosed
  BY <1>a, <1>b, <1>7 DEF Connected, Respawning, Spawned, NoSocket, ExchangeIsMine,
     Running, Booting, Sent, Finish, DropListener, session, worker, kernel, closer,
     wires, PublishListener, RecheckClosed
<1>8. CASE Accept \/ AcceptFails
  BY <1>a, <1>b, <1>8 DEF Connected, Respawning, Spawned, NoSocket, ExchangeIsMine,
     Running, Booting, Sent, Finish, KillSilently, DropListener, session, worker,
     kernel, closer, wires, Accept, AcceptFails
<1>9. CASE HelloReady \/ Restored \/ HandshakeFails
  BY <1>a, <1>b, <1>9 DEF Connected, Respawning, Spawned, NoSocket, ExchangeIsMine,
     Running, Booting, Sent, Finish, KillSilently, session, worker, kernel, closer,
     wires, HelloReady, Restored, HandshakeFails
<1>10. CASE Close \/ WakeAccept \/ CloserAcquire \/ AcquireExpires \/ ForceKill \/
           ReacquireExpires
  BY <1>a, <1>b, <1>10 DEF Connected, Respawning, Spawned, NoSocket, ExchangeIsMine,
     Running, Booting, Sent, session, worker, kernel, closer, wires, Close, WakeAccept,
     CloserAcquire, AcquireExpires, ForceKill, ReacquireExpires
<1>11. CASE AskToExit \/ WaitForExit \/ Teardown \/ Cleanup
  BY <1>a, <1>b, <1>11 DEF Connected, Respawning, Spawned, NoSocket, ExchangeIsMine,
     Running, Booting, Sent, KillSilently, session, worker, kernel, closer, wires,
     AskToExit, WaitForExit, Teardown, Cleanup
<1>12. CASE KernelConnect \/ KernelBoots \/ KernelHangsUp \/ KernelCrash
  BY <1>a, <1>b, <1>12 DEF Connected, Respawning, Spawned, NoSocket, ExchangeIsMine,
     Running, Booting, Sent, Linked, session, worker, kernel, closer, wires,
     KernelConnect, KernelBoots, KernelHangsUp, KernelCrash
<1>13. CASE IdleInterrupted \/ KernelShutdown \/ KernelTakesCell
  BY <1>a, <1>b, <1>13 DEF Connected, Respawning, Spawned, NoSocket, ExchangeIsMine,
     Running, Booting, Sent, session, worker, kernel, closer, wires, IdleInterrupted,
     KernelShutdown, KernelTakesCell
<1>14. CASE KernelRehydrate
  BY <1>a, <1>b, <1>14 DEF Connected, Respawning, Spawned, NoSocket, ExchangeIsMine,
     Running, Booting, Sent, Linked, session, worker, kernel, closer, wires,
     KernelRehydrate
<1>15. CASE GuardRefuses \/ LoopTorn \/ KernelAnswers
  BY <1>a, <1>b, <1>15 DEF Connected, Respawning, Spawned, NoSocket, ExchangeIsMine,
     Running, Booting, Sent, Linked, Snapshots, session, worker, kernel, closer, wires,
     GuardRefuses, LoopTorn, KernelAnswers
<1>16. CASE ArmSigint \/ BodyStarts \/ BodyEnds \/ BodyInterrupted \/ DisarmSigint
  BY <1>a, <1>b, <1>16 DEF Connected, Respawning, Spawned, NoSocket, ExchangeIsMine,
     Running, Booting, Sent, session, worker, kernel, closer, wires, ArmSigint,
     BodyStarts, BodyEnds, BodyInterrupted, DisarmSigint
<1>17. CASE Terminated
  BY <1>17 DEF Terminated, vars, Connected, Respawning, Spawned, HelloReady
<1>18. QED
  BY <1>1, <1>2, <1>3, <1>4, <1>5, <1>6, <1>7, <1>8, <1>9, <1>10, <1>11, <1>12, <1>13,
     <1>14, <1>15, <1>16, <1>17 DEF Next, WorkerStep, Timeout, CloserStep, KernelStep,
     BodyStep

-----------------------------------------------------------------------------
(* Snapshots only grow, but for what was lost. *)

\* A running kernel is connected, and runs for the call in progress.
LEMMA RunningIsConnected ==
  ASSUME IInv, Running
  PROVE  Connected /\ wpc \in Sent /\ kcell = cell
  BY DEF IInv, ExchangeIsMine, NoSocket, Running, Connected, Respawning, Sent, Spawned

\* Only a report adds to what must be kept; a restore takes its losses away.
LEMMA KeptShrinks ==
  ASSUME Next, ~Report
  PROVE  saved' = saved /\ (lost' = lost \/ Restored) /\ Kept' \subseteq Kept
<1>1. saved' = saved /\ (lost' = lost \/ (Restored /\ lost' = lost \cup dropped))
  BY DEF Next, WorkerStep, Timeout, CloserStep, KernelStep, BodyStep, session, worker,
     kernel, closer, wires, vars, Finish, ExecuteCell, WorkerAcquire, CheckPipe,
     WriteFrame, TornUnderWorker, ReadReset, Reset, ReadFrame, ReadEof, TimeoutClean,
     TimeoutPartial,
     GraceExpires, SendSigint, KillAndRespawn, Popen, PublishListener, RecheckClosed,
     Accept, AcceptFails, HelloReady, Restored, HandshakeFails, Close, WakeAccept,
     CloserAcquire, AcquireExpires, ForceKill, ReacquireExpires, AskToExit, WaitForExit,
     Teardown, Cleanup, KernelConnect, KernelBoots, KernelHangsUp, KernelCrash,
     IdleInterrupted, KernelShutdown, KernelRehydrate, KernelTakesCell, GuardRefuses,
     ArmSigint, BodyStarts, LoopTorn, BodyEnds, BodyInterrupted, DisarmSigint,
     KernelAnswers, Terminated
<1>2. QED
  BY <1>1 DEF Kept

\* An answer has in its snapshot what was kept, and the kernel that gave it has
\* in its state what the snapshot has.
LEMMA AnswersGrow ==
  ASSUME SInv, Next, NEW i \in DOMAIN resp'
  PROVE  /\ resp'[i].snap # {} => Kept' \subseteq resp'[i].snap
         /\ Connected' => resp'[i].snap \subseteq ns'
<1>0. SnapshotsGrow /\ IInv /\ ExchangeIsMine
  BY DEF SInv, IInv
<1>1. Kept' \subseteq Kept
  <2>1. Report => DOMAIN resp = {} /\ resp' = resp
    BY <1>0 DEF Report, ExchangeIsMine, Sent, Spawned, wires
  <2>2. QED
    BY <2>1, KeptShrinks
<1>2. CASE i \in DOMAIN resp /\ resp'[i] = resp[i]
  <2>1. HelloReady \/ Restored => DOMAIN resp' = {}
    BY <1>0, RespOne DEF IInv, HelloReady, Restored
  <2>2. Connected' => Connected /\ ns \subseteq ns'
    BY <1>0, <2>1, ConnectedBefore DEF BodyStarts
  <2>3. QED
    BY <1>0, <1>1, <1>2, <2>2 DEF SnapshotsGrow
<1>3. CASE resp'[i].snap = {}
  BY <1>3
<1>4. CASE Running /\ (GuardRefuses \/ KernelAnswers) /\ resp'[i].snap \in {ns, {}}
  <2>1. ns' = ns
    BY <1>4 DEF GuardRefuses, KernelAnswers, kernel
  <2>2. Kept \subseteq ns
    BY <1>0, <1>4, RunningIsConnected DEF SnapshotsGrow
  <2>3. QED
    BY <1>1, <1>4, <2>1, <2>2
<1>5. QED
  BY <1>0, <1>2, <1>3, <1>4, AnswersAfter

\* Every step keeps what was kept, in the cache and in the connected kernel.
LEMMA SnapshotsGrowStep ==
  ASSUME SInv, Next
  PROVE  SnapshotsGrow'
<1>0. SnapshotsGrow /\ Rehydrated /\ IInv
  BY DEF SInv
<1>1. \A i \in DOMAIN resp' :
        /\ resp'[i].snap # {} => Kept' \subseteq resp'[i].snap
        /\ Connected' => resp'[i].snap \subseteq ns'
  BY AnswersGrow
<1>2. CASE Report
  <2>1. /\ blob' = (IF reply.snap = {} THEN blob ELSE reply.snap)
        /\ Kept' \subseteq Kept \cup reply.snap
        /\ wpc = "reply" /\ wpc' = "idle"
        /\ UNCHANGED <<pipe, kpc, ns>>
    BY <1>2 DEF Report, Kept, kernel
  <2>2. Connected' => Connected /\ ns' = ns
    BY <2>1 DEF Connected, Respawning, Spawned
  <2>3. QED
    BY <1>0, <1>1, <2>1, <2>2 DEF SnapshotsGrow
<1>3. CASE ~Report
  <2>1. Kept' \subseteq Kept /\ blob' = blob
    <3>1. blob' = blob
      BY <1>3 DEF Next, WorkerStep, Timeout, CloserStep, KernelStep, BodyStep, session,
         worker, kernel, closer, wires, vars, ExecuteCell, WorkerAcquire, CheckPipe,
         WriteFrame, TornUnderWorker, ReadReset, Reset, ReadFrame, ReadEof, TimeoutClean,
         TimeoutPartial,
         GraceExpires, SendSigint, KillAndRespawn, Popen, PublishListener,
         RecheckClosed, Accept, AcceptFails, HelloReady, Restored, HandshakeFails,
         Close, WakeAccept, CloserAcquire, AcquireExpires, ForceKill, ReacquireExpires,
         AskToExit, WaitForExit, Teardown, Cleanup, KernelConnect, KernelBoots,
         KernelHangsUp, KernelCrash, IdleInterrupted, KernelShutdown, KernelRehydrate,
         KernelTakesCell, GuardRefuses, ArmSigint, BodyStarts, LoopTorn, BodyEnds,
         BodyInterrupted, DisarmSigint, KernelAnswers, Terminated
    <3>2. QED
      BY <1>3, <3>1, KeptShrinks
  <2>2. wpc' = "reply" =>
          \/ wpc = "reply" /\ reply' = reply
          \/ ReadFrame /\ 1 \in DOMAIN resp /\ reply' = resp[1]
    <3>1. ReadFrame /\ wpc' = "reply" => 1 \in DOMAIN resp /\ reply' = resp[1]
      BY <1>0, HeadWaits DEF ReadFrame
    <3>2. ~ReadFrame /\ wpc' = "reply" => wpc = "reply" /\ reply' = reply
      BY <1>3 DEF Next, WorkerStep, Timeout, CloserStep, KernelStep, BodyStep, session,
         worker, kernel, closer, wires, vars, Finish, ExecuteCell, WorkerAcquire,
         CheckPipe, WriteFrame, TornUnderWorker, ReadReset, Reset, ReadEof, TimeoutClean,
         TimeoutPartial,
         GraceExpires, SendSigint, KillAndRespawn, Popen, PublishListener,
         RecheckClosed, Accept, AcceptFails, HelloReady, Restored, HandshakeFails,
         Close, WakeAccept, CloserAcquire, AcquireExpires, ForceKill, ReacquireExpires,
         AskToExit, WaitForExit, Teardown, Cleanup, KernelConnect, KernelBoots,
         KernelHangsUp, KernelCrash, IdleInterrupted, KernelShutdown, KernelRehydrate,
         KernelTakesCell, GuardRefuses, ArmSigint, BodyStarts, LoopTorn, BodyEnds,
         BodyInterrupted, DisarmSigint, KernelAnswers, Terminated
    <3>3. QED
      BY <3>1, <3>2
  <2>3. CASE ~Connected'
    BY <1>0, <1>1, <2>1, <2>2, <2>3 DEF SnapshotsGrow
  <2>4. CASE HelloReady /\ blob = {}
    BY <1>0, <1>1, <2>1, <2>4 DEF SnapshotsGrow, HelloReady, Finish
  <2>5. CASE Restored
    <3>1. Kept' \subseteq Kept \ dropped /\ wpc' = "idle" /\ ns' = ns /\ ns = blob \ dropped
      BY <1>0, <2>5 DEF Restored, Finish, kernel, Rehydrated, Kept
    <3>2. QED
      BY <1>0, <1>1, <2>1, <3>1 DEF SnapshotsGrow
  <2>6. CASE Connected /\ (ns' = ns \/ BodyStarts)
    <3>1. ns \subseteq ns'
      BY <2>6 DEF BodyStarts
    <3>2. QED
      BY <1>0, <1>1, <2>1, <2>2, <2>6, <3>1 DEF SnapshotsGrow
  <2>7. QED
    BY <1>0, <2>3, <2>4, <2>5, <2>6, ConnectedBefore
<1>4. QED
  BY <1>2, <1>3

-----------------------------------------------------------------------------
(* The accumulator has the calls of this epoch. *)

\* The kernel takes the cell in progress, once, while it is connected.
LEMMA TakesThisCell ==
  ASSUME IInv, KernelTakesCell
  PROVE  /\ wpc \in Sent /\ kcell' = cell /\ fed' = fed \cup {cell} /\ Connected
         /\ \E i \in DOMAIN req : req[i].type = "code"
<1>0. TypeOK /\ OneExchange /\ NoSocket /\ ExchangeIsMine
  BY DEF IInv
<1>1. req # <<>> /\ Head(req) = req[1] /\ 1 \in DOMAIN req /\ req[1].type = "code"
  BY <1>0, ReqTail DEF KernelTakesCell
<1>2. pipe /\ wpc \in Sent /\ req[1].cell = cell
  BY <1>0, <1>1 DEF NoSocket, NoWork, ExchangeIsMine
<1>3. QED
  BY <1>1, <1>2 DEF KernelTakesCell, Connected, Respawning, Sent, Spawned

\* Only a new call asks, and only the end of a respawn moves the epoch on.
LEMMA EpochMoves ==
  ASSUME Next
  PROVE  \/ ExecuteCell
         \/ /\ asked' = asked /\ cell' = cell
            /\ wpc' # "idle" => wpc # "idle"
            /\ epoch' = epoch \/ (epoch' = epoch + 1 /\ wpc # "idle" /\ wpc' = "idle")
  BY DEF Next, WorkerStep, Timeout, CloserStep, KernelStep, BodyStep, session, worker,
     kernel, closer, wires, vars, Finish, WorkerAcquire, CheckPipe, WriteFrame,
     TornUnderWorker, ReadReset, Reset, ReadFrame, ReadEof, TimeoutClean, TimeoutPartial,
     GraceExpires,
     SendSigint, Report, KillAndRespawn, Popen, PublishListener, RecheckClosed, Accept,
     AcceptFails, HelloReady, Restored, HandshakeFails, Close, WakeAccept,
     CloserAcquire, AcquireExpires, ForceKill, ReacquireExpires, AskToExit, WaitForExit,
     Teardown, Cleanup, KernelConnect, KernelBoots, KernelHangsUp, KernelCrash,
     IdleInterrupted, KernelShutdown, KernelRehydrate, KernelTakesCell, GuardRefuses,
     ArmSigint, BodyStarts, LoopTorn, BodyEnds, BodyInterrupted, DisarmSigint,
     KernelAnswers, Terminated

\* The accumulator grows by what the kernel takes; a new process starts one.
LEMMA FedMoves ==
  ASSUME Next
  PROVE  fed' = fed \/ KernelTakesCell \/ (Popen /\ fed' = {})
  BY DEF Next, WorkerStep, Timeout, CloserStep, KernelStep, BodyStep, session, worker,
     kernel, closer, wires, vars, ExecuteCell, WorkerAcquire, CheckPipe, WriteFrame,
     TornUnderWorker, ReadReset, Reset, ReadFrame, ReadEof, TimeoutClean, TimeoutPartial,
     GraceExpires,
     SendSigint, Report, KillAndRespawn, Popen, PublishListener, RecheckClosed, Accept,
     AcceptFails, HelloReady, Restored, HandshakeFails, Close, WakeAccept,
     CloserAcquire, AcquireExpires, ForceKill, ReacquireExpires, AskToExit, WaitForExit,
     Teardown, Cleanup, KernelConnect, KernelBoots, KernelHangsUp, KernelCrash,
     IdleInterrupted, KernelShutdown, KernelRehydrate, GuardRefuses, ArmSigint,
     BodyStarts, LoopTorn, BodyEnds, BodyInterrupted, DisarmSigint, KernelAnswers,
     Terminated

\* A respawn begins with a new process.
LEMMA RespawnMoves ==
  ASSUME Next, wpc' \in Spawned \cup {"hello", "restored"}
  PROVE  Popen \/ wpc \in Spawned \cup {"hello", "restored"}
  BY DEF Spawned, Finish, Next, WorkerStep, Timeout, CloserStep, KernelStep, BodyStep,
     session, worker, kernel, closer, wires, vars, ExecuteCell, WorkerAcquire,
     CheckPipe, WriteFrame, TornUnderWorker, ReadReset, Reset, ReadFrame, ReadEof,
     TimeoutClean,
     TimeoutPartial, GraceExpires, SendSigint, Report, KillAndRespawn, PublishListener,
     RecheckClosed, Accept, AcceptFails, HelloReady, Restored, HandshakeFails, Close,
     WakeAccept, CloserAcquire, AcquireExpires, ForceKill, ReacquireExpires, AskToExit,
     WaitForExit, Teardown, Cleanup, KernelConnect, KernelBoots, KernelHangsUp,
     KernelCrash, IdleInterrupted, KernelShutdown, KernelRehydrate, KernelTakesCell,
     GuardRefuses, ArmSigint, BodyStarts, LoopTorn, BodyEnds, BodyInterrupted,
     DisarmSigint, KernelAnswers, Terminated

\* A cell is set up when the kernel takes it.
LEMMA SetupMoves ==
  ASSUME Next, ~KernelTakesCell
  PROVE  /\ Running' => Running
         /\ kpc' \in {"setup", "armed"} =>
              kpc \in {"setup", "armed"} /\ kcell' = kcell /\ ns' = ns
  BY DEF Running, KillSilently, Next, WorkerStep, Timeout, CloserStep, KernelStep,
     BodyStep, session, worker, kernel, closer, wires, vars, ExecuteCell, WorkerAcquire,
     CheckPipe, WriteFrame, TornUnderWorker, ReadReset, Reset, ReadFrame, ReadEof,
     TimeoutClean,
     TimeoutPartial, GraceExpires, SendSigint, Report, KillAndRespawn, Popen,
     PublishListener, RecheckClosed, Accept, AcceptFails, HelloReady, Restored,
     HandshakeFails, Close, WakeAccept, CloserAcquire, AcquireExpires, ForceKill,
     ReacquireExpires, AskToExit, WaitForExit, Teardown, Cleanup, KernelConnect,
     KernelBoots, KernelHangsUp, KernelCrash, IdleInterrupted, KernelShutdown,
     KernelRehydrate, GuardRefuses, ArmSigint, BodyStarts, LoopTorn, BodyEnds,
     BodyInterrupted, DisarmSigint, KernelAnswers, Terminated

\* Where the worker of a connected kernel comes from.
LEMMA WorkerMoves ==
  ASSUME Next, ~ExecuteCell, Connected, Connected'
  PROVE  /\ wpc' # "idle" => wpc # "idle"
         /\ wpc' \in {"idle", "reply"} => wpc \in {"idle", "reply"} \/ (ReadFrame /\ wpc' = "reply")
         /\ wpc' \in {"lock", "check", "write"} => wpc \in {"lock", "check", "write"}
  BY DEF Connected, Respawning, Spawned, Finish, KillSilently, Next, WorkerStep,
     Timeout, CloserStep, KernelStep, BodyStep, session, worker, kernel, closer, wires,
     vars, WorkerAcquire, CheckPipe, WriteFrame, TornUnderWorker, ReadReset, Reset,
     ReadFrame, ReadEof,
     TimeoutClean, TimeoutPartial, GraceExpires, SendSigint, Report, KillAndRespawn,
     Popen, PublishListener, RecheckClosed, Accept, AcceptFails, HelloReady, Restored,
     HandshakeFails, Close, WakeAccept, CloserAcquire, AcquireExpires, ForceKill,
     ReacquireExpires, AskToExit, WaitForExit, Teardown, Cleanup, KernelConnect,
     KernelBoots, KernelHangsUp, KernelCrash, IdleInterrupted, KernelShutdown,
     KernelRehydrate, KernelTakesCell, GuardRefuses, ArmSigint, BodyStarts, LoopTorn,
     BodyEnds, BodyInterrupted, DisarmSigint, KernelAnswers, Terminated

\* A new call has been fed nothing.
LEMMA CallIsUnfed ==
  ASSUME SInv, ExecuteCell
  PROVE  Fed'
<1>0. Fed /\ TypeNumbers /\ TypeData /\ OnlyClean /\ ExchangeIsMine
  BY TypeParts DEF SInv, IInv
<1>1. /\ cell' = cell + 1 /\ wpc = "idle" /\ wpc' = "lock" /\ cell \in 0 .. MaxCells
      /\ MaxCells \in Nat /\ cell + 1 \in Cells
      /\ asked' = [asked EXCEPT ![cell + 1] = epoch]
      /\ UNCHANGED <<epoch, pipe, kpc, kcell, ns, fed, req, resp>>
  BY <1>0, MaxCellsAssumption DEF ExecuteCell, TypeNumbers, Cells, kernel, wires
<1>2. \A n \in 1 .. cell' : asked'[n] = IF n = cell' THEN epoch ELSE asked[n]
  BY <1>0, <1>1 DEF TypeData, Cells
<1>3. epoch \in Nat /\ \A n \in 1 .. cell' : asked'[n] <= epoch'
  BY <1>0, <1>1, <1>2 DEF Fed, TypeNumbers, Kernels
<1>4. Asked(cell)' \ {cell'} = Asked(cell) /\ Asked(cell) \subseteq Asked(cell)' /\ cell' \notin Asked(cell)
  BY <1>1, <1>2 DEF Asked
<1>5. kpc # "dead" => cell' \notin ns
  BY <1>0, <1>1 DEF OnlyClean, Clean
<1>6. ~Running /\ ~Answered /\ \A i \in DOMAIN req : req[i].type # "code"
  BY <1>0, <1>1 DEF ExchangeIsMine, Answered, Sent
<1>7. Connected' => Connected /\ fed = Asked(cell) /\ kpc # "dead"
  BY <1>0, <1>1 DEF Fed, Connected, Respawning, Spawned
<1>8. Running' = Running /\ Answered' = Answered
  BY <1>1 DEF Running, Answered
<1>9. asked'[cell'] = epoch'
  BY <1>1, <1>2
<1>10. QED
  BY <1>0, <1>1, <1>3, <1>4, <1>5, <1>6, <1>7, <1>8, <1>9 DEF Fed, Spawned, Running


\* The kernel a respawn brought up starts a new epoch and a new accumulator.
LEMMA NewEpochIsUnfed ==
  ASSUME SInv, HelloReady \/ Restored, wpc' = "idle"
  PROVE  Fed'
<1>0. Fed /\ TypeNumbers /\ TypeData /\ ExchangeIsMine /\ IInv
  BY TypeParts DEF SInv, IInv
<1>1. /\ wpc \in {"hello", "restored"} /\ asked' = asked /\ cell' = cell
      /\ UNCHANGED <<fed, ns, kpc, kcell, req>>
      /\ DOMAIN resp' = {} /\ ~Running
  <2>1. wpc' = "idle" => req' = req
    BY DEF HelloReady, Restored
  <2>2. DOMAIN resp' = {} /\ ~Running
    BY <1>0, RespOne, Idle DEF IInv, HelloReady, Restored
  <2>3. QED
    BY <2>1, <2>2 DEF HelloReady, Restored, kernel
<1>2. fed = {} /\ \A n \in 1 .. cell : asked[n] <= epoch
  BY <1>0, <1>1 DEF Fed
<1>3. epoch \in Nat /\ \A n \in 1 .. cell : asked[n] \in Nat
  BY <1>0, MaxCellsAssumption DEF TypeNumbers, TypeData, Kernels, Cells
<1>4. \/ epoch' = epoch + 1
      \/ ~Connected' /\ epoch' = epoch
  <2>1. HelloReady /\ epoch' # epoch + 1 => kpc' = "dead" /\ epoch' = epoch
    BY <1>1 DEF HelloReady
  <2>2. QED
    BY <2>1 DEF Restored, Connected
<1>5. \A n \in 1 .. cell' : asked'[n] <= epoch'
  BY <1>1, <1>2, <1>3, <1>4
<1>6. Connected' => Asked(cell)' = {}
  BY <1>1, <1>2, <1>3, <1>4 DEF Asked
<1>7. ~Running' /\ ~Answered'
  BY <1>1 DEF Running, Answered
<1>8. \A i \in DOMAIN req' : req'[i].type # "code"
  BY <1>0, <1>1 DEF ExchangeIsMine, Sent
<1>9. QED
  BY <1>1, <1>2, <1>5, <1>6, <1>7, <1>8 DEF Fed, Spawned, Running

\* What is fed is what was asked, whoever moves.
LEMMA ConnectedFed ==
  ASSUME SInv, Next, ~ExecuteCell, ~HelloReady, ~Restored, Connected'
  PROVE  /\ Asked(cell)' \ {cell'} \subseteq fed' /\ fed' \subseteq Asked(cell)'
         /\ wpc' \in {"idle", "reply"} => fed' = Asked(cell)'
         /\ wpc' \in {"lock", "check", "write"} => cell' \notin fed'
         /\ wpc' # "idle" /\ cell' \notin fed' => cell' \notin ns'
         /\ Running' \/ Answered' => cell' \in fed'
<1>0. Fed /\ IInv /\ TypeNumbers /\ Bounds /\ ExchangeIsMine
  BY TypeParts DEF SInv, IInv
<1>1. /\ Connected /\ epoch' = epoch /\ asked' = asked /\ cell' = cell
      /\ ns' = ns \/ BodyStarts
      /\ fed' = fed \/ KernelTakesCell
  BY <1>0, ConnectedBefore
<1>2. Asked(cell)' = Asked(cell)
  BY <1>1 DEF Asked
<1>3. wpc # "idle" => cell \in Asked(cell)
  BY <1>0 DEF Fed, Asked, Bounds, TypeNumbers
<1>4. CASE KernelTakesCell
  <2>1. wpc \in Sent /\ fed' = fed \cup {cell} /\ wpc' = wpc
    BY <1>0, <1>4, TakesThisCell DEF KernelTakesCell
  <2>2. QED
    BY <1>0, <1>1, <1>2, <1>3, <2>1 DEF Fed, Sent
<1>5. CASE ~KernelTakesCell
  <2>1. fed' = fed
    BY <1>1, <1>5
  <2>2. Running' \/ Answered' => cell \in fed
    <3>1. Running => cell \in fed
      BY <1>0, <1>1 DEF Fed
    <3>2. Answered' => Running \/ Answered
      <4>1. ASSUME NEW i \in DOMAIN resp', resp'[i].type \in {"result", "return"}
            PROVE  Running \/ Answered
        BY <1>0, <4>1, AnswersAfter DEF Answered
      <4>2. QED
        BY <4>1 DEF Answered
    <3>3. QED
      BY <1>0, <1>1, <1>5, <3>1, <3>2, SetupMoves DEF Fed
  <2>3. wpc' # "idle" /\ cell \notin fed => cell \notin ns'
    <3>1. wpc' # "idle" => wpc # "idle"
      BY <1>1, WorkerMoves
    <3>2. BodyStarts => cell \in fed
      BY <1>0, <1>1 DEF Fed, BodyStarts, Running
    <3>3. QED
      BY <1>0, <1>1, <3>1, <3>2 DEF Fed
  <2>4. wpc' \in {"idle", "reply"} => fed = Asked(cell)
    <3>1. ASSUME ReadFrame, wpc' = "reply" PROVE cell \in fed /\ wpc # "idle"
      <4>1. 1 \in DOMAIN resp /\ resp[1].type \notin {"unreadable", "boot_error"} /\ resp[1] \in Answers
        BY <1>0, <3>1, RespOne DEF IInv, ReadFrame
      <4>2. resp[1].type \in {"result", "return"}
        BY <1>0, <3>1, <4>1 DEF ExchangeIsMine, Answers, ReadFrame, Sent
      <4>3. QED
        BY <1>0, <1>1, <3>1, <4>1, <4>2 DEF Fed, Answered, ReadFrame
    <3>2. wpc' \in {"idle", "reply"} => wpc \in {"idle", "reply"} \/ (ReadFrame /\ wpc' = "reply")
      BY <1>1, WorkerMoves
    <3>3. QED
      BY <1>0, <1>1, <1>3, <3>1, <3>2 DEF Fed
  <2>5. wpc' \in {"lock", "check", "write"} => cell \notin fed
    BY <1>0, <1>1, WorkerMoves DEF Fed
  <2>6. QED
    BY <1>0, <1>1, <1>2, <2>1, <2>2, <2>3, <2>4, <2>5 DEF Fed
<1>6. QED
  BY <1>4, <1>5

\* Every step keeps the accumulator in step with the epoch.
LEMMA FedStep ==
  ASSUME SInv, Next
  PROVE  Fed'
<1>0. Fed /\ IInv /\ TypeNumbers /\ TypeData /\ NoSocket /\ ExchangeIsMine
  BY TypeParts DEF SInv, IInv
<1>1. CASE ExecuteCell
  BY <1>1, CallIsUnfed
<1>2. CASE (HelloReady \/ Restored) /\ wpc' = "idle"
  BY <1>2, NewEpochIsUnfed
<1>3. CASE ~ExecuteCell /\ ~((HelloReady \/ Restored) /\ wpc' = "idle")
  <2>1. asked' = asked /\ cell' = cell /\ epoch \in Nat /\ epoch' \in {epoch, epoch + 1}
        /\ (wpc' # "idle" => wpc # "idle" /\ epoch' = epoch)
    BY <1>0, <1>3, EpochMoves DEF TypeNumbers, Kernels
  <2>2. \A n \in 1 .. cell' : asked'[n] <= epoch'
    <3>1. \A n \in 1 .. cell : asked[n] \in Nat
      BY <1>0, MaxCellsAssumption DEF TypeData, TypeNumbers, Cells
    <3>2. QED
      BY <1>0, <2>1, <3>1 DEF Fed
  <2>3. wpc' # "idle" => asked'[cell'] = epoch'
    BY <1>0, <2>1 DEF Fed
  <2>4. wpc' \in Spawned \cup {"hello", "restored"} => fed' = {}
    <3>1. KernelTakesCell => wpc' \notin Spawned \cup {"hello", "restored"}
      BY <1>0, TakesThisCell DEF KernelTakesCell, Sent, Spawned
    <3>2. Popen => fed' = {}
      BY DEF Popen
    <3>3. QED
      BY <1>0, <3>1, <3>2, FedMoves, RespawnMoves DEF Fed
  <2>5. \A i \in DOMAIN req' : req'[i].type = "code" => cell' \notin fed'
    <3>1. SUFFICES ASSUME NEW i \in DOMAIN req', req'[i].type = "code"
                   PROVE  cell' \notin fed'
      OBVIOUS
    <3>2. CASE WriteFrame /\ pipe /\ kpc # "dead"
      <4>1. Connected /\ wpc = "write" /\ fed' = fed
        BY <1>0, <3>2 DEF WriteFrame, Connected, Respawning, Spawned, NoSocket, Booting, kernel
      <4>2. QED
        BY <1>0, <2>1, <4>1 DEF Fed
    <3>3. CASE ~KernelTakesCell /\ \E j \in DOMAIN req : req[j].type = "code"
      <4>1. cell \notin fed /\ ~Popen
        BY <1>0, <3>3 DEF Fed, ExchangeIsMine, Popen, Sent
      <4>2. QED
        BY <2>1, <3>3, <4>1, FedMoves
    <3>4. QED
      BY <1>0, <3>1, <3>2, <3>3, RequestsAfter
  <2>6. kpc' \in {"setup", "armed"} => kcell' \notin ns'
    <3>1. CASE KernelTakesCell
      <4>1. kcell' = cell /\ ns' = ns /\ Connected /\ cell \notin fed /\ wpc # "idle"
        BY <1>0, <3>1, TakesThisCell DEF Fed, KernelTakesCell, Sent
      <4>2. QED
        BY <1>0, <4>1 DEF Fed
    <3>2. CASE ~KernelTakesCell
      BY <1>0, <3>2, SetupMoves DEF Fed
    <3>3. QED
      BY <3>1, <3>2
  <2>7. (HelloReady \/ Restored) => ~Connected'
    BY <1>3 DEF HelloReady, Restored, Finish, Connected, Respawning
  <2>8. Connected' =>
         /\ Asked(cell)' \ {cell'} \subseteq fed' /\ fed' \subseteq Asked(cell)'
         /\ wpc' \in {"idle", "reply"} => fed' = Asked(cell)'
         /\ wpc' \in {"lock", "check", "write"} => cell' \notin fed'
         /\ wpc' # "idle" /\ cell' \notin fed' => cell' \notin ns'
         /\ Running' \/ Answered' => cell' \in fed'
    BY <1>3, <2>7, ConnectedFed
  <2>9. QED
    BY <2>2, <2>3, <2>4, <2>5, <2>6, <2>8 DEF Fed, Spawned
<1>4. QED
  BY <1>1, <1>2, <1>3

-----------------------------------------------------------------------------
(* The theorems. *)

\* The constructor leaves a session that has nothing to keep or to tell.
LEMMA InitSInv ==
  ASSUME Init
  PROVE  SInv
<1>0. IInv /\ DOMAIN <<>> = {} /\ MaxCells \in Nat \ {0}
  BY InitIInv, EmptyFacts, EmptySeq, MaxCellsAssumption
<1>1. LockHeld /\ Rooted /\ Rehydrated
  BY <1>0 DEF Init, LockHeld, Locked, Respawning, Spawned, Rooted, Rehydrated, LossNeverSilent
<1>2. SnapshotsGrow
  BY <1>0 DEF Init, SnapshotsGrow, Kept
<1>3. Fed
  BY <1>0 DEF Init, Fed, Asked, Answered, Running, Spawned
<1>4. QED
  BY <1>0, <1>1, <1>2, <1>3 DEF SInv

\* SInv is inductive: whatever a call, a respawn, a restore or a close() leaves
\* is what the next one relies on, for any number of calls.
THEOREM SessionInvariant == Spec => []SInv
<1>1. Init => SInv
  BY InitSInv
<1>2. SInv /\ [Next]_vars => SInv'
  <2>1. ASSUME SInv, Next PROVE SInv'
    <3>1. IInv'
      BY <2>1, TypeStep, BoundsStep, OneExchangeStep, ExchangeIsMineStep, NoSocketStep,
         OnlyCleanStep, WakeableStep DEF SInv, IInv
    <3>2. LockHeld' /\ Fed' /\ SnapshotsGrow' /\ Rooted' /\ Rehydrated'
      BY <2>1, LockHeldStep, FedStep, SnapshotsGrowStep, RootedStep, RehydratedStep
    <3>3. QED
      BY <3>1, <3>2 DEF SInv
  <2>2. QED
    BY <2>1, SStutter
<1>3. QED
  BY <1>1, <1>2, PTL DEF Spec

\* One kernel process at a time, and none after a close() that got the lock.
THEOREM NoOrphans == Spec => []NoOrphanKernel
<1>1. SInv => NoOrphanKernel
  BY DEF SInv, LockHeld, NoOrphanKernel
<1>2. QED
  BY <1>1, SessionInvariant, PTL

\* kernel_epoch tells the caller exactly which deltas a kernel has had.
THEOREM EpochIsExact == Spec => []EpochMarksAccumulator
<1>1. SInv => EpochMarksAccumulator
  <2>1. ASSUME SInv, Running PROVE fed = Asked(kcell)
    <3>1. Fed /\ Connected /\ wpc \in Sent /\ kcell = cell /\ cell \in Nat /\ cell >= 1
      BY <2>1, RunningIsConnected DEF SInv, IInv, TypeOK, Bounds, Sent
    <3>2. cell \in fed
      BY <2>1, <3>1 DEF Fed
    <3>3. QED
      BY <3>1, <3>2 DEF Fed, Asked
  <2>2. QED
    BY <2>1 DEF EpochMarksAccumulator, Asked
<1>2. QED
  BY <1>1, SessionInvariant, PTL

\* What reached the restart snapshot stays, but for losses that were reported.
THEOREM NothingRegresses == Spec => []SnapshotNeverRegresses
<1>1. SInv => SnapshotNeverRegresses
  BY RunningIsConnected DEF SInv, SnapshotsGrow, Kept, SnapshotNeverRegresses
<1>2. QED
  BY <1>1, SessionInvariant, PTL

\* The caller hears of whatever a rehydrate dropped.
THEOREM LossesAreTold == Spec => []LossNeverSilent
<1>1. SInv => LossNeverSilent
  BY DEF SInv, Rehydrated
<1>2. QED
  BY <1>1, SessionInvariant, PTL

-----------------------------------------------------------------------------
(* The steps of the service, as the mapping shows them. *)

\* What the caller of the service sees is left alone.
SameCall ==
  /\ cell' = cell /\ epoch' = epoch /\ out' = out /\ blob' = blob
  /\ (wpc' # "idle") = (wpc # "idle")

\* A step that changes nothing the service shows.
LEMMA StutterIs ==
  ASSUME SameCall, ServedState' = ServedState, ServedCalls' = ServedCalls,
         GivenAnswer' = GivenAnswer
  PROVE  UNCHANGED CS!cvars
  BY DEF SameCall, CS!cvars

\* A call begins.
LEMMA CallIs ==
  ASSUME wpc = "idle", wpc' # "idle", cell < MaxCells, cell' = cell + 1,
         epoch' = epoch, out' = out, blob' = blob,
         ServedState' = ServedState, ServedCalls' = ServedCalls, GivenAnswer' = GivenAnswer
  PROVE  CS!Call
  BY DEF CS!Call

\* The kernel takes the call.
LEMMA HearIs ==
  ASSUME SameCall, wpc # "idle", ServedState # {}, cell \notin ServedCalls,
         ServedCalls' = ServedCalls \cup {cell}, ServedState' = ServedState,
         GivenAnswer' = GivenAnswer
  PROVE  CS!Hear
  BY DEF SameCall, CS!Hear, CS!Up

\* The cell begins to have effects.
LEMMA RunIs ==
  ASSUME SameCall, wpc # "idle", ServedState # {}, cell \in ServedCalls, cell \notin ServedState,
         ServedState' = ServedState \cup {cell}, ServedCalls' = ServedCalls,
         GivenAnswer' = GivenAnswer
  PROVE  CS!Run
  BY DEF SameCall, CS!Run, CS!Up

\* The kernel answers.
LEMMA AnswerIs ==
  ASSUME SameCall, wpc # "idle", ServedState # {}, cell \in ServedCalls, GivenAnswer = {},
         GivenAnswer' \in {{ServedState}, {{}}}, ServedState' = ServedState,
         ServedCalls' = ServedCalls
  PROVE  CS!Answer
  BY DEF SameCall, CS!Answer, CS!Up

\* The interpreter goes.
LEMMA LoseIs ==
  ASSUME SameCall, ServedState # {} \/ GivenAnswer # {}, ServedState' = {}, ServedCalls' = {},
         GivenAnswer' \in {GivenAnswer, {}}
  PROVE  CS!Lose
  BY DEF SameCall, CS!Lose, CS!Up

\* The call returns the answer.
LEMMA ReplyIs ==
  ASSUME wpc # "idle", wpc' = "idle", NEW s, GivenAnswer = {s}, GivenAnswer' = {},
         blob' = (IF s = {} THEN blob ELSE s),
         NEW o \in {"executed", "returned", "interrupted"}, out' = [out EXCEPT ![cell] = o],
         cell' = cell, epoch' = epoch, ServedState' = ServedState, ServedCalls' = ServedCalls
  PROVE  CS!Reply
  BY DEF CS!Reply

\* The call returns from a new interpreter.
LEMMA RestartIs ==
  ASSUME wpc # "idle", wpc' = "idle", ServedState = {}, GivenAnswer = {}, GivenAnswer' = {},
         \/ ServedState' = {}
         \/ \E gone \in SUBSET (blob \ {0}) : ServedState' = {0} \cup (blob \ gone),
         ServedCalls' = {}, epoch' = epoch + 1, out' = [out EXCEPT ![cell] = "rerun"],
         cell' = cell, blob' = blob
  PROVE  CS!Restart
  BY DEF CS!Restart, CS!Up

\* The call ends without one.
LEMMA GiveUpIs ==
  ASSUME wpc # "idle", wpc' = "idle", ServedState' = {}, ServedCalls' = {}, GivenAnswer' = {},
         NEW o \in {"rerun", "raised"}, out' = [out EXCEPT ![cell] = o],
         cell' = cell, epoch' = epoch, blob' = blob
  PROVE  CS!GiveUp
  BY DEF CS!GiveUp

-----------------------------------------------------------------------------
(* Calls begin and end. *)

\* A step that neither begins nor ends a call leaves what the caller sees.
LEMMA CallMoves ==
  ASSUME Next, ~ExecuteCell, ~(wpc # "idle" /\ wpc' = "idle")
  PROVE  SameCall
<1>1. wpc' # "idle" => wpc # "idle"
  BY EpochMoves
<1>2. cell' = cell /\ epoch' = epoch
  BY EpochMoves, <1>1
<1>3. out' = out /\ blob' = blob
  BY DEF Finish, Next, WorkerStep, Timeout, CloserStep, KernelStep, BodyStep, session,
     worker, kernel, closer, wires, vars, WorkerAcquire, CheckPipe, WriteFrame,
     TornUnderWorker, ReadReset, Reset, ReadFrame, ReadEof, TimeoutClean, TimeoutPartial,
     GraceExpires,
     SendSigint, Report, KillAndRespawn, Popen, PublishListener, RecheckClosed, Accept,
     AcceptFails, HelloReady, Restored, HandshakeFails, Close, WakeAccept,
     CloserAcquire, AcquireExpires, ForceKill, ReacquireExpires, AskToExit, WaitForExit,
     Teardown, Cleanup, KernelConnect, KernelBoots, KernelHangsUp, KernelCrash,
     IdleInterrupted, KernelShutdown, KernelRehydrate, KernelTakesCell, GuardRefuses,
     ArmSigint, BodyStarts, LoopTorn, BodyEnds, BodyInterrupted, DisarmSigint,
     KernelAnswers, Terminated
<1>4. QED
  BY <1>1, <1>2, <1>3 DEF SameCall

\* A call begins with the kernel as the last one left it.
LEMMA CallBegins ==
  ASSUME SInv, ExecuteCell
  PROVE  CS!Call
<1>1. /\ wpc = "idle" /\ wpc' = "lock" /\ cell < MaxCells /\ cell' = cell + 1
      /\ UNCHANGED <<epoch, out, blob, pipe, kpc, ns, fed, resp>>
  BY DEF ExecuteCell, kernel, wires
<1>2. ServedState' = ServedState /\ ServedCalls' = ServedCalls
  BY <1>1 DEF ServedState, ServedCalls, Serving, Spawning
<1>3. GivenAnswer' = GivenAnswer
  BY <1>1 DEF GivenAnswer, AnswerFrames, Spawning
<1>4. QED
  BY <1>1, <1>2, <1>3, CallIs

\* No answer is left when a call is over.
LEMMA EndsWithoutAnswer ==
  ASSUME IInv', wpc' = "idle"
  PROVE  GivenAnswer' = {}
<1>1. DOMAIN resp' = {}
  BY DEF IInv, ExchangeIsMine, Sent, Spawned
<1>2. QED
  BY <1>1 DEF GivenAnswer, AnswerFrames

\* A report returns the answer and leaves the kernel to the next call.
LEMMA ReportIsReply ==
  ASSUME SInv, IInv', Report
  PROVE  CS!Reply
<1>1. /\ wpc = "reply" /\ wpc' = "idle" /\ GivenAnswer = {reply.snap} /\ GivenAnswer' = {}
      /\ blob' = (IF reply.snap = {} THEN blob ELSE reply.snap)
      /\ UNCHANGED <<cell, epoch, pipe, kpc, ns, fed>>
  BY EndsWithoutAnswer DEF Report, GivenAnswer, kernel
<1>2. ServedState' = ServedState /\ ServedCalls' = ServedCalls
  BY <1>1 DEF ServedState, ServedCalls, Serving, Spawning
<1>3. PICK o \in {"executed", "returned", "interrupted"} : out' = [out EXCEPT ![cell] = o]
  BY DEF Report
<1>4. QED
  BY <1>1, <1>2, <1>3, ReplyIs

\* A respawn that succeeds is the service's restart.
LEMMA RespawnIsRestart ==
  ASSUME SInv, IInv', Restored \/ (HelloReady /\ blob = {})
  PROVE  CS!Restart
<1>0. Fed /\ Rooted /\ Rehydrated /\ OnlyClean /\ IInv
  BY DEF SInv, IInv
<1>1. /\ wpc \in {"hello", "restored"} /\ wpc' = "idle" /\ epoch' = epoch + 1
      /\ out' = [out EXCEPT ![cell] = "rerun"]
      /\ UNCHANGED <<cell, blob, pipe, kpc, ns, fed>>
  BY DEF Restored, HelloReady, Finish, kernel
<1>2. ServedState = {} /\ GivenAnswer = {} /\ GivenAnswer' = {}
  BY <1>1, EndsWithoutAnswer DEF ServedState, Serving, Spawning, GivenAnswer
<1>3. ServedCalls' = {}
  BY <1>0, <1>1 DEF Fed, ServedCalls
<1>4. ServedState' = {} \/ \E gone \in SUBSET (blob \ {0}) : ServedState' = {0} \cup (blob \ gone)
  <2>1. CASE ~Serving'
    BY <2>1 DEF ServedState
  <2>2. CASE Serving' /\ Restored
    <3>1. ServedState' = ns /\ wpc = "restored" /\ resp # <<>>
      BY <1>1, <2>2 DEF ServedState, Restored
    <3>2. dropped \in SUBSET (blob \ {0}) /\ ns = {0} \cup (blob \ dropped)
      BY <1>0, <3>1 DEF Rehydrated, Rooted
    <3>3. QED
      BY <3>1, <3>2
  <2>3. CASE Serving' /\ HelloReady /\ blob = {}
    <3>1. ServedState' = {0}
      BY <1>0, <1>1, <2>3 DEF ServedState, Serving, OnlyClean, HelloReady
    <3>2. {} \in SUBSET (blob \ {0}) /\ {0} = {0} \cup (blob \ {})
      BY <2>3
    <3>3. QED
      BY <3>1, <3>2
  <2>4. QED
    BY <2>1, <2>2, <2>3
<1>5. QED
  BY <1>1, <1>2, <1>3, <1>4, RestartIs

\* Every other end of a call leaves no interpreter.
LEMMA FailureIsGiveUp ==
  ASSUME SInv, IInv', Next, wpc # "idle", wpc' = "idle", ~Report, ~Restored,
         ~(HelloReady /\ blob = {})
  PROVE  CS!GiveUp
<1>1. NoSocket
  BY DEF SInv, IInv
<1>2. /\ out' = [out EXCEPT ![cell] = "rerun"] \/ out' = [out EXCEPT ![cell] = "raised"]
      /\ UNCHANGED <<cell, epoch, blob>>
      /\ ~pipe' \/ kpc' = "dead"
  BY <1>1 DEF NoSocket, Spawned, Finish, KillSilently, Next, WorkerStep, Timeout,
     CloserStep, KernelStep, BodyStep, session, worker, kernel, closer, wires, vars,
     ExecuteCell, WorkerAcquire, CheckPipe, WriteFrame, TornUnderWorker, ReadReset,
     Reset, ReadFrame,
     ReadEof, TimeoutClean, TimeoutPartial, GraceExpires, SendSigint, Report,
     KillAndRespawn, Popen, PublishListener, RecheckClosed, Accept, AcceptFails,
     HelloReady, Restored, HandshakeFails, Close, WakeAccept, CloserAcquire,
     AcquireExpires, ForceKill, ReacquireExpires, AskToExit, WaitForExit, Teardown,
     Cleanup, KernelConnect, KernelBoots, KernelHangsUp, KernelCrash, IdleInterrupted,
     KernelShutdown, KernelRehydrate, KernelTakesCell, GuardRefuses, ArmSigint,
     BodyStarts, LoopTorn, BodyEnds, BodyInterrupted, DisarmSigint, KernelAnswers,
     Terminated
<1>3. ServedState' = {} /\ ServedCalls' = {} /\ GivenAnswer' = {}
  BY <1>2, EndsWithoutAnswer DEF ServedState, ServedCalls, Serving
<1>4. QED
  BY <1>2, <1>3, GiveUpIs

-----------------------------------------------------------------------------
(* Steps inside a call, and of the kernel while no call is under way. *)

\* Where the worker is when it has an answer to report, or respawns.
LEMMA AnswerPlace ==
  ASSUME Next, ~ExecuteCell, ~(wpc # "idle" /\ wpc' = "idle")
  PROVE  /\ wpc' = "reply" => (wpc = "reply" /\ reply' = reply) \/ ReadFrame
         /\ wpc = "reply" => wpc' = "reply"
         /\ Spawning => Spawning'
  BY DEF Spawning, Finish, Next, WorkerStep, Timeout, CloserStep, KernelStep, BodyStep,
     session, worker, kernel, closer, wires, vars, WorkerAcquire, CheckPipe, WriteFrame,
     TornUnderWorker, ReadReset, Reset, ReadFrame, ReadEof, TimeoutClean, TimeoutPartial,
     GraceExpires,
     SendSigint, Report, KillAndRespawn, Popen, PublishListener, RecheckClosed, Accept,
     AcceptFails, HelloReady, Restored, HandshakeFails, Close, WakeAccept,
     CloserAcquire, AcquireExpires, ForceKill, ReacquireExpires, AskToExit, WaitForExit,
     Teardown, Cleanup, KernelConnect, KernelBoots, KernelHangsUp, KernelCrash,
     IdleInterrupted, KernelShutdown, KernelRehydrate, KernelTakesCell, GuardRefuses,
     ArmSigint, BodyStarts, LoopTorn, BodyEnds, BodyInterrupted, DisarmSigint,
     KernelAnswers, Terminated

\* An interpreter that serves after such a step served before it.
LEMMA ServedBefore ==
  ASSUME IInv, Next, ~ExecuteCell, ~(wpc # "idle" /\ wpc' = "idle"), Serving'
  PROVE  /\ Serving
         /\ ns' = ns \/ BodyStarts
         /\ fed' = fed \/ KernelTakesCell
<1>1. ~Spawning
  BY AnswerPlace DEF Serving
<1>2. Connected' /\ ~HelloReady /\ ~Restored
  BY <1>1 DEF Serving, Connected, Spawning, Respawning, Spawned, HelloReady, Restored
<1>3. Connected /\ (ns' = ns \/ BodyStarts) /\ (fed' = fed \/ KernelTakesCell)
  BY <1>2, ConnectedBefore
<1>4. QED
  BY <1>1, <1>3 DEF Connected, Serving

\* While it serves, an answer leaves the socket only to be reported.
LEMMA AnswersStay ==
  ASSUME IInv, Next, ~(wpc # "idle" /\ wpc' = "idle"), Serving', ~ReadFrame,
         NEW i \in DOMAIN resp
  PROVE  i \in DOMAIN resp' /\ resp'[i] = resp[i]
<1>0. TypeOK /\ OneExchange /\ DOMAIN resp # {}
  BY DEF IInv
<1>1. resp # <<>>
  BY HeadWaits
<1>2. ~Running /\ ~Booting /\ NoWork
  BY <1>1, Idle
<1>3. KernelRehydrate => req # <<>> /\ ~NoWork
  BY <1>0, ReqTail DEF KernelRehydrate, NoWork
<1>4. resp' = resp
  BY <1>1, <1>2, <1>3 DEF Serving, Spawning, Running, Booting, Finish, KillSilently,
     Next, WorkerStep, Timeout, CloserStep, KernelStep, BodyStep, session, worker,
     kernel, closer, wires, vars, ExecuteCell, WorkerAcquire, CheckPipe, WriteFrame,
     TornUnderWorker, ReadReset, Reset, ReadFrame, ReadEof, TimeoutClean, TimeoutPartial,
     GraceExpires,
     SendSigint, Report, KillAndRespawn, Popen, PublishListener, RecheckClosed, Accept,
     AcceptFails, HelloReady, Restored, HandshakeFails, Close, WakeAccept,
     CloserAcquire, AcquireExpires, ForceKill, ReacquireExpires, AskToExit, WaitForExit,
     Teardown, Cleanup, KernelConnect, KernelBoots, KernelHangsUp, KernelCrash,
     IdleInterrupted, KernelShutdown, KernelRehydrate, KernelTakesCell, GuardRefuses,
     ArmSigint, BodyStarts, LoopTorn, BodyEnds, BodyInterrupted, DisarmSigint,
     KernelAnswers, Terminated
<1>5. QED
  BY <1>4

\* The answer the service shows comes from the kernel, stays while the kernel
\* serves, and may be lost with it.
LEMMA AnswerMoves ==
  ASSUME SInv, IInv', Next, ~ExecuteCell, ~(wpc # "idle" /\ wpc' = "idle")
  PROVE  \/ GivenAnswer' = GivenAnswer
         \/ GivenAnswer' = {} /\ ~Serving'
         \/ /\ GuardRefuses \/ KernelAnswers
            /\ Serving /\ Running /\ GivenAnswer = {} /\ GivenAnswer' \in {{ns}, {{}}}
<1>0. IInv /\ ExchangeIsMine /\ OneExchange /\ TypeOK
  BY DEF SInv, IInv
<1>1. CASE wpc = "reply"
  BY <1>1, AnswerPlace DEF GivenAnswer, ReadFrame
<1>2. CASE wpc # "reply" /\ wpc' = "reply"
  <2>1. ReadFrame /\ reply' = resp[1] /\ DOMAIN resp = {1} /\ wpc \in {"read", "grace"}
        /\ resp[1].type \notin {"unreadable", "boot_error"} /\ resp[1] \in Answers
    BY <1>0, <1>2, AnswerPlace, RespOne DEF ReadFrame
  <2>2. resp[1].type \in {"result", "return"}
    BY <1>0, <2>1 DEF ExchangeIsMine, Answers, Sent
  <2>3. AnswerFrames = {1}
    BY <2>1, <2>2 DEF AnswerFrames
  <2>4. GivenAnswer = {resp[1].snap}
    BY <1>2, <2>1, <2>3 DEF GivenAnswer, Spawning
  <2>5. QED
    BY <1>2, <2>1, <2>4 DEF GivenAnswer
<1>3. CASE wpc # "reply" /\ wpc' # "reply" /\ Spawning'
  BY <1>3 DEF GivenAnswer, Serving
<1>4. CASE wpc # "reply" /\ wpc' # "reply" /\ ~Spawning'
  <2>0. /\ ~Spawning
        /\ GivenAnswer = {resp[i].snap : i \in AnswerFrames}
        /\ GivenAnswer' = {resp'[i].snap : i \in AnswerFrames'}
    BY <1>4, AnswerPlace DEF GivenAnswer
  <2>1. CASE \E i \in AnswerFrames' : ~(i \in DOMAIN resp /\ resp'[i] = resp[i])
    <3>1. PICK i \in AnswerFrames' : ~(i \in DOMAIN resp /\ resp'[i] = resp[i])
      BY <2>1
    <3>2. i \in DOMAIN resp' /\ resp'[i].type \in {"result", "return"} /\ DOMAIN resp' \subseteq {1}
      <4>1. DOMAIN resp' \subseteq {1}
        BY EmptyFacts DEF IInv, OneExchange, TypeOK
      <4>2. QED
        BY <3>1, <4>1 DEF AnswerFrames
    <3>3. Running /\ (GuardRefuses \/ KernelAnswers) /\ resp'[i].snap \in {ns, {}}
      BY <1>0, <3>1, <3>2, AnswersAfter
    <3>4. AnswerFrames' = {i} /\ AnswerFrames = {}
      BY <1>0, <3>2, <3>3, EmptyFacts DEF AnswerFrames, OneExchange, TypeOK
    <3>5. GivenAnswer = {} /\ GivenAnswer' = {resp'[i].snap}
      BY <2>0, <3>4
    <3>6. Serving
      BY <1>0, <2>0, <3>3, RunningIsConnected DEF Connected, Serving
    <3>7. QED
      BY <3>3, <3>5, <3>6
  <2>2. CASE \A i \in AnswerFrames' : i \in DOMAIN resp /\ resp'[i] = resp[i]
    <3>1. AnswerFrames' \subseteq AnswerFrames
      BY <2>2 DEF AnswerFrames
    <3>2. CASE Serving'
      <4>1. ReadFrame => wpc' = "kill"
        BY <1>4 DEF ReadFrame
      <4>2. ~ReadFrame
        BY <1>4, <4>1 DEF Spawning
      <4>3. \A i \in AnswerFrames : i \in AnswerFrames'
        BY <1>0, <3>2, <4>2, AnswersStay DEF AnswerFrames
      <4>4. QED
        BY <2>0, <2>2, <3>1, <4>3
    <3>3. CASE ~Serving'
      <4>1. DOMAIN resp \subseteq {1}
        BY <1>0, HeadWaits
      <4>2. AnswerFrames' = AnswerFrames \/ AnswerFrames' = {}
        BY <3>1, <4>1 DEF AnswerFrames
      <4>3. CASE AnswerFrames' = {}
        BY <2>0, <3>3, <4>3
      <4>4. CASE AnswerFrames' = AnswerFrames
        BY <2>0, <2>2, <4>4
      <4>5. QED
        BY <4>2, <4>3, <4>4
    <3>4. QED
      BY <3>2, <3>3
  <2>3. QED
    BY <2>1, <2>2
<1>5. QED
  BY <1>1, <1>2, <1>3, <1>4, AnswerPlace

\* An interpreter is up exactly while the session is connected to a kernel.
LEMMA UpIsServing ==
  ASSUME SInv
  PROVE  /\ Serving => ServedState = ns /\ ns # {} /\ ServedCalls = fed
         /\ ~Serving => ServedState = {} /\ ServedCalls = {}
  BY DEF SInv, Rooted, ServedState, ServedCalls

\* Whatever leaves no interpreter loses the one there was, or changes nothing.
LEMMA GoneIsLose ==
  ASSUME SInv, IInv', Next, ~ExecuteCell, ~(wpc # "idle" /\ wpc' = "idle"), ~Serving'
  PROVE  CS!Lose \/ UNCHANGED CS!cvars
<1>0. SameCall /\ ServedState' = {} /\ ServedCalls' = {}
  BY CallMoves DEF ServedState, ServedCalls
<1>1. GivenAnswer' \in {GivenAnswer, {}}
  <2>1. (GuardRefuses \/ KernelAnswers) /\ Serving => Serving'
    BY DEF GuardRefuses, KernelAnswers, Serving, Spawning, session
  <2>2. QED
    BY <2>1, AnswerMoves
<1>2. CASE ServedState # {} \/ GivenAnswer # {}
  BY <1>0, <1>1, <1>2, LoseIs
<1>3. CASE ServedState = {} /\ GivenAnswer = {}
  BY <1>0, <1>1, <1>3, UpIsServing, StutterIs
<1>4. QED
  BY <1>2, <1>3

\* While it serves, it hears the call, runs it, answers it, or shows nothing.
LEMMA ServingSteps ==
  ASSUME SInv, IInv', Next, ~ExecuteCell, ~(wpc # "idle" /\ wpc' = "idle"), Serving'
  PROVE  CS!Hear \/ CS!Run \/ CS!Answer \/ UNCHANGED CS!cvars
<1>0. IInv /\ Fed /\ Serving /\ Connected
  BY ServedBefore DEF SInv, Serving, Connected, Spawning, Respawning, Spawned
<1>1. /\ SameCall
      /\ ServedState = ns /\ ns # {} /\ ServedCalls = fed
      /\ ServedState' = ns' /\ ServedCalls' = fed'
  BY <1>0, CallMoves, UpIsServing DEF ServedState, ServedCalls
<1>2. CASE KernelTakesCell
  <2>1. wpc # "idle" /\ cell \notin fed /\ fed' = fed \cup {cell}
    BY <1>0, <1>2, TakesThisCell DEF Fed, Sent
  <2>2. ns' = ns /\ GivenAnswer' = GivenAnswer
    BY <1>2 DEF KernelTakesCell, GivenAnswer, AnswerFrames, Spawning, worker
  <2>3. QED
    BY <1>1, <2>1, <2>2, HearIs
<1>3. CASE BodyStarts
  <2>1. wpc # "idle" /\ kcell = cell /\ cell \in fed /\ cell \notin ns
    BY <1>0, <1>3, RunningIsConnected DEF BodyStarts, Running, Fed, Sent
  <2>2. ns' = ns \cup {cell} /\ fed' = fed /\ GivenAnswer' = GivenAnswer
    BY <1>3, <2>1 DEF BodyStarts, GivenAnswer, AnswerFrames, Spawning, worker, wires
  <2>3. QED
    BY <1>1, <2>1, <2>2, RunIs
<1>4. CASE ~KernelTakesCell /\ ~BodyStarts
  <2>1. ns' = ns /\ fed' = fed
    BY <1>0, <1>4, ServedBefore
  <2>2. CASE GivenAnswer' = GivenAnswer
    BY <1>1, <2>1, <2>2, StutterIs
  <2>3. CASE Running /\ GivenAnswer = {} /\ GivenAnswer' \in {{ns}, {{}}}
    <3>1. wpc # "idle" /\ cell \in fed
      BY <1>0, <2>3, RunningIsConnected DEF Fed, Sent
    <3>2. QED
      BY <1>1, <2>1, <2>3, <3>1, AnswerIs
  <2>4. QED
    BY <2>2, <2>3, AnswerMoves
<1>5. QED
  BY <1>2, <1>3, <1>4

-----------------------------------------------------------------------------
(* The theorem. *)

\* The session begins as the service does.
LEMMA InitIsInit ==
  ASSUME Init
  PROVE  CS!Init
<1>1. DOMAIN <<>> = {}
  BY EmptySeq, EmptyFacts
<1>2. ServedState = {0} /\ ServedCalls = {} /\ GivenAnswer = {}
  BY <1>1 DEF Init, ServedState, ServedCalls, GivenAnswer, AnswerFrames, Serving, Spawning
<1>3. QED
  BY <1>2 DEF Init, CS!Init, CS!Calls, Cells

\* Every step of the session is one of the service, or shows nothing of it.
LEMMA StepIsStep ==
  ASSUME SInv, IInv', Next
  PROVE  CS!Next \/ UNCHANGED CS!cvars
<1>1. CASE ExecuteCell
  BY <1>1, CallBegins DEF CS!Next
<1>2. CASE wpc # "idle" /\ wpc' = "idle"
  BY <1>2, ReportIsReply, RespawnIsRestart, FailureIsGiveUp DEF CS!Next
<1>3. CASE ~ExecuteCell /\ ~(wpc # "idle" /\ wpc' = "idle") /\ ~Serving'
  BY <1>3, GoneIsLose DEF CS!Next
<1>4. CASE ~ExecuteCell /\ ~(wpc # "idle" /\ wpc' = "idle") /\ Serving'
  BY <1>4, ServingSteps DEF CS!Next
<1>5. QED
  BY <1>1, <1>2, <1>3, <1>4

\* The session implements the service its caller was promised: whatever the
\* timeouts, signals, crashes, respawns and close(), and for any number of
\* calls, its caller sees a behaviour of CellService.
THEOREM Implementation == Spec => ImplementsCellService
<1>1. Init => CS!Init
  BY InitIsInit
<1>2. SInv /\ SInv' /\ [Next]_vars => [CS!Next]_CS!cvars
  <2>1. ASSUME SInv, SInv', Next PROVE [CS!Next]_CS!cvars
    BY <2>1, StepIsStep DEF SInv
  <2>2. ASSUME UNCHANGED vars PROVE UNCHANGED CS!cvars
    BY <2>2 DEF vars, CS!cvars, ServedState, ServedCalls, GivenAnswer, AnswerFrames, Serving,
                Spawning
  <2>3. QED
    BY <2>1, <2>2
<1>3. QED
  BY <1>1, <1>2, SessionInvariant, PTL DEF Spec, ImplementsCellService, CS!Spec
=============================================================================

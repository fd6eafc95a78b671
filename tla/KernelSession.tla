--------------------------- MODULE KernelSession ---------------------------
(***************************************************************************)
(* PythonReplSession (repl/session.py) and the kernel it drives            *)
(* (repl/kernel.py): one worker thread inside execute_cell, one thread     *)
(* inside close(), the kernel process and the socket between them.         *)
(*                                                                         *)
(* A cell is the number of its execute_cell call (execution_count).  The   *)
(* state of a kernel is the set of cells whose effects its __main__ holds; *)
(* 0 stands for what PREFIX installs, so a snapshot that was taken always  *)
(* contains 0 and {} is the code's b"" (no snapshot).  `proc` numbers the  *)
(* process self._proc refers to; the kernel variables describe that one,   *)
(* and `strays` collects older processes that were still running when      *)
(* self._proc was overwritten.                                             *)
(***************************************************************************)
EXTENDS Naturals, Sequences, FiniteSets

CONSTANT MaxCells   \* bound: execute_cell calls made by the caller

ASSUME MaxCellsAssumption == MaxCells \in Nat \ {0}

Cells == 1 .. MaxCells
State == SUBSET (0 .. MaxCells)
Kernels == 1 .. (MaxCells + 1)   \* one at construction, at most one per call

VARIABLES
  \* parent: the session object
  lock,      \* holder of _io_lock
  closed,    \* _closed
  listener,  \* the spawn's listening socket, and whether self._listener shows it
  proc,      \* which process self._proc is
  pipe,      \* the session's end of the socket is open (_req_w, _resp_r)
  epoch,     \* kernel_epoch
  blob,      \* cached_vars_blob
  note,      \* last_rehydrate_error is set
  \* parent: the worker thread inside execute_cell
  wpc, cell, pre, reply, grace,
  \* parent: the thread inside close()
  cpc,
  got,       \* close()'s `got`: it holds _io_lock
  \* the kernel process and the socket
  kpc, dialled, armed, pending, kcell, result, ns, fed, req, resp,
  \* history: what the caller has been told and what was lost on the way
  strays, out, asked, saved, lost, dropped, told

session == <<listener, proc, pipe, epoch, blob, note, strays>>
worker  == <<cell, pre, reply, grace, out, asked, saved, lost, told>>
kernel  == <<dialled, armed, pending, kcell, result, ns, fed, dropped>>
closer  == <<cpc, got>>
wires   == <<req, resp>>
vars == <<lock, closed, listener, proc, pipe, epoch, blob, note, wpc, cell,
          pre, reply, grace, cpc, got, kpc, dialled, armed, pending, kcell, result,
          ns, fed, req, resp, strays, out, asked, saved, lost, dropped, told>>

(***************************************************************************)
(* Frames.  `how` and `cell` of an answer are not on the wire: they record *)
(* which request it answers and whether the body ran to its end ("done"),  *)
(* was cut by SIGINT ("cut") or was refused by Guard A ("refused").        *)
(***************************************************************************)
Requests == [type : {"code", "rehydrate", "shutdown"}, cell : 0 .. MaxCells]
Answers  == [type : {"ready", "boot_error", "result", "return", "unreadable"},
             cell : 0 .. MaxCells, how : {"none", "done", "cut", "refused"},
             snap : State]

Frame(type, n, how, snap) == [type |-> type, cell |-> n, how |-> how, snap |-> snap]
NoReply == Frame("ready", 0, "none", {})

WorkerPc == {"idle", "lock", "check", "write", "read", "signal", "grace", "kill",
             "popen", "publish", "recheck", "accept", "hello", "restored", "reply"}
CloserPc == {"open", "wake", "acquire", "force", "reacquire", "shutdown",
             "exiting", "teardown", "cleanup", "closed"}
KernelPc == {"dead", "boot", "prefix", "idle", "setup", "armed", "body",
             "disarm", "finish"}
Outcomes == {"none", "executed", "returned", "interrupted", "rerun", "raised"}

TypeOK ==
  /\ lock \in {"free", "worker", "closer"}
  /\ closed \in BOOLEAN
  /\ listener \in {"none", "private", "exposed", "shut"}
  /\ proc \in Kernels
  /\ pipe \in BOOLEAN
  /\ epoch \in Kernels
  /\ blob \in State
  /\ note \in BOOLEAN
  /\ wpc \in WorkerPc
  /\ cell \in 0 .. MaxCells
  /\ pre \in BOOLEAN
  /\ reply \in Answers
  /\ grace \in BOOLEAN
  /\ cpc \in CloserPc
  /\ got \in BOOLEAN
  /\ kpc \in KernelPc
  /\ dialled \in BOOLEAN
  /\ armed \in BOOLEAN
  /\ pending \in BOOLEAN
  /\ kcell \in 0 .. MaxCells
  /\ result \in {"result", "return", "cut"}
  /\ ns \in State
  /\ fed \in SUBSET Cells
  /\ req \in Seq(Requests)
  /\ resp \in Seq(Answers)
  /\ strays \in SUBSET Kernels
  /\ out \in [Cells -> Outcomes]
  /\ asked \in [Cells -> 0 .. MaxCells + 1]
  /\ saved \in State
  /\ lost \in State
  /\ dropped \in State
  /\ told \in BOOLEAN

\* The constructor returned: the first kernel said "ready".
Init ==
  /\ lock = "free" /\ closed = FALSE /\ listener = "none"
  /\ proc = 1 /\ pipe = TRUE /\ epoch = 1 /\ blob = {} /\ note = FALSE
  /\ wpc = "idle" /\ cell = 0 /\ pre = FALSE /\ reply = NoReply /\ grace = FALSE
  /\ cpc = "open" /\ got = FALSE
  /\ kpc = "idle" /\ dialled = TRUE /\ armed = FALSE /\ pending = FALSE
  /\ kcell = 0 /\ result = "result" /\ ns = {0} /\ fed = {}
  /\ req = <<>> /\ resp = <<>>
  /\ strays = {} /\ out = [n \in Cells |-> "none"]
  /\ asked = [n \in Cells |-> 0]
  /\ saved = {} /\ lost = {} /\ dropped = {} /\ told = FALSE

-----------------------------------------------------------------------------
(* Helpers of the parent. *)

\* The socket between proc and the parent exists on the parent's side.
Linked == pipe \/ (dialled /\ listener # "none")

\* _kill_silently: kill and reap the process, close the pipes.
KillSilently ==
  /\ kpc' = "dead"
  /\ pipe' = FALSE
  /\ req' = <<>>
  /\ resp' = <<>>

\* The `finally` of _spawn_kernel: the listener goes, with its backlog.
DropListener == listener' = "none"

\* execute_cell leaves the `with self._io_lock` block and the call ends.
Finish(outcome) ==
  /\ wpc' = "idle"
  /\ lock' = "free"
  /\ out' = [out EXCEPT ![cell] = outcome]

-----------------------------------------------------------------------------
(* The worker thread: execute_cell. *)

\* Mutated: the session's pending note is cleared, and this call has none.
ExecuteCell_DropsNote ==
  /\ wpc = "idle" /\ cell < MaxCells
  /\ cell' = cell + 1
  /\ asked' = [asked EXCEPT ![cell + 1] = epoch]
  /\ pre' = FALSE
  /\ note' = FALSE
  /\ grace' = FALSE
  /\ wpc' = "lock"
  /\ UNCHANGED <<lock, closed, listener, proc, pipe, epoch, blob, strays, reply,
                 out, saved, lost, told, closer, kpc, kernel, wires>>

\* The caller reads kernel_epoch and calls execute_cell; the pending
\* diagnostics move from the session into this call.
ExecuteCell ==
  /\ wpc = "idle" /\ cell < MaxCells
  /\ cell' = cell + 1
  /\ asked' = [asked EXCEPT ![cell + 1] = epoch]
  /\ pre' = note
  /\ note' = FALSE
  /\ grace' = FALSE
  /\ wpc' = "lock"
  /\ UNCHANGED <<lock, closed, listener, proc, pipe, epoch, blob, strays, reply,
                 out, saved, lost, told, closer, kpc, kernel, wires>>

WorkerAcquire ==
  /\ wpc = "lock" /\ lock = "free"
  /\ lock' = "worker"
  /\ wpc' = "check"
  /\ UNCHANGED <<closed, session, worker, closer, kpc, kernel, wires>>

\* _write_frame: the test for a closed socket, then pickling, then the write.
CheckPipe ==
  /\ wpc = "check"
  /\ wpc' = IF pipe THEN "write" ELSE "kill"
  /\ UNCHANGED <<lock, closed, session, worker, closer, kpc, kernel, wires>>

WriteFrame ==
  /\ wpc = "write" /\ pipe
  /\ IF kpc = "dead"
       THEN wpc' = "kill" /\ req' = req                   \* BrokenPipeError
       ELSE /\ req' = Append(req, [type |-> "code", cell |-> cell])
            /\ wpc' = "read"
  /\ UNCHANGED <<lock, closed, session, worker, closer, kpc, kernel, resp>>

\* close() tore the session down without the lock: the attribute is None or
\* the file object closed, and what that raises is in no except clause.
TornUnderWorker ==
  /\ wpc \in {"write", "read", "grace"} /\ ~pipe
  /\ Finish("raised")
  /\ UNCHANGED <<closed, session, cell, pre, reply, grace, asked, saved, lost,
                 told, closer, kpc, kernel, wires>>

\* Mutated: an answer that cannot be read is reported without a respawn.
ReadFrame_KeepsKernel ==
  /\ wpc \in {"read", "grace"} /\ pipe /\ resp # <<>>
  /\ resp' = Tail(resp)
  /\ IF Head(resp).type \in {"unreadable", "boot_error"}
       THEN Finish("rerun") /\ UNCHANGED <<reply, grace>>
       ELSE /\ reply' = Head(resp)
            /\ grace' = (wpc = "grace")
            /\ wpc' = "reply"
            /\ lock' = "free"
            /\ UNCHANGED out
  /\ UNCHANGED <<closed, session, cell, pre, asked, saved, lost, told,
                 closer, kpc, kernel, req>>

\* One whole frame, at the first read or at the grace read.
ReadFrame ==
  /\ wpc \in {"read", "grace"} /\ pipe /\ resp # <<>>
  /\ resp' = Tail(resp)
  /\ IF Head(resp).type \in {"unreadable", "boot_error"}
       THEN wpc' = "kill" /\ UNCHANGED <<lock, reply, grace>>
       ELSE /\ reply' = Head(resp)
            /\ grace' = (wpc = "grace")
            /\ wpc' = "reply"
            /\ lock' = "free"
  /\ UNCHANGED <<closed, session, cell, pre, out, asked, saved, lost, told,
                 closer, kpc, kernel, req>>

\* The kernel died with a request in its buffer: the end of what it sent is no EOF.
Reset == pipe /\ kpc = "dead" /\ resp = <<>> /\ req # <<>>

\* ConnectionResetError, once: it is in no except clause, so the dead kernel stays.
ReadReset ==
  /\ wpc \in {"read", "grace", "hello", "restored"} /\ Reset
  /\ req' = <<>>
  /\ Finish("raised")
  /\ UNCHANGED <<closed, session, cell, pre, reply, grace, asked, saved, lost, told,
                 closer, kpc, kernel, resp>>

\* The kernel died, or close() tore the session down before the read began.
ReadEof ==
  /\ wpc \in {"read", "grace"}
  /\ pipe => kpc = "dead" /\ resp = <<>> /\ ~Reset
  /\ wpc' = "kill"
  /\ UNCHANGED <<lock, closed, session, worker, closer, kpc, kernel, wires>>

\* Timeout with no byte of the answer read: interrupt and read once more.
TimeoutClean ==
  /\ wpc = "read" /\ pipe /\ resp = <<>>
  /\ wpc' = "signal"
  /\ UNCHANGED <<lock, closed, session, worker, closer, kpc, kernel, wires>>

\* Timeout inside a frame: the stream cannot be read on.
TimeoutPartial ==
  /\ wpc = "read" /\ pipe /\ resp # <<>>
  /\ wpc' = "kill"
  /\ UNCHANGED <<lock, closed, session, worker, closer, kpc, kernel, wires>>

\* Mutated: the cell that ignored SIGINT is reported and its kernel kept.
GraceExpires_KeepsKernel ==
  /\ wpc = "grace" /\ pipe
  /\ Finish("interrupted")
  /\ UNCHANGED <<closed, session, cell, pre, reply, grace, asked, saved, lost,
                 told, closer, kpc, kernel, wires>>

\* Mutated: the read after SIGINT has no timeout of its own.
GraceExpires_Never == FALSE

GraceExpires ==
  /\ wpc = "grace" /\ pipe
  /\ wpc' = "kill"
  /\ UNCHANGED <<lock, closed, session, worker, closer, kpc, kernel, wires>>

\* send_signal(SIGINT): dropped unless the kernel has armed it.
SendSigint ==
  /\ wpc = "signal"
  /\ pending' = (kpc # "dead" /\ armed)
  /\ wpc' = "grace"
  /\ UNCHANGED <<lock, closed, session, worker, closer, kpc, dialled, armed, kcell,
                 result, ns, fed, dropped, wires>>

\* Mutated: an answer without a snapshot clears the cached one.
Report_CachesEmpty ==
  /\ wpc = "reply"
  /\ blob' = reply.snap
  /\ saved' = saved \cup reply.snap
  /\ told' = (told \/ pre)
  /\ \E outcome \in IF grace THEN {"interrupted"}
                    ELSE IF reply.type = "return" THEN {"returned", "executed"}
                    ELSE {"executed"} :
       out' = [out EXCEPT ![cell] = outcome]
  /\ wpc' = "idle"
  /\ UNCHANGED <<lock, closed, listener, proc, pipe, epoch, note, strays, cell,
                 pre, reply, grace, asked, lost, closer, kpc, kernel, wires>>

\* After the lock is released: cache the snapshot, decode, report.
Report ==
  /\ wpc = "reply"
  /\ blob' = IF reply.snap = {} THEN blob ELSE reply.snap
  /\ saved' = saved \cup reply.snap
  /\ told' = (told \/ pre)
  /\ \E outcome \in IF grace THEN {"interrupted"}
                    ELSE IF reply.type = "return" THEN {"returned", "executed"}
                    ELSE {"executed"} :
       out' = [out EXCEPT ![cell] = outcome]
  /\ wpc' = "idle"
  /\ UNCHANGED <<lock, closed, listener, proc, pipe, epoch, note, strays, cell,
                 pre, reply, grace, asked, lost, closer, kpc, kernel, wires>>

-----------------------------------------------------------------------------
(* The worker thread: _kill_and_respawn and _spawn_kernel. *)

KillAndRespawn ==
  /\ wpc = "kill"
  /\ KillSilently
  /\ IF closed THEN Finish("rerun")
               ELSE wpc' = "popen" /\ UNCHANGED <<lock, out>>
  /\ UNCHANGED <<closed, listener, proc, epoch, blob, note, strays, cell, pre,
                 reply, grace, asked, saved, lost, told, closer, kernel>>

Popen ==
  /\ wpc = "popen"
  /\ listener' = "private"
  /\ proc' = proc + 1
  /\ strays' = IF kpc = "dead" THEN strays ELSE strays \cup {proc}
  /\ kpc' = "boot" /\ dialled' = FALSE /\ armed' = FALSE /\ pending' = FALSE
  /\ kcell' = 0 /\ result' = "result" /\ ns' = {0} /\ fed' = {}
  /\ dropped' = {} /\ told' = FALSE
  /\ wpc' = "publish"
  /\ UNCHANGED <<lock, closed, pipe, epoch, blob, note, cell, pre, reply, grace,
                 out, asked, saved, lost, closer, wires>>

PublishListener ==
  /\ wpc = "publish"
  /\ listener' = "exposed"
  /\ wpc' = "recheck"
  /\ UNCHANGED <<lock, closed, proc, pipe, epoch, blob, note, strays, worker, closer,
                 kpc, kernel, wires>>

\* Mutated: close() is not looked for once the listener is published.
RecheckClosed_Skipped ==
  /\ wpc = "recheck"
  /\ wpc' = "accept"
  /\ UNCHANGED <<lock, closed, session, worker, closer, kpc, kernel, wires>>

\* The aborted spawn leaves its process to close().
RecheckClosed ==
  /\ wpc = "recheck"
  /\ IF closed
       THEN /\ DropListener /\ resp' = <<>>
            /\ Finish("raised")
       ELSE wpc' = "accept" /\ UNCHANGED <<lock, out, listener, resp>>
  /\ UNCHANGED <<closed, proc, pipe, epoch, blob, note, strays, cell, pre, reply,
                 grace, asked, saved, lost, told, closer, kpc, kernel, req>>

Accept ==
  /\ wpc = "accept" /\ dialled
  /\ DropListener
  /\ pipe' = TRUE
  /\ wpc' = "hello"
  /\ UNCHANGED <<lock, closed, proc, epoch, blob, note, strays, worker, closer, kpc,
                 kernel, wires>>

\* accept() raised: close() shut the listener, or 30 s passed.
AcceptFails ==
  /\ wpc = "accept"
  /\ DropListener
  /\ Finish("raised")
  /\ IF closed THEN resp' = <<>> /\ UNCHANGED <<kpc, pipe, req>>
               ELSE KillSilently
  /\ UNCHANGED <<closed, proc, epoch, blob, note, strays, cell, pre, reply, grace,
                 asked, saved, lost, told, closer, kernel>>

\* "ready" read; with a snapshot, the rehydrate request goes out at once.
HelloReady ==
  /\ wpc = "hello" /\ pipe /\ resp # <<>> /\ Head(resp).type = "ready"
  /\ IF blob = {}
       THEN /\ epoch' = epoch + 1 /\ Finish("rerun")
            /\ resp' = Tail(resp) /\ UNCHANGED req
       ELSE IF kpc = "dead"
       THEN /\ Finish("raised")              \* BrokenPipeError from the write
            /\ resp' = Tail(resp) /\ UNCHANGED <<epoch, req>>
       ELSE /\ wpc' = "restored"
            /\ req' = Append(req, [type |-> "rehydrate", cell |-> 0])
            /\ resp' = Tail(resp) /\ UNCHANGED <<epoch, lock, out>>
  /\ UNCHANGED <<closed, listener, proc, pipe, blob, note, strays, cell, pre,
                 reply, grace, asked, saved, lost, told, closer, kpc, kernel>>

\* Mutated: the epoch counts fresh kernels only, not restored ones.
Restored_SameEpoch ==
  /\ wpc = "restored" /\ pipe /\ resp # <<>> /\ Head(resp).type = "ready"
  /\ resp' = Tail(resp)
  /\ note' = (dropped # {})
  /\ lost' = lost \cup dropped
  /\ epoch' = epoch
  /\ Finish("rerun")
  /\ UNCHANGED <<closed, listener, proc, pipe, blob, strays, cell, pre, reply,
                 grace, asked, saved, told, closer, kpc, kernel, req>>

\* Mutated: the rehydrate counts as a spawn of its own.
Restored_CountsTwice ==
  /\ wpc = "restored" /\ pipe /\ resp # <<>> /\ Head(resp).type = "ready"
  /\ resp' = Tail(resp)
  /\ note' = (dropped # {})
  /\ lost' = lost \cup dropped
  /\ epoch' = epoch + 2
  /\ Finish("rerun")
  /\ UNCHANGED <<closed, listener, proc, pipe, blob, strays, cell, pre, reply,
                 grace, asked, saved, told, closer, kpc, kernel, req>>

Restored ==
  /\ wpc = "restored" /\ pipe /\ resp # <<>> /\ Head(resp).type = "ready"
  /\ resp' = Tail(resp)
  /\ note' = (dropped # {})
  /\ lost' = lost \cup dropped
  /\ epoch' = epoch + 1
  /\ Finish("rerun")
  /\ UNCHANGED <<closed, listener, proc, pipe, blob, strays, cell, pre, reply,
                 grace, asked, saved, told, closer, kpc, kernel, req>>

\* _handshake_read: EOF, timeout, boot_error, any other frame.
HandshakeFails ==
  /\ wpc \in {"hello", "restored"} /\ ~Reset
  /\ ~(resp # <<>> /\ Head(resp).type = "ready")
  /\ KillSilently
  /\ Finish("raised")
  /\ UNCHANGED <<closed, listener, proc, epoch, blob, note, strays, cell, pre,
                 reply, grace, asked, saved, lost, told, closer, kernel>>

-----------------------------------------------------------------------------
(* The closing thread: close(). *)

Close ==
  /\ cpc = "open"
  /\ closed' = TRUE
  /\ cpc' = "wake"
  /\ UNCHANGED <<lock, session, got, wpc, worker, kpc, kernel, wires>>

\* Shut the listener if the attribute shows one.
WakeAccept ==
  /\ cpc = "wake"
  /\ listener' = IF listener = "exposed" THEN "shut" ELSE listener
  /\ cpc' = "acquire"
  /\ UNCHANGED <<lock, closed, proc, pipe, epoch, blob, note, strays, got, wpc, worker,
                 kpc, kernel, wires>>

CloserAcquire ==
  /\ cpc \in {"acquire", "reacquire"} /\ lock = "free"
  /\ lock' = "closer"
  /\ got' = TRUE
  /\ cpc' = "shutdown"
  /\ UNCHANGED <<closed, session, wpc, worker, kpc, kernel, wires>>

\* Mutated: close() waits for the lock without a timeout.
AcquireExpires_Never == FALSE

AcquireExpires ==
  /\ cpc = "acquire" /\ lock = "worker"
  /\ cpc' = "force"
  /\ UNCHANGED <<lock, closed, session, got, wpc, worker, kpc, kernel, wires>>

\* killpg: no Python state changes, the worker's read sees EOF.
ForceKill ==
  /\ cpc = "force"
  /\ kpc' = "dead"
  /\ cpc' = "reacquire"
  /\ UNCHANGED <<lock, closed, session, got, wpc, worker, kernel, wires>>

\* The second wait is bounded too; close() then goes on without the lock.
ReacquireExpires ==
  /\ cpc = "reacquire" /\ lock = "worker"
  /\ cpc' = "shutdown"
  /\ UNCHANGED <<lock, closed, session, got, wpc, worker, kpc, kernel, wires>>

AskToExit ==
  /\ cpc = "shutdown"
  /\ IF kpc # "dead" /\ pipe
       THEN /\ req' = Append(req, [type |-> "shutdown", cell |-> 0])
            /\ cpc' = "exiting"
       ELSE cpc' = "teardown" /\ UNCHANGED req
  /\ UNCHANGED <<lock, closed, session, got, wpc, worker, kpc, kernel, resp>>

\* Mutated: close() waits for the process without a timeout.
WaitForExit_Unbounded ==
  /\ cpc = "exiting" /\ kpc = "dead"
  /\ cpc' = "teardown"
  /\ UNCHANGED <<lock, closed, session, got, wpc, worker, kpc, kernel, wires>>

\* _proc.wait(2 s): the process exited, or it did not in time.
WaitForExit ==
  /\ cpc = "exiting"
  /\ cpc' = "teardown"
  /\ UNCHANGED <<lock, closed, session, got, wpc, worker, kpc, kernel, wires>>

\* Mutated: the pipes are closed and the process left to notice.
Teardown_ClosesOnly ==
  /\ cpc = "teardown"
  /\ pipe' = FALSE /\ req' = <<>> /\ resp' = <<>>
  /\ lock' = IF got THEN "free" ELSE lock
  /\ cpc' = "cleanup"
  /\ UNCHANGED <<closed, listener, proc, epoch, blob, note, strays, got, wpc, worker,
                 kpc, kernel>>

Teardown ==
  /\ cpc = "teardown"
  /\ KillSilently
  /\ lock' = IF got THEN "free" ELSE lock
  /\ cpc' = "cleanup"
  /\ UNCHANGED <<closed, listener, proc, epoch, blob, note, strays, got, wpc, worker,
                 kernel>>

\* The finalizer: the control dir goes, and with it the socket path.
Cleanup ==
  /\ cpc = "cleanup"
  /\ cpc' = "closed"
  /\ UNCHANGED <<lock, closed, session, got, wpc, worker, kpc, kernel, wires>>

-----------------------------------------------------------------------------
(* The kernel process. *)

\* KERNEL_BOOTSTRAP connects to the listener's path.
KernelConnect ==
  /\ kpc = "boot" /\ listener \in {"private", "exposed"}
  /\ dialled' = TRUE
  /\ kpc' = "prefix"
  /\ UNCHANGED <<lock, closed, session, wpc, worker, closer, armed, pending, kcell,
                 result, ns, fed, dropped, wires>>

\* PREFIX ran: "ready"; or it raised and the wrapper reports boot_error.
KernelBoots ==
  /\ kpc = "prefix" /\ Linked
  /\ \/ kpc' = "idle" /\ resp' = Append(resp, Frame("ready", 0, "none", {}))
     \/ kpc' = "dead" /\ resp' = Append(resp, Frame("boot_error", 0, "none", {}))
  /\ UNCHANGED <<lock, closed, session, wpc, worker, closer, kernel, req>>

\* Mutated: the bootstrap tries again for ever when it cannot connect.
KernelHangsUp_Retries ==
  /\ kpc \in {"prefix", "idle", "finish"} /\ ~Linked
  /\ kpc' = "dead"
  /\ UNCHANGED <<lock, closed, session, wpc, worker, closer, kernel, wires>>

\* Connection refused, EOF on the read, or EPIPE on the write.
KernelHangsUp ==
  /\ \/ kpc = "boot" /\ listener \notin {"private", "exposed"}
     \/ kpc \in {"prefix", "idle", "finish"} /\ ~Linked
  /\ kpc' = "dead"
  /\ UNCHANGED <<lock, closed, session, wpc, worker, closer, kernel, wires>>

\* os._exit, a segfault, the OOM killer: at any point of the kernel's life.
KernelCrash ==
  /\ kpc # "dead"
  /\ kpc' = "dead"
  /\ UNCHANGED <<lock, closed, session, wpc, worker, closer, kernel, wires>>

\* SIGINT left armed by a torn disarm: the idle read swallows the interrupt,
\* and may have lost the request it was reading.
IdleInterrupted ==
  /\ kpc = "idle" /\ pending
  /\ pending' = FALSE
  /\ req' \in {req, <<>>}
  /\ UNCHANGED <<lock, closed, session, wpc, worker, closer, kpc, dialled, armed, kcell,
                 result, ns, fed, dropped, resp>>

KernelShutdown ==
  /\ kpc = "idle" /\ req # <<>> /\ Head(req).type = "shutdown"
  /\ req' = Tail(req)
  /\ kpc' = "dead"
  /\ UNCHANGED <<lock, closed, session, wpc, worker, closer, kernel, resp>>

\* Rehydrate: what cannot be loaded is dropped and named in the answer.
KernelRehydrate ==
  /\ kpc = "idle" /\ req # <<>> /\ Head(req).type = "rehydrate" /\ Linked
  /\ req' = Tail(req)
  /\ \E gone \in SUBSET (blob \ {0}) :
       /\ ns' = blob \ gone
       /\ dropped' = gone
  /\ resp' = Append(resp, Frame("ready", 0, "none", {}))
  /\ UNCHANGED <<lock, closed, session, wpc, worker, closer, kpc, dialled, armed,
                 pending, kcell, result, fed>>

\* A code frame: the delta extends plm_messages before anything else.
KernelTakesCell ==
  /\ kpc = "idle" /\ req # <<>> /\ Head(req).type = "code"
  /\ req' = Tail(req)
  /\ kcell' = Head(req).cell
  /\ fed' = fed \cup {Head(req).cell}
  /\ kpc' = "setup"
  /\ UNCHANGED <<lock, closed, session, wpc, worker, closer, dialled, armed, pending,
                 result, ns, dropped, resp>>

\* _repl_collect_vars returns the state, or b"" when it failed as a whole.
Snapshots == {ns, {}}

\* Guard A: the cell is answered without running.
GuardRefuses ==
  /\ kpc = "setup" /\ ~(armed /\ pending) /\ Linked
  /\ \E snap \in Snapshots :
       resp' = Append(resp, Frame("result", kcell, "refused", snap))
  /\ kpc' = "idle"
  /\ UNCHANGED <<lock, closed, session, wpc, worker, closer, kernel, req>>

ArmSigint ==
  /\ kpc = "setup" /\ ~(armed /\ pending)
  /\ armed' = TRUE
  /\ kpc' = "armed"
  /\ UNCHANGED <<lock, closed, session, wpc, worker, closer, dialled, pending, kcell,
                 result, ns, fed, dropped, wires>>

\* exec starts: from here on the cell may have had effects.
BodyStarts ==
  /\ kpc = "armed" /\ ~pending
  /\ ns' = ns \cup {kcell}
  /\ kpc' = "body"
  /\ UNCHANGED <<lock, closed, session, wpc, worker, closer, dialled, armed, pending,
                 kcell, result, fed, dropped, wires>>

\* KeyboardInterrupt outside the try: the loop dies with a boot_error frame.
LoopTorn ==
  /\ kpc \in {"setup", "armed", "finish"} /\ armed /\ pending /\ Linked
  /\ resp' = Append(resp, Frame("boot_error", kcell, "none", {}))
  /\ kpc' = "dead"
  /\ UNCHANGED <<lock, closed, session, wpc, worker, closer, kernel, req>>

\* The body falls off its end, raises, or calls RETURN.
BodyEnds ==
  /\ kpc = "body"
  /\ result' \in {"result", "return"}
  /\ kpc' = "disarm"
  /\ UNCHANGED <<lock, closed, session, wpc, worker, closer, dialled, armed, pending,
                 kcell, ns, fed, dropped, wires>>

\* KeyboardInterrupt in the body: it unwinds, or the cell's code catches it.
BodyInterrupted ==
  /\ kpc = "body" /\ pending
  /\ pending' = FALSE
  /\ \/ result' = "cut" /\ kpc' = "disarm"
     \/ UNCHANGED <<result, kpc>>
  /\ UNCHANGED <<lock, closed, session, wpc, worker, closer, dialled, armed, kcell,
                 ns, fed, dropped, wires>>

\* The inner finally.  signal.signal raises a pending KeyboardInterrupt before
\* it changes the handler; the outer except takes it for the cell's terminal.
DisarmSigint ==
  /\ kpc = "disarm"
  /\ \/ armed' = FALSE /\ UNCHANGED result
     \/ pending /\ result' = "cut" /\ UNCHANGED armed
  /\ pending' = FALSE
  /\ kpc' = "finish"
  /\ UNCHANGED <<lock, closed, session, wpc, worker, closer, dialled, kcell, ns, fed,
                 dropped, wires>>

\* Guards C and C+, then the answer with its snapshot; one that is longer than
\* the 2 GiB cap cannot be read by the parent.
KernelAnswers ==
  /\ kpc = "finish" /\ ~(armed /\ pending) /\ Linked
  /\ \E snap \in Snapshots,
        type \in {IF result = "return" THEN "return" ELSE "result", "unreadable"} :
       resp' = Append(resp, Frame(type, kcell,
                                  IF result = "cut" THEN "cut" ELSE "done", snap))
  /\ kpc' = "idle"
  /\ UNCHANGED <<lock, closed, session, wpc, worker, closer, kernel, req>>

-----------------------------------------------------------------------------
\* cell_timeout runs out; with cell_timeout=None it never does.
Timeout == TimeoutClean \/ TimeoutPartial

WorkerStep ==
  \/ WorkerAcquire \/ CheckPipe \/ WriteFrame \/ TornUnderWorker \/ ReadFrame
  \/ ReadReset \/ ReadEof \/ GraceExpires \/ SendSigint \/ Report
  \/ KillAndRespawn \/ Popen \/ PublishListener \/ RecheckClosed \/ Accept
  \/ AcceptFails \/ HelloReady \/ Restored \/ HandshakeFails

CloserStep ==
  \/ WakeAccept \/ CloserAcquire \/ AcquireExpires \/ ForceKill
  \/ ReacquireExpires \/ AskToExit \/ WaitForExit \/ Teardown \/ Cleanup

\* Kernel steps that need nothing of the cell's own code.
KernelStep ==
  \/ KernelConnect \/ KernelBoots \/ KernelHangsUp \/ IdleInterrupted \/ KernelShutdown
  \/ KernelRehydrate \/ KernelTakesCell \/ GuardRefuses \/ ArmSigint \/ BodyStarts
  \/ LoopTorn \/ DisarmSigint \/ KernelAnswers

BodyStep == BodyEnds \/ BodyInterrupted

\* The caller is done, the session closed, nothing runs.
Terminated ==
  /\ wpc = "idle" /\ cell = MaxCells /\ cpc = "closed" /\ kpc = "dead"
  /\ UNCHANGED vars

Next ==
  \/ ExecuteCell \/ WorkerStep \/ Timeout
  \/ Close \/ CloserStep
  \/ KernelStep \/ BodyStep \/ KernelCrash
  \/ Terminated

Spec == Init /\ [][Next]_vars

(***************************************************************************)
(* The threads of the parent are scheduled, and the kernel's own code (not *)
(* the cell's) runs on.  Nothing makes a cell's body end, a process crash, *)
(* the caller call or, as it may be None, cell_timeout run out.            *)
(***************************************************************************)
Fairness == WF_vars(WorkerStep) /\ WF_vars(CloserStep) /\ WF_vars(KernelStep)
FairSpec == Spec /\ Fairness

-----------------------------------------------------------------------------
(* Properties. *)

InFlight == wpc \notin {"idle", "lock", "check", "write"}
Spawning == wpc \in {"kill", "popen", "publish", "recheck", "accept", "hello", "restored"}
Running  == kpc \in {"setup", "armed", "body", "disarm", "finish"}

\* execute_cell never takes the frame of another request for its answer: after
\* any mix of timeouts, interrupts, crashes and respawns the envelope it decodes
\* (session.py:393) answers the cell it sent.
ReplyAnswersCell ==
  wpc = "reply" => reply.cell = cell /\ reply.type \in {"result", "return"}

\* "RE-RUN this cell" (session.py:362-391) is safe advice: neither the live
\* kernel nor the restart snapshot holds an effect of a cell so reported.
RerunLeavesNoTrace ==
  \A n \in Cells : out[n] \in {"rerun", "raised"} =>
                      n \notin blob /\ (kpc # "dead" => n \notin ns)

\* Whatever once reached the restart snapshot stays in it and is in the state
\* every later cell runs on, except what a rehydrate reported lost.
SnapshotNeverRegresses ==
  /\ (saved \ lost) \subseteq blob
  /\ Running => (saved \ lost) \subseteq ns

\* What a rehydrate dropped is never silent: the note is on the session, in the
\* call that took it, or on a stderr the caller has had.
LossNeverSilent ==
  dropped # {} /\ kpc # "dead" /\ ~Spawning =>
     note \/ told \/ (pre /\ wpc # "idle")

\* kernel_epoch tells a caller that streams deltas exactly when to start over:
\* the kernel that runs a cell has been fed the deltas of the calls made under
\* the present epoch, all of them and no other (session.py:313-318).
EpochMarksAccumulator ==
  Running => fed = {n \in 1 .. kcell : asked[n] = epoch}

\* One kernel process at a time, and none once close() has returned after a
\* teardown under the lock.
NoOrphanKernel ==
  strays = {} /\ (cpc = "closed" /\ got => kpc = "dead")

\* A worker that waits in accept() after close() has gone past its wake-up waits
\* on a listener that close() shut (session.py:531-540).
AcceptIsWoken ==
  wpc = "accept" /\ cpc \notin {"open", "wake"} => listener = "shut"

-----------------------------------------------------------------------------
(* Why they hold: the invariant the proofs of KernelSessionProofs use.       *)

Booting == kpc \in {"boot", "prefix"}
Sent == {"read", "signal", "grace", "kill"}     \* a code frame went out
Spawned == {"publish", "recheck", "accept"}     \* a process, no socket yet
NoWork == \A i \in DOMAIN req : req[i].type = "shutdown"

\* Process and epoch numbers fit their types: one new kernel a call at most.
Bounds ==
  /\ wpc # "idle" => cell >= 1
  /\ epoch <= (IF wpc = "idle" THEN cell + 1 ELSE cell)
  /\ proc <= (IF wpc \in {"idle", "hello", "restored"} \cup Spawned
                THEN cell + 1 ELSE cell)

\* One exchange at a time: it is a request in the socket, work in the kernel
\* (booting counts), or an answer in the socket.
OneExchange ==
  /\ Len(resp) <= 1
  /\ \A i, j \in DOMAIN req :
       req[i].type # "shutdown" /\ req[j].type # "shutdown" => i = j
  /\ resp # <<>> => ~Running /\ ~Booting /\ NoWork
  /\ Running \/ Booting => NoWork

\* And it is the one the worker waits for, or is about to kill.
ExchangeIsMine ==
  /\ Running => wpc \in Sent /\ kcell = cell
  /\ \A i \in DOMAIN req :
       /\ req[i].type = "code" => wpc \in Sent /\ req[i].cell = cell
       /\ req[i].type = "rehydrate" => wpc = "restored"
  /\ \A i \in DOMAIN resp :
       /\ wpc \in Sent \cup Spawned \cup {"hello", "restored"}
       /\ resp[i].type = "ready" => wpc \notin Sent
       /\ resp[i].type \in {"result", "return", "unreadable"} =>
            wpc \in Sent /\ resp[i].cell = cell
  /\ wpc = "reply" => reply.cell = cell /\ reply.type \in {"result", "return"}

\* Without a socket there is no exchange but a kernel coming up.
NoSocket ==
  /\ ~pipe => ~Running /\ NoWork /\ (resp # <<>> => wpc \in Spawned)
  /\ pipe /\ Booting => wpc = "hello"
  /\ wpc \in Spawned => ~pipe
  /\ listener # "none" => wpc \in Spawned
  /\ wpc = "popen" => kpc = "dead" /\ ~pipe /\ req = <<>>

\* What states and snapshots may hold: nothing of a cell to be run again.
Clean == {n \in 0 .. cell : n = 0 \/ out[n] \notin {"rerun", "raised"}}
OnlyClean ==
  /\ \A n \in Cells : n > cell \/ (n = cell /\ wpc # "idle") => out[n] = "none"
  /\ blob \subseteq Clean
  /\ wpc # "idle" => cell \notin blob
  /\ kpc # "dead" => ns \subseteq Clean
  /\ kpc # "dead" /\ (~pipe \/ wpc = "hello") => ns = {0}
  /\ kpc # "dead" /\ wpc = "restored" => ns \subseteq blob \cup {0}
  /\ \A i \in DOMAIN resp : resp[i].snap \subseteq Clean
  /\ wpc = "reply" => reply.snap \subseteq Clean

\* The listener a spawn has published is there for close() to shut.
Wakeable ==
  /\ closed = (cpc # "open")
  /\ wpc \in {"recheck", "accept"} => listener \in {"exposed", "shut"}
  /\ AcceptIsWoken

\* One exchange at a time, and nothing of a cell that is to be run again: the
\* inductive invariant behind ReplyAnswersCell and RerunLeavesNoTrace.
IInv ==
  /\ TypeOK /\ Bounds /\ OneExchange /\ ExchangeIsMine /\ NoSocket /\ OnlyClean
  /\ Wakeable

(* Why the rest hold: what the proofs of KernelSessionService add to IInv.   *)

Respawning == Spawned \cup {"popen", "hello", "restored"}
Locked == Respawning \cup {"check", "write", "read", "signal", "grace", "kill"}
Connected == pipe /\ kpc \notin {"dead", "boot", "prefix"} /\ wpc \notin Respawning
Asked(n) == {i \in 1 .. n : asked[i] = epoch}      \* under the present epoch
Answered == \E i \in DOMAIN resp : resp[i].type \in {"result", "return"}
Kept == saved \ lost

\* _io_lock is the worker's or the closing thread's, and a close() that got it
\* meets no worker in a respawn and leaves none behind.
LockHeld ==
  /\ lock = "worker" <=> wpc \in Locked
  /\ lock = "closer" <=> got /\ cpc \in {"shutdown", "exiting", "teardown"}
  /\ got => cpc \in {"shutdown", "exiting", "teardown", "cleanup", "closed"}
  /\ got => wpc \notin Respawning
  /\ got /\ cpc \in {"cleanup", "closed"} => kpc = "dead" /\ ~pipe
  /\ strays = {}

\* The accumulator of a connected kernel has the calls of this epoch, the call
\* in progress excepted until the kernel takes it, which it does once and
\* before it runs anything.
Fed ==
  /\ \A n \in 1 .. cell : asked[n] <= epoch
  /\ wpc # "idle" => asked[cell] = epoch
  /\ wpc \in Spawned \cup {"hello", "restored"} => fed = {}
  /\ Connected =>
       /\ Asked(cell) \ {cell} \subseteq fed /\ fed \subseteq Asked(cell)
       /\ wpc \in {"idle", "reply"} => fed = Asked(cell)
       /\ wpc \in {"lock", "check", "write"} => cell \notin fed
       /\ wpc # "idle" /\ cell \notin fed => cell \notin ns
       /\ Running \/ Answered => cell \in fed
  /\ \A i \in DOMAIN req : req[i].type = "code" => cell \notin fed
  /\ kpc \in {"setup", "armed"} => kcell \notin ns

\* A snapshot, taken or about to be, has all that earlier ones kept; so has the
\* state of the connected kernel, which has what its latest snapshot has.
SnapshotsGrow ==
  /\ Kept \subseteq blob
  /\ wpc = "reply" /\ reply.snap # {} => Kept \subseteq reply.snap
  /\ \A i \in DOMAIN resp : resp[i].snap # {} => Kept \subseteq resp[i].snap
  /\ Connected =>
       /\ Kept \subseteq ns
       /\ wpc = "reply" => reply.snap \subseteq ns
       /\ \A i \in DOMAIN resp : resp[i].snap \subseteq ns

\* What PREFIX installs is in every state and in every snapshot there is.
Rooted ==
  /\ 0 \in ns
  /\ blob # {} => 0 \in blob
  /\ wpc = "reply" /\ reply.snap # {} => 0 \in reply.snap
  /\ \A i \in DOMAIN resp : resp[i].snap # {} => 0 \in resp[i].snap

\* A rehydrate loads the snapshot but for what it drops, and nothing else drops.
Rehydrated ==
  /\ wpc = "restored" => blob # {}
  /\ wpc = "restored" /\ resp # <<>> => dropped \subseteq blob \ {0} /\ ns = blob \ dropped
  /\ kpc # "dead" /\ (~pipe \/ wpc = "hello") => dropped = {}
  /\ LossNeverSilent

\* The inductive invariant of the whole session: what a call leaves behind is
\* what the next one finds, across respawns, restores and close().
SInv == IInv /\ LockHeld /\ Fed /\ SnapshotsGrow /\ Rooted /\ Rehydrated

(***************************************************************************)
(* The session implements CellService: the interpreter is the kernel the   *)
(* session is connected to, from the end of its handshake on.              *)
(***************************************************************************)
Serving == pipe /\ kpc \notin {"dead", "boot", "prefix"} /\ ~Spawning

ServedState == IF Serving THEN ns ELSE {}
ServedCalls == IF Serving THEN fed ELSE {}
AnswerFrames == {i \in DOMAIN resp : resp[i].type \in {"result", "return"}}
GivenAnswer ==
  IF wpc = "reply" THEN {reply.snap}
  ELSE IF Spawning THEN {} ELSE {resp[i].snap : i \in AnswerFrames}

CS == INSTANCE CellService WITH
        MaxCalls <- MaxCells, calls <- cell, busy <- (wpc # "idle"),
        outcome <- out, snapshot <- blob,
        state <- ServedState, heard <- ServedCalls, answer <- GivenAnswer

\* Every behaviour of the session is one of the service its caller was promised.
ImplementsCellService == CS!Spec

\* close() always returns, whatever the cell in flight does.
CloseReturns == cpc = "wake" ~> cpc = "closed"

\* With a cell_timeout, execute_cell always comes back.
CellReturns == WF_vars(Timeout) => (wpc = "lock" ~> wpc = "idle")

\* Even without one, close() frees a worker whose cell never ends.
CloseFreesWorker == closed ~> wpc = "idle"

\* A kernel that close() could not reach, because the worker kept the lock,
\* does not outlive its lost socket.
LeftoverDies == cpc = "closed" ~> kpc = "dead"

-----------------------------------------------------------------------------
(* What a comment, a test or a note of the repository says and the code does *)
(* not keep.                                                                 *)

\* A cell whose body ran is reported as interrupted only when SIGINT cut it: "True
\* only when ... we read the kernel's interrupted-result frame" (session.py:344-345).
\* One that Guard A refused, which has no body to cut, is left aside.
InterruptedMeansCut ==
  wpc = "reply" /\ grace /\ reply.how # "refused" => reply.how = "cut"

\* "On ... child death: SIGKILL + respawn ... return a 'result' envelope whose stderr
\* explains what happened" (session.py:321-323): while the session is open, a call whose
\* kernel dies under it comes back, however far that kernel got.
DeathIsReported ==
  [][~closed /\ wpc \in {"read", "grace"} /\ wpc' = "idle" => out'[cell] # "raised"]_vars

\* SIGINT "can never escape into a spurious boot_error" (kernel.py:475-478):
\* once a kernel serves cells it does not answer one with boot_error.
NoSpuriousBootError ==
  wpc \in {"read", "grace"} /\ resp # <<>> => Head(resp).type # "boot_error"

\* "State is always restored to the last clean boundary, never a partial
\* mid-cell state" (TODO.md:2930): the snapshot that a restart loads does
\* not come from a cell that SIGINT cut short.
SnapshotIsClean ==
  wpc = "idle" /\ reply.how = "cut" => reply.cell \notin blob
=============================================================================

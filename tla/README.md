# TLA+ models and proofs for the policy language model

The repository runs a language model as a *root* agent that works by writing Python cells. The
cells run in a child process (the *kernel*), where they can define, edit and call *policies*, some
of which are themselves agents. This directory models that program in TLA+, checks the models with
TLC and proves some of the results with TLAPS.

## The system

| Part | State | Operations | Correct when |
|---|---|---|---|
| **Kernel session** `repl/session.py` | lock, closed flag, listener, process, socket, epoch, cached snapshot, pending note | constructor, `execute_cell`, kill and respawn, `close`, finalizer | an answer belongs to its cell; "RE-RUN" is safe advice; the snapshot never loses what it had; `close()` ends, frees the worker and leaves no process |
| **Kernel process** `repl/kernel.py` | `__main__`, the accumulator of `plm_messages`, SIGINT handler | boot, cell, guards, answer, rehydrate, shutdown | SIGINT reaches a body and nothing else; one answer per request |
| **Snapshot** `repl/prefix.py` | the names of `__main__` | collect, copy a namespace | what can be saved is saved; injected names are not |
| **Root loop** `plm.py` | trajectory, round, seeded count and epoch | one round, RETURN, failure | the kernel sees the whole trajectory; requests are well formed; budgets are kept |
| **Policy registry** `policy/` | store, sealed names, handles | define, rewrite, remove, rename, duplicate, guards A and C | sealed policies do not change; names and handles agree |
| **Source edits** `policy/edits.py` | none | edit, insert, delete, rename on source text | the edit does what its text says, and refuses what is ambiguous |
| **parallel()** `repl/parallel.py`, `_branch_state.py` | branch flag, grants | run branches, edit with a grant | no edit that returned is undone by a sibling; no branch outlives its cell |
| **Default policies** `policy/defaults/` | depth left, trajectory of the sub-agent | `llm`, `react`, `react_auto`, verifier loops | depth is kept and given back, lists stay well formed, an error is verified once, the loop ends |
| **exec_ns** `repl/exec_ns.py` | a namespace | run a sub-agent's cell | output and streams are given back |
| **Constraints** `constraint/` | recipes | validate, export a schema, snapshot, rebuild | the declared order of checks; the schema agrees with them; a rebuilt constraint means what its author wrote |
| **Model backends** `model_backend/` | sanitized-tools cache | `generate` | the cache never serves another tool list |

How they meet. The root loop calls `execute_cell` through `asyncio.to_thread`: one worker thread at
a time is inside the session, under `_io_lock` for the whole exchange. `close()` may come from
another thread at any moment, because a cancelled task closes the session while the thread of
`to_thread` runs on. The session and the kernel exchange length-prefixed frames over one socket;
signals (SIGINT, SIGKILL) go past it. After a timeout, a crash or a broken frame the session kills
the kernel, starts another and restores it from the last snapshot, which came with an earlier
answer. The root loop learns of the restart from `kernel_epoch` alone, on its next call.

Inside the kernel a cell runs on the main thread. It may start branches on threads of their own, which
share the registry with it and with each other, and it may call agents, whose cells may call agents
again; both end before the cell does, and the snapshot is taken then.

What is hard here: two threads and a process that may each stop between any two steps; a signal
that races the end of the cell it is meant for; a respawn that races `close()`; a restart state
that must hold neither too much nor too little. `PROJECT.json` lists the hazards at their lines.

## Modules

| Module | Models | Kind |
|---|---|---|
| `CellService` | what a session promises its one caller, without processes, sockets, locks and timeouts | abstract specification |
| `KernelSession` | `repl/session.py` and the loop of `repl/kernel.py` | detailed; implements `CellService` |
| `KernelSessionProofs`, `KernelSessionService` | theorems about `KernelSession`, and that it implements `CellService` | proofs |
| `RootLoop` | `PLM.__call__`, on top of `CellService` | composition |
| `PolicyRegistry` | `policy/registry.py`, `proxy.py`, `decorator.py`, `guard.py`, and the policies' part of the snapshot and of rehydrate | component |
| `PolicyRegistryMC` | a small instance of it | for TLC |
| `PolicyRegistryProofs` | theorems about `PolicyRegistry` | proofs |
| `RootLoopProofs` | theorems about `RootLoop` | proofs |
| `AgentLoops` | `policy/defaults/` (`llm`, `react`, `react_auto`, `react_verifier_llm`, `base_verifier`, `_llm_infra.py`), with `_react_helper.py` and `repl/exec_ns.py` | component |
| `AgentLoopsMC` | a small instance of it | for TLC |
| `AgentLoopsProofs` | theorems about `AgentLoops` | proofs |
| `ParallelBranches` | `repl/parallel.py`, `_branch_state.py` and the gated edits of `policy/proxy.py` | component |
| `ParallelBranchesProofs` | theorems about `ParallelBranches` | proofs |
| `Constraints` | `constraint/base.py` and `constraint/snapshot.py` as operators | algorithms |
| `ConstraintsProofs` | theorems about `Constraints`, by induction over terms | proofs |
| `Snapshot` | `repl/prefix.py` and the rehydrate frame of `repl/kernel.py`, on top of `Constraints` | component |
| `SnapshotProofs` | theorems about `Snapshot` | proofs |
| `SnapshotMC` | an instance of it with twelve constraints | for TLC |

### KernelSession

One program counter per thread of control: `wpc` for the worker in `execute_cell` and
`_spawn_kernel`, `cpc` for the thread in `close()`, `kpc` for the kernel. A step of a thread ends
where another can see the difference: at the lock, at a read or write of the socket, at a signal, at
an attribute that the other thread reads. `lock`, `closed`, `listener`, `pipe`, `epoch`, `blob` and
`note` are the attributes of the object (`_io_lock`, `_closed`, `_listener`, the socket files,
`kernel_epoch`, `cached_vars_blob`, `last_rehydrate_error`). `pre`, `reply` and `grace` are locals
of `execute_cell`.

Cells are numbers, and the state of a kernel is the set of the cells whose effects it holds, so "is
this effect in that state" is membership. A snapshot is such a set, `{}` for none (`b""`). `0`
stands for what the bootstrap code installs. The fields `cell` and `how` of an answer are not on the
wire: they say which request it answers, and how the body ended. The variables `strays`, `out`,
`asked`, `saved`, `lost`, `dropped` and `told` are history that the properties read.

SIGINT is modelled as the code arms it: `SendSigint` leaves it `pending` only if the kernel has
armed it, and a pending SIGINT may be delivered at each step until it is disarmed: in the body, in
the disarming call itself, or between arming and the `try`.

A kernel that dies ends a read in one of two ways. If it had taken its request, the read meets the
end of the stream and the session respawns (`ReadEof`, as does a read that begins after `close()` has
taken the socket away). If the request was still unread, the socket is reset instead (`Reset`), and
`execute_cell` raises (`ReadReset`); the dead kernel stays until the next call's write fails.

What is abstracted. A frame is written in one step; a partly read frame appears as
`TimeoutPartial`. A read that fails to decode is an "unreadable" answer. Pickling errors of the
request, the boot-stderr note, the number in the pid box, the reaper thread of a process in
uninterruptible sleep, and grandchildren are left out; SIGKILL takes effect at once. Only one
thread calls `execute_cell` and one calls `close()`, as the root loop does. What rehydrate manages
to load is any subset of the snapshot, which `KernelRehydrate` chooses. A kernel may crash at any
step.

### CellService and the refinement

`CellService` has one interpreter, which may be lost at any moment; a call is heard, runs, is
answered; it ends with the answer, or with a new interpreter restored from the last snapshot and a
new epoch, or without one. `KernelSession` implements it (`ImplementsCellService`) with this
mapping: the interpreter is the kernel the session is connected to, from the end of its handshake
on; `answer` is the answer in the socket or in the worker's hands; the rest has the same names.

### RootLoop

The loop is one coroutine: what it does between two awaits is one action. Its calls are
`CellService`'s, so everything that can happen to a session happens here too. A message is its role
and the number of the call it carries or answers. All branches of a round that answer without
running a cell with a tool message are one action, `RejectedCall`, since they differ in wording
only; `MalformedCall` differs, because its turn keeps no call. The `repl.close()` of the `finally`
is `KernelSession`'s `Close`.

### PolicyRegistry

`store` is `_PLM_POLICIES`, `main` the bindings that policy names have in `__main__`, and `obj` the
attributes of the live policy objects: their name, kind, text and `_p_immutable` (`frozen`). Objects
have identities, since most of this code is about which object a name stands for. `held` are the
objects that variables under other names refer to. A text is a model value, so an edit, an insertion,
a deletion of lines and a rewrite are one action: they differ in how they compute the text.

The operators `Put` and `Pop` are the store's mutators with their protection. `EditInPlace`,
`Recreate` and `Install` are the three ways to write a policy; an operation by name is the same
operation from what `Sync` leaves. A cell is `StartCell`, up to `MaxOps` operations, and `EndCell`,
which is Guard C and the snapshot. Guard A only refuses cells; `Bind` and `Unbind` are the writes to
`__main__` that it cannot see.

A restart is a step from the state that the last snapshot was taken in, because nothing else
survives: a death in the middle of a cell, or of a kernel that has just been restored, comes to the
same. (A restart before any snapshot leads to the initial state.) Which policies `dill` can save,
which sources run again and which objects load alone are all left open. A variable has a limit of
size that a registry entry does not have: `pickled` are the objects that can be saved as entries,
`light` those among them that are saved as variables too. `oversize` are the names whose policy came
back and whose variable did not. Values that are no policies (`Var`) come back or are lost.
`Restart` is the combined blob, with identities; `RestartPiecemeal` restores object by object, so that
a variable, the registry and each alias (`held`) end up with different objects. Copies of sealed policies in other variables are dropped:
they are not in the registry and refuse every operation.

### AgentLoops

The kernel has one thread that runs agents, so the calls form a `stack`, and the depth left is one
variable, `left` (`_LLM_DEPTH`). A policy of the root makes calls one after the other on one list,
the `weave`, and one namespace, of which the name `RETURN` matters (`returnBound`). Calls from the
cells of agents and from verifiers work on lists and namespaces of their own: of those only the
control is kept. A frame holds the policy, its program counter `pc`, the budgets that `Budget`
computes, the round, and what `descend()` will put back (`saved`).

`descend()` lowers the depth before its `try`, and so is two steps: `BeginCell` and `EnterCell` around a
cell, `BeginHook` and `BeginCheck` or `SkipCheck` around a verifier. In the points of `Lowered` the depth
is lowered and nothing would give it back; in those of `Within` the `finally` does.

A round is `BeginRound` (the depth gate, and in `react_auto` the demand for an answer), one request,
and a turn: `AcceptAnswer` or `RejectAnswer` for `llm`; for the others `IdleTurn` without a call, or
`CallTurn`, and then `RefuseCall` or a cell, which ends with `EndCell` or, if it called RETURN, with
`Accept`. `Leave` is every way out, `DropReturn` the `finally` of
`react_auto`. The verifier of `react_verifier_llm` is `base_verifier`: `ShouldRun` reads the list,
newest first; a check is a note, a proposal and its approval, each a call of `react_auto`, and
`Mark` ends it. A KeyboardInterrupt may come at any step; a cell further down may catch it
(`Catchers`), or nothing does.

A message is what the loops do with it: a call, an answer with or without an error, a verifier's
mark, or anything else. An answer is an `error` if the gate of the verifier takes it for one (it
contains "stderr:" or "Traceback"); the text for a RETURN that the constraint refuses contains
neither, so it is a `tool` message and is never verified. An approved edit may add a turn, take the
message of an error away, or do nothing. `tainted`, `torn` and `leaked` record what an interrupt
leaves behind: a call without its answer, `RETURN` bound before the `try`, and levels of depth that
`descend()` took before its `try`.

`llm_call(depth)`, which could lower the depth as well, is left out: each of the four policies calls it
with None (`llm.py:130`, `react.py:213`, `react_auto.py:323`, `react_verifier_llm.py:473`), for which it
does nothing, and `_check_blessed_caller` refuses every other caller, so its lowering and its ValueError
are not reached.

### ParallelBranches

A *context* is the main thread or a branch, `<<call, task>>`. `calls` holds the calls of
`parallel()` with their own thread pools, `task` the branches with their grants, `edit` the edit that
a context is in the middle of: it has read a text (`base`), will pass a gate and write. Between these
steps other threads run. The replacement of a class takes its name out first (`PopClass`,
`Recreate`). A text is the set of the edits in it, so an edit that another undoes is missing from it.
`Remove` stands for every operation behind `_no_branch_mutation`. SIGINT reaches the main thread
only: in `parallel()` it cancels the gather, which drops the tasks that no thread has taken and waits
for the others (`InterruptCall`); in an edit it cuts the edit off.

Edits go through the name, as cells do it; handles kept from before a redefinition are in
`PolicyRegistry`. A branch may grant to its own branches what it was not granted, since the check
for two owners is local to a call (`parallel.py:105`): the policies it does this to are `contested`.

### Constraints and Snapshot

`Constraints` has what an author writes (a term: a type, a field or a structural constraint), the class
the engine builds from it (`Define`, `Build`, `Class`), its two uses (`Validate`, `Schema`) and its recipe
(`ToRecipe`, `FromRecipe`). `Means`, `Admits` and `PassesBounds` are the reference definitions: what the
documented order of coercers, type and checks makes of a value, what JSON Schema says, and which values
pass the bounds. Values are integers, texts of digits, lists and objects; a user's predicate is "is even".

The recursion of these operators is open, so that it can be checked and proved about. An operator `X` that
follows the structure of terms or schemas is a constant, and `XBody` says what it does with one level,
using `X` for what is below. `SnapshotMC` gives each `X` its body (`MCX`), which makes it recursive for TLC.
The proofs know only the equations of `X` with `XBody` (`Closed`). `TermCloses` and `ValueCloses` are
those equations for one term and one value; TLC evaluates them for the terms and values of the run that
can be built (`RecursionIsClosed`).

`Snapshot` is a session: each cell binds or deletes one name, and its answer carries
`Collect(main)`, which is a combined blob, if dill can make one, and what is needed to restore name by
name: values, sources of policies, recipes of constraints, and the names it had to leave out. `Restart`
is the rehydrate frame. An object is a plain value, a policy or a constraint class, of a kind that says
what dill does with it. `saved`, `written` and `fresh` are history.

## Runs

| Run | Checks | Shows |
|---|---|---|
| `session_safety` | `TypeOK`, `ReplyAnswersCell`, `RerunLeavesNoTrace`, `SnapshotNeverRegresses`, `LossNeverSilent`, `EpochMarksAccumulator`, `NoOrphanKernel`, `AcceptIsWoken`, `SInv` | the safety of the session in every interleaving; 466 361 states |
| `session_service` | `ImplementsCellService`, `CloseReturns`, `CellReturns`, `CloseFreesWorker`, `LeftoverDies` | refinement and liveness |
| `root_loop` | `LoopTypeOK`, `KernelSeesWholeTrajectory`, `WireWellFormed`, `FailureComesAfterReminder`, `LoopEnds` | the root loop over any behaviour of the service; 24 592 states |
| `policy_registry` | `TypeOK`, `SealHolds`, `RegisteredUnderOwnName`, `MainAgrees`, `RestartKeepsPolicies`, `DeletedStaysDeleted`, `DefineBindsCanonical`, `NeverEvictedWhileBound` | the seal, the names and the restart under every sequence of operations; 805 886 states |
| `agent_loops` | `DepthKept`, `ReturnDiesWithCall`, `UnansweredOnlyByInterrupt`, `VerifiedOncePerError`, `CallsEnd` | agents within agents, their verifiers and interrupts at any point; 434 376 states |
| `parallel_branches` | `EditsSurvive`, `NoBranchOutlivesCell`, `NothingVanishes`, `CallsReturn` | calls of `parallel()` side by side and nested, with edits, removals and an interrupt; 187 584 states |
| `snapshot` | `LostIsNamed`, `ConstraintsMean`, `BoundsExported` | what a restart keeps and what a constraint means before and after it; 2 400 states up to the names |
| `edit_keeps_other_policies` | one statement of two comments | the code does otherwise: see below |
| `interrupted_means_cut`, `death_is_reported`, `no_spurious_boot_error`, `snapshot_is_clean` | one statement of a comment, a test or a note each | the code does otherwise: see below |

**Bounds.** `MaxCells` bounds the calls, and with them the spawns (a call spawns once at most).
Three calls are enough for safety: a call that leaves something behind, a call that meets it, and
one after, for what must not be forgotten in between. Two are enough for the refinement and the
liveness properties, which speak of one call and of `close()`. Nothing else is bounded: the socket
holds what the protocol puts in it. For `RootLoop`, `MaxTurns = 2` and `ReturnBudget = 1` give a
round before the reminder, the round with it, and one of the return budget; `MaxCalls` is the number
of rounds.

For `PolicyRegistry` the instance has a sealed class (the kind whose seal rests on the set of names,
because a cell can write its flag), a mutable boot function and a name that only cells use: with a
third there are renames to a free name, to a taken one and between boot and other names. Two texts
tell an edit from none. `Fresh` gives two new identities at a time (what nothing refers to is freed
at the end of the cell), enough for a replaced object, its replacement, and the boot objects beside
them; `MaxHeld = 1` keeps one replaced object in reach for any number of cells, and `MaxOps = 2`
lets two operations meet before Guard C has put things right. The number of cells and restarts is
not bounded. The proofs are for all of these numbers.

For `AgentLoops`, two calls let one meet what the other left in the list and in the namespace.
`RootDepth = 2` has an agent whose cell calls another agent, and a third that the gate refuses. The
caps and the default are 1, so that the two requests have no rounds but the demand's and more rounds
than the cap. For `ParallelBranches`, two calls with two tasks each are side by side, one after the
other or one in a branch of the other; pools of one and two threads make a task wait or not; two
edits are enough for one to undo the other. One policy is enough, because the properties speak of one
policy at a time; it is a class, which has both kinds of edit. The proofs are for any numbers. For
`Snapshot`, two names let one stuck object spoil the combined blob of the other (they are interchangeable,
which the configuration uses as a symmetry), and a restart may
follow a restart; the twelve specifications of `SnapshotMC` have each keyword that the model knows,
two coercers, nesting in fields, lists and structures, two validators with one function name, and the
two specifications that are refused.

**Fairness.** `FairSpec` asks weak fairness of the worker's steps, of the closer's steps and of the
kernel's own code: threads of a running process are scheduled, and both waits of `close()` and the
read after SIGINT have timeouts. Nothing makes the body of a cell end, the caller call, or a process
crash. `cell_timeout` may be `None`, so its expiry is not fair either: `CellReturns` assumes it
(`WF_vars(Timeout) => ...`), `CloseFreesWorker` does without. `FairLoopSpec` asks that the event
loop goes on, that `generate` comes back and that calls do, which is what `CellReturns` shows.
In `AgentLoops`, `WF_vars(Progress)` says that the policies' own code goes
on and that the backend comes back; that the cells of agents end is assumed in `CallsEnd` itself, level
by level, because a cell may run for ever. In `ParallelBranches`, `WF_vars(Progress)` says that threads
are scheduled; `CallsReturn` assumes that the code of each task ends. `Snapshot` and `PolicyRegistry`
have no liveness properties: nothing makes a cell come. Deadlock is checked in every run;
`Terminated`, `LoopOver`, `AllDone` and `Over` are the steps of a system in which all is done.

**Where the code and its documentation part.**

* `InterruptedMeansCut`. Whatever answer the read after SIGINT returns is labelled as interrupted, also
  if SIGINT did not cut the body: its type is forced to `result`, and a RETURN it made is lost
  (`repl/session.py:374`, against the comment at 344-345). In TLC's trace SIGINT comes before the kernel
  has armed it and is dropped, and the body runs to its end. Cells that Guard A refused are not counted.
* `DeathIsReported`. A kernel that dies with its request unread resets the socket.
  `ConnectionResetError` is in none of the session's `except` clauses, so the call raises, against
  "On hard timeout or child death" (`repl/session.py:321-323`).
* `NoSpuriousBootError`. A SIGINT between `_repl_arm_sigint()` and the `try` ends the kernel with a
  `boot_error`, which `repl/kernel.py:475-478` excludes. The session respawns, so
  `RerunLeavesNoTrace` still holds.
* `SnapshotIsClean`. The snapshot of an interrupted cell is cached; a later restart restores a state
  in the middle of a cell, which `TODO.md:2923-2930` excludes.
* `EditKeepsOtherPolicies`. A policy that is redefined with the other kind (function or class) is
  replaced by a new object. An edit through the old one, if a variable still has it, registers the
  old object under the name again, and Guard C then rebinds the name to it: the new policy is gone.
  `policy/proxy.py:472` calls this write an "idempotent no-op".

Other differences, which properties of the passing runs state as exceptions:

* The snapshot keeps the registry entry of a policy whose variable is over the limit of size and drops
  the variable (`repl/prefix.py:227-230` and 196-197). After a restart the policy is registered and its
  name is not bound to it, so the next by-name call, or Guard C at the end of the next cell, evicts it
  as deleted (`policy/guard.py:236-237`) if the name is unbound, and no note names it. `MainAgrees`
  excepts these policies (`oversize`) up to the end of the first cell after a restart.
* `descend()` lowers the depth one line before its `try` (`_llm_infra.py:123-124`). An interrupt between
  the two leaves it lowered for the rest of the session, which is not "the dynamic extent of the agent's
  act phase" of its docstring. `DepthKept` counts these interrupts (`leaked`).
* An interrupt between the line that binds RETURN (`react_auto.py:367`) and the `try` (423) leaves the
  name in the caller's namespace, against "ANY exception" in the comment at 544-547:
  `ReturnDiesWithCall` excepts it, as `torn`.
* A variable over the size limit is left out of the snapshot without a word (`prefix.py:196-197`),
  against "so a vanished variable is never silent" (`kernel.py:217-218`): `LostIsNamed` excepts it.

And some that no property is about. A branch that was granted a class policy and changes its structure
takes the name out of the registry and puts it back (`PopClass`, `Recreate`), while `policy/proxy.py:358-359`
and `_branch_state.py:113-115` speak of a registry whose size no branch changes. `react_verifier_llm` caps
neither of its budgets, where `react_auto` caps both. The docstring of `to_recipe` says that a cyclic
constraint gives None, where the code emits a self reference.

`repl/session.py:465-471` says of `close()` that "either way we end up holding" the lock. The second
wait is bounded as well, and `ReacquireExpires` is the step where it fails; `CloseReturns` and
`LeftoverDies` show that the session still comes to its end.

## Proofs

For every number of calls (`MaxCells \in Nat \ {0}`, the only assumption), TLAPS proves of
`KernelSession`'s `Spec`:

| Theorem | Module | States |
|---|---|---|
| `Invariant` | `KernelSessionProofs` | `[]IInv` |
| `TypeCorrect` | | `[]TypeOK` |
| `AnswersMatch` | | `[]ReplyAnswersCell` |
| `RerunIsSafe` | | `[]RerunLeavesNoTrace` |
| `AcceptWoken` | | `[]AcceptIsWoken` |
| `SessionInvariant` | `KernelSessionService` | `[]SInv` |
| `NoOrphans` | | `[]NoOrphanKernel` |
| `EpochIsExact` | | `[]EpochMarksAccumulator` |
| `NothingRegresses` | | `[]SnapshotNeverRegresses` |
| `LossesAreTold` | | `[]LossNeverSilent` |
| `Implementation` | | `ImplementsCellService` |

Hardly one of these is inductive. `IInv` is about one call. That the answer in the worker's hands is to
its cell needs that no older answer can be in the socket, hence that there is one exchange at a time
(`OneExchange`: a request waiting, work in the kernel, or an answer waiting, never two of these) and
that it is the one of the call in progress (`ExchangeIsMine`), hence in turn that a lost socket
leaves nothing behind (`NoSocket`). That a cell to be run again has left no effect (`OnlyClean`)
needs the same of the states and snapshots still on their way, and that a kernel without a socket
has run nothing. `Bounds` ties the numbers of processes and epochs to that of calls, for the types.

`SInv` adds what a call leaves for the next one, across respawns, restores and `close()`:

* `LockHeld`: which thread has the lock follows from where the threads are, and a `close()` that got it
  meets no worker in a respawn. Without it a teardown could leave a kernel that a respawn is about to
  publish, so this is what `NoOrphanKernel` rests on.
* `Fed`: between cells, too, the accumulator of a connected kernel holds the calls of this epoch
  (`Asked`), all but the call in progress, which it takes once and before it runs anything.
  `EpochMarksAccumulator` speaks only of the moment when a cell runs.
* `SnapshotsGrow`: what was saved and not lost is in the cached snapshot, in every snapshot on its way
  and in the state of a connected kernel; `SnapshotNeverRegresses` is its visible end.
* `Rooted` and `Rehydrated`: a state has at least what PREFIX installs, so a snapshot that was taken is
  never the empty one, which the session would not restore; and only a rehydrate drops anything,
  after which its note is waiting (`LossNeverSilent`).

The run `session_safety` checks `SInv`, and with it `IInv`, on three calls.

`KernelSessionProofs` proves that every step keeps `TypeOK` (split by kind of variable) and `Bounds`, then
that it keeps the other parts of `IInv`, one lemma per part, with a lemma of their own for the actions that
a part really depends on; `KernelSessionService` the same for `SInv`. Its first
lemmas (`AnswersAfter`, `RequestsAfter`) say once what a step can change in the socket, so that the
others need not reason about sequences.

`Implementation` shows that an initial state of the session is one of the service and that each of its
steps is a step of the service or a stutter. The steps that show are few: `ExecuteCell` is `Call`,
`KernelTakesCell` is `Hear`, the beginning of a body is `Run`, an answer is `Answer`, whatever takes the
kernel or its socket away is `Lose`, and the worker's ends are `Reply`, `Restart` and `GiveUp`. It needs
`SInv`: `Rooted` because the service tells an interpreter that is up by its state being non-empty,
`Rehydrated` for what a restored one holds, `Fed` for the order of `Hear`, `Run` and `Answer`, and `IInv`
for the answer being the one of this call.

Of `PolicyRegistry`'s `Spec`, for any set of names, sealed names, boot policies and texts, any
number of identities and any length of cells (`ConstantsAssumption`: sealed names are boot names,
the special values are no objects):

| Theorem | States |
|---|---|
| `Invariant` | `[]IInv` |
| `TypeCorrect` | `[]TypeOK` |
| `SealNeverBroken` | `[]SealHolds` |
| `NamesAgree` | `[]RegisteredUnderOwnName` |
| `NamesStandForPolicies` | `[]MainAgrees` |
| `NeverEvicted` | `NeverEvictedWhileBound` |
| `RestartLosesNothing` | `RestartKeepsPolicies` |
| `NothingResurrected` | `DeletedStaysDeleted` |
| `DefineBinds` | `DefineBindsCanonical` |

`SealHolds` and `RegisteredUnderOwnName` need each other: an entry is protected because its object is
the one of a sealed name, and a rename pops the right entry because the name in the object is the
name of the entry. `AllReachableLive` is what makes a new object new. The conjunction `IInv`, which is
proved and is no property of the run, is inductive. The proof is about a registry and attributes in general (`Reg`, `Sound`), since the
by-name operations start from what `Sync` leaves: `WriteObject` says what it means to put an object
under its name, the three ways to write a policy are instances of it, and each action has a lemma.
`MainAgrees` holds after a restart because the names were bound to the very objects of the registry
when the snapshot was taken (`Agreement`): a restored name then has its saved
variable or the policy run again from its source, and every other one is in `oversize`. `DefineBinds` takes the four ways that `@policy` can go: refused,
a rewrite, a replaced class (`Written` says that the name then has a policy) and a new one, where the
entry is not protected, so the registry takes the object that the name is bound to.

Of `RootLoop`'s `LoopSpec`, for all `MaxTurns` and `ReturnBudget` and over any behaviour of
`CellService`:

| Theorem | States |
|---|---|
| `Inductive` | `[]IInv` |
| `LoopTypes` | `[]LoopTypeOK` |
| `WholeTrajectorySeen` | `[]KernelSeesWholeTrajectory` |
| `WireAlwaysWellFormed` | `[]WireWellFormed` |
| `ReminderFirst` | `[]FailureComesAfterReminder` |

`KernelSeesWholeTrajectory` speaks of the moment when a cell has heard its delta. What makes it true
then is `Deltas`, which holds at all times: an interpreter that is up in the epoch of the last call has
heard, or is about to hear, deltas that together are exactly the seeded part of the trajectory
(`Covered`), and one of a newer epoch has heard nothing. `Wire` pairs calls and answers but for the
call under way; `Reminded` counts the turns since the reminder by the round.

Of `ParallelBranches`' `Spec`, for any policies, widths, pools and numbers of calls and edits:

| Theorem | States |
|---|---|
| `Inductive` | `[]IInv` |
| `TypeCorrect` | `[]TypeOK` |
| `EditsSurviveAlways` | `[]EditsSurvive` |
| `NoBranchOutlivesCellEver` | `[]NoBranchOutlivesCell` |
| `NothingVanishesEver` | `[]NothingVanishes` |

Grants are exclusive within one call only. Over all calls the invariant is `Exclusion`: two contexts
may edit one policy only if one of them waits for a branch to which it handed the grant. With `Callers`
(who waits does not edit) it follows that at most one edit of an uncontested policy can get past the
gate, so its text is the one it read (`Current`), so it undoes nothing. `NoBranchOutlivesCell` looks at
the first call that is still open: its caller cannot be a branch, since that branch's call would be open
and earlier.

Of `AgentLoops`' `Spec`, for any depth, budgets, caps, requests and number of calls:

| Theorem | States |
|---|---|
| `Inductive` | `[]IInv` |
| `TypeCorrect` | `[]TypeOK` |
| `DepthAlwaysKept` | `[]DepthKept` |
| `ReturnAlwaysDies` | `[]ReturnDiesWithCall` |
| `ListsWellFormed` | `[]UnansweredOnlyByInterrupt` |
| `ErrorsVerifiedOnce` | `[]VerifiedOncePerError` |

`Depths` says what each frame of the stack will give back when it is left, whichever way: one less than
the frame below it, and counts the levels `leaked`; a point of `Lowered` has nothing to give back, so an
interrupt there that no cell below catches leaks one. `Parts` is about the call on the weave: the list is paired, but for the call of a
cell that is running (`Pending`), and an error that is still to be verified, or is being verified, has
not been counted yet (`Uncounted`), so that `verified` cannot overtake `errors`.

Of `Constraints`, for all terms and values:

| Theorem | States |
|---|---|
| `RoundTrips` | the class rebuilt from the recipe of a class is that class |
| `ValidatesAsMeant` | `Validate` of a class is `Means` of its term |
| `ReturnsAreAdmitted` | what `Validate` returns, the schema admits |
| `AdmittedPasses` | what the schema admits passes the bounds |
| `MergedIsTight` | merging loosens no bound, in any order |

and of `Snapshot`'s `Spec`, for any names, policies and constraints:

| Theorem | States |
|---|---|
| `Invariant` | `[]IInv` |
| `LossesAreNamed` | `[]LostIsNamed` |
| `OnlySavedReturns` | `[]NothingInvented` |
| `ConstraintsStayAsWritten` | `[]AsWritten(main)` |
| `MeaningKept` | `[]ConstraintsMean` |
| `BoundsAlwaysExported` | `[]BoundsExported` |

The first three of `Snapshot` need nothing of the engine. The others assume `Closed`, which any engine of
these definitions satisfies, and of the constants:

* `TermsAssumption`: terms are of the four kinds, nested finitely deep (`Depth`), and their parts are
  terms. The kwargs of a field are ones that `_KNOWN_KWARGS` and the model have, with arguments of their
  types (`WellFormed`).
* `BoundsFit`, for `AdmittedPasses` and `BoundsAlwaysExported` alone: bounds are on numbers and sizes on
  lists. The engine builds other fields, such as a size on a number, and leaves it to `validate()` to
  reject every value, while their schemas say nothing of it: of those the second half of
  `BoundsExported` does not hold. TLC finds `BoundsFit` true of the instance (`BoundsFitTheirTypes`).
* `InputsAssumption`: what is nested in an input is one, and numbers are integers.
* `SpecsAssumption`, `NoneAssumption`: what authors write are terms; `None` is no number.

The induction is first order: a set of terms that has every term whose parts it has contains all
(`TermInduction`), since otherwise one of those outside would be least deep (`Least`, from the library's
theorem that `<` is well founded on the naturals). Sequences of coercers and sets of fragments go by
their number (`NumberInduction`).

* `ValidatesAsMeant` needs that coercers wrapped one around the other run in the order they are written
  (`CoercersInOrder`), and that a rejection stays one through the coercers and the type, where the code
  stops early (`RejectedByMeaning`).
* `ReturnsAreAdmitted`: each keyword of a merged schema comes from one check or from the schema of the
  type (`MergedIsTight`), and the value passed them all (`CheckedSatisfies`).
* `AdmittedPasses` is not inductive as it stands. A nested field's keyword that is no bound may be
  overwritten by an outer one, so a value that the outer schema admits need not be one that the inner
  schema admits. The induction is over `Within`, which asks for the type, the bounds and what is nested,
  and passes from a field to its type because merging only tightens (`FieldWithin`).

The invariant of `Snapshot` says that the history of a session does not matter: the namespace is the saved
one, or what was recovered of its snapshot. The rest is about one namespace and its snapshot
(`SnapshotHas`, `RecoveredHas`, `LossIsNoted`): what is missing was left out at the dump, failed at the
load or failed when its source ran again, and each of these has its note. With `RoundTrips` no sequence of
cells, deletions and restarts, each of which makes recipes of classes that were rebuilt themselves,
changes what a name stands for, so what holds of the class an author wrote holds of what the name has.

Model-checked only are the liveness properties `CloseReturns`, `CellReturns`, `CloseFreesWorker`,
`LeftoverDies`, `LoopEnds`, `CallsEnd` and `CallsReturn`: TLAPS has no rules for fairness and ENABLED that
the installed provers could use. Every other property of a passing run is proved.

## Not modelled, and the plan

In this order:

1. `SourceEdits` (`policy/edits.py`) and `ToolCache` (the sanitized tools of `base_model_backend.py`):
   pure algorithms against reference definitions over bounded inputs.
2. The identity of constraints in `Snapshot`. Each recipe is rebuilt on its own, so two names of one
   class, or a class nested in another, become distinct classes after a restart. `ConstraintsMean`
   speaks of plain values, for which they are equal.

What the modules leave out, besides what their sections say:

* `PolicyRegistry`: the gates of branches (they are in `ParallelBranches`), linecache slots, versions
  and the call-depth cap. A redefinition with the other kind writes the linecache slot before its
  source has run (`decorator.py:160`); tracebacks are not modelled.
* `KernelSession`: a process in uninterruptible sleep (`session.py:645`), since the model's kill is
  immediate, and the session that is left to the finalizer when `PLM.__call__` raises before its `try`
  (`plm.py:251`), since garbage collection is not modelled.
* `AgentLoops`: the check of the calling frame, logs and token counts, the schema and wording of
  `llm`'s steering. Agents that branches of `parallel()` run at the same time have copies of the depth
  variable; each is a stack of its own.
* `ParallelBranches`: the routing of a branch's output, the error for a running event loop, and threads
  that a cell starts itself.
* `Constraints`: checks of texts, bytes, complex numbers and callables, `is_instance_of`, descriptions;
  classes that refer to themselves; inherited members of a subclass of a structural constraint, which
  the recipe does not have; and schema keywords of a nested field that are no bounds (`multipleOf`,
  `uniqueItems`), which an outer one overwrites, so that `BoundsExported` is about bounds.
* `Snapshot`: `copy_namespace`, the clipping of long names and notes, and file handles. A policy that
  was saved by value and fails to load is lost though its source exists, and `LostIsNamed` holds of it
  because the note names it.

Left out for good: the HTTP code of the backends, the virtual environment, file readers, prompts and
the tool declaration: translations and text, without state.

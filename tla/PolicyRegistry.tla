--------------------------- MODULE PolicyRegistry ---------------------------
(***************************************************************************)
(* The policy registry of one kernel (policy/registry.py, decorator.py,    *)
(* proxy.py, guard.py) together with the part of __main__ that can bind    *)
(* policy names, around cells (repl/kernel.py) and across a restart from a *)
(* snapshot (_repl_collect_vars of repl/prefix.py).                        *)
(*                                                                         *)
(* A policy object is an element of Objects; obj gives what the attributes *)
(* of each live one say.  A body is the text of a policy apart from its    *)
(* name.  `held` are the objects that variables with other names refer to: *)
(* a cell can call the methods of each of them, also long after its name   *)
(* was given to another.                                                   *)
(***************************************************************************)
EXTENDS Naturals, FiniteSets, Functions

CONSTANTS
  Names,     \* names a policy may have (_reserved_name_reason accepts them)
  Boot,      \* names PREFIX installs: defaults and extras
  Sealed,    \* the ones among them it seals: _SEALED_POLICIES
  BootKind,  \* whether each boot policy is a function or a class
  Bodies,    \* source texts
  BootBody,  \* the text a boot policy is shipped with
  Fresh,     \* bound: identities for objects that cells create
  MaxOps,    \* bound: operations in one cell
  MaxHeld,   \* bound: other variables that refer to a policy
  None,      \* no entry, no binding
  Var        \* a binding to anything but the policy of that name

Kinds == {"fun", "cls"}
Objects == Boot \cup Fresh   \* PREFIX's object for the name n is n itself
Policies == [name : Names, kind : Kinds, body : Bodies, frozen : BOOLEAN]

ASSUME ConstantsAssumption ==
  /\ Sealed \subseteq Boot /\ Boot \subseteq Names
  /\ BootKind \in [Boot -> Kinds]
  /\ BootBody \in Bodies
  /\ Fresh \cap Names = {}
  /\ MaxOps \in Nat /\ MaxHeld \in Nat
  /\ None \notin Names \cup Fresh \cup Policies /\ Var \notin Names \cup Fresh \cup {None}

VARIABLES
  store,   \* _PLM_POLICIES
  main,    \* the bindings of Names in __main__
  obj,     \* the attributes of the live policy objects
  held,    \* objects that other variables refer to
  phase,   \* a cell runs, or the kernel waits ("restarted": no cell has ended yet)
  ops,     \* operations of the running cell so far
  noted,   \* policies the note of the last rehydrate names as lost
  oversize \* history: names it restored a policy for, whose variable was too large

vars == <<store, main, obj, held, phase, ops, noted, oversize>>

(***************************************************************************)
(* The protection of _PolicyStore: `frozen` is the flag _p_immutable,      *)
(* which a cell may set on a class; the names in Sealed are the anchor.    *)
(***************************************************************************)
IsSealedObj(st, o) == \E n \in Sealed : st[n] = o
\* Mutated: the flag alone decides.
IsDefault_FlagOnly(st, o) == o # None /\ obj[o].frozen

IsDefault(st, o) == o # None /\ (obj[o].frozen \/ IsSealedObj(st, o))

Put(st, n, o) == IF IsDefault(st, st[n]) THEN st ELSE [st EXCEPT ![n] = o]
\* Mutated: an entry that is popped leaves a value behind.
Pop_LeavesValue(st, n) == IF IsDefault(st, st[n]) THEN st ELSE [st EXCEPT ![n] = Var]

Pop(st, n) == IF IsDefault(st, st[n]) THEN st ELSE [st EXCEPT ![n] = None]

\* Mutated: a name that is bound to something else counts as deleted.
Sync_EvictsRebound(st) == [n \in Names |-> IF n \notin Sealed /\ main[n] # st[n]
                                             THEN Pop(st, n)[n] ELSE st[n]]

\* _sync, which the by-name operations and duplicate_policy begin with.
Sync(st) == [n \in Names |-> IF n \notin Sealed /\ main[n] = None
                               THEN Pop(st, n)[n] ELSE st[n]]

Reachable == {o \in Objects : (\E n \in Names : o \in {store[n], main[n]}) \/ o \in held}
Unused == {o \in Objects : obj[o] = None}
NameFree(st, n) == st[n] = None /\ main[n] = None

Op == phase = "cell" /\ ops < MaxOps /\ ops' = ops + 1 /\ UNCHANGED <<phase, noted, oversize>>

(***************************************************************************)
(* Steps the operations share, from the registry st that they start with.  *)
(***************************************************************************)
\* Mutated: a rename leaves the old entry.
EditInPlace_KeepsOldName(st, o, m, b) ==
  /\ obj' = [obj EXCEPT ![o] = [@ EXCEPT !.name = m, !.body = b]]
  /\ store' = Put(st, m, o)

\* The object takes the new text, and the name that is in it.
EditInPlace(st, o, m, b) ==
  LET old == obj[o].name IN
    /\ obj' = [obj EXCEPT ![o] = [name |-> m, kind |-> @.kind, body |-> b, frozen |-> @.frozen]]
    /\ store' = Put(IF m = old THEN st ELSE Pop(st, old), m, o)

\* A class whose metaclass, slots or bases changed is replaced by a new object.
Recreate(st, o, m, b, q) ==
  LET old == obj[o].name IN
    /\ obj' = [obj EXCEPT ![q] = [name |-> m, kind |-> "cls", body |-> b, frozen |-> FALSE]]
    /\ store' = Put(Pop(st, old), m, q)

\* The end of `policy`, for a name that has no policy of this kind.
Install(st, n, k, b, q) ==
  /\ obj' = [obj EXCEPT ![q] = [name |-> n, kind |-> k, body |-> b, frozen |-> FALSE]]
  /\ store' = Put(st, n, q)
  /\ main' = [main EXCEPT ![n] = q]

\* _rewrite, to which _edit, _insert and _delete_lines lead.  Refusals other
\* than those of the guard here leave everything as it is.
Rewrite(st, o, m, b) ==
  LET old == obj[o].name IN
    /\ ~IsDefault(st, o)
    /\ m # old => NameFree(st, m)
    /\ \/ /\ EditInPlace(st, o, m, b)
          /\ main' = IF m = old THEN main ELSE [main EXCEPT ![old] = None, ![m] = o]
       \/ /\ obj[o].kind = "cls"
          /\ \E q \in Unused :
               /\ Recreate(st, o, m, b, q)
               /\ main' = [main EXCEPT ![old] = None, ![m] = q]

\* _remove: the name of the object is taken out, whatever it stands for by now.
Remove(st, o) ==
  LET n == obj[o].name IN
    /\ ~IsDefault(st, o)
    /\ store' = Pop(st, n)
    /\ main' = [main EXCEPT ![n] = None]
    /\ UNCHANGED obj

(***************************************************************************)
(* What a cell does.                                                       *)
(***************************************************************************)
\* @policy on a name whose policy is protected: the binding is put back.
DefineRefused(n) ==
  /\ Op /\ IsDefault(store, store[n])
  /\ main' = [main EXCEPT ![n] = store[n]]
  /\ UNCHANGED <<store, obj, held>>

\* Mutated: the name is bound to the policy that was there before.
Redefine_BindsOld(n, b) ==
  LET o == store[n] IN
    /\ Op /\ o # None /\ ~IsDefault(store, o)
    /\ \/ EditInPlace(store, o, n, b)
       \/ obj[o].kind = "cls" /\ \E q \in Unused : Recreate(store, o, n, b, q)
    /\ main' = [main EXCEPT ![n] = o]
    /\ UNCHANGED held

\* @policy on a name that has a policy of this kind: a rewrite of that policy,
\* after which the name is bound to what the registry has now.
Redefine(n, b) ==
  LET o == store[n] IN
    /\ Op /\ o # None /\ ~IsDefault(store, o)
    /\ \/ EditInPlace(store, o, n, b)
       \/ obj[o].kind = "cls" /\ \E q \in Unused : Recreate(store, o, n, b, q)
    /\ main' = [main EXCEPT ![n] = store'[n]]
    /\ UNCHANGED held

NeedsInstall(n, k) ==
  store[n] # None => obj[store[n]].kind # k /\ ~IsDefault(store, store[n])

Define(n, k, b) ==
  /\ Op /\ NeedsInstall(n, k)
  /\ \E q \in Unused : Install(store, n, k, b, q)
  /\ UNCHANGED held

\* A method of an object the cell refers to, under its name or another.
HandleRewrite(o, m, b) ==
  Op /\ o \in Reachable /\ Rewrite(store, o, m, b) /\ UNCHANGED held

HandleRemove(o) ==
  Op /\ o \in Reachable /\ Remove(store, o) /\ UNCHANGED held

\* rewrite_policy, edit_policy, insert_into, delete_lines; delete_policy.
ByNameRewrite(n, m, b) ==
  LET st == Sync(store) IN
    Op /\ st[n] # None /\ Rewrite(st, st[n], m, b) /\ UNCHANGED held

ByNameRemove(n) ==
  LET st == Sync(store) IN
    Op /\ st[n] # None /\ Remove(st, st[n]) /\ UNCHANGED held

\* Any other use of the by-name surface: list, get, read, or a refusal.
SyncOnly ==
  Op /\ store' = Sync(store) /\ UNCHANGED <<main, obj, held>>

Duplicate(n, m) ==
  LET st == Sync(store) IN
    /\ Op /\ st[n] # None /\ n \notin Sealed /\ NameFree(st, m)
    /\ \E q \in Unused : Install(st, m, obj[st[n]].kind, obj[st[n]].body, q)
    /\ UNCHANGED held

\* Writes to __main__ that Guard A does not see: globals()[n] = ..., del n.
Bind(n) ==
  /\ Op /\ main' = [main EXCEPT ![n] = Var]
  /\ UNCHANGED <<store, obj, held>>

Unbind(n) ==
  /\ Op /\ main[n] # None /\ main' = [main EXCEPT ![n] = None]
  /\ UNCHANGED <<store, obj, held>>

\* Another variable is made to refer to a policy; what it held before may go.  An
\* alias of a sealed one reaches no more than its name does.
Hold(o) ==
  /\ Op /\ o \in Reachable \ (held \cup Sealed)
  /\ \E rest \in SUBSET held : Cardinality(rest) < MaxHeld /\ held' = rest \cup {o}
  /\ UNCHANGED <<store, main, obj>>

\* A cell writes _p_immutable: on a class, which is a plain type, or on a function
\* that is not protected yet (__setattr__).
FlipFlag(o) ==
  /\ Op /\ o \in Reachable /\ (obj[o].kind = "cls" \/ ~obj[o].frozen)
  /\ obj' = [obj EXCEPT ![o].frozen = ~@]
  /\ UNCHANGED <<store, main, held>>

(***************************************************************************)
(* Around the cell.                                                        *)
(***************************************************************************)
StartCell ==
  /\ phase # "cell" /\ phase' = "cell" /\ ops' = 0 /\ noted' = {} /\ oversize' = {}
  /\ UNCHANGED <<store, main, obj, held>>

\* Guard C: a protected policy comes back, another whose name is unbound goes,
\* and a name that is bound otherwise is bound to its policy again.
GuardedStore ==
  [n \in Names |-> IF main[n] = None /\ ~IsDefault(store, store[n]) THEN None ELSE store[n]]
\* Mutated: Guard C binds protected names only.
GuardedMain_ProtectedOnly ==
  [n \in Names |-> IF IsDefault(store, GuardedStore[n]) THEN GuardedStore[n] ELSE main[n]]

GuardedMain ==
  LET st == GuardedStore IN [n \in Names |-> IF st[n] # None THEN st[n] ELSE main[n]]

\* The end of a cell: Guard C, then the snapshot, which is what this step leaves.
\* What nothing refers to is gone.
EndCell ==
  /\ phase = "cell" /\ phase' = "idle" /\ ops' = 0
  /\ store' = GuardedStore /\ main' = GuardedMain
  /\ obj' = [o \in Objects |->
               IF o \in held \/ \E n \in Names : o \in {store'[n], main'[n]}
                 THEN obj[o] ELSE None]
  /\ UNCHANGED <<held, noted, oversize>>

(***************************************************************************)
(* A kernel boots.  PREFIX installs the boot policies; a rehydrate, if     *)
(* there is a snapshot, then puts its registry in their place.             *)
(***************************************************************************)
BootPolicy(n) == [name |-> n, kind |-> BootKind[n], body |-> BootBody, frozen |-> n \in Sealed]
AtBoot(n) == IF n \in Boot THEN n ELSE None

\* What the snapshot keeps, if `pickled` are the objects that dill can save, and
\* `light` those among them that are not too large for a variable: policies by
\* value, whatever their size, the other policies by their source, and variables.
ByValue(pickled)   == {n \in Names \ Sealed : store[n] \in pickled}
\* Mutated: a policy that dill cannot save is left out.
BySource_None(pickled) == {}

BySource(pickled)  == {n \in Names \ Sealed : store[n] # None} \ ByValue(pickled)
SavedVars(light)   == {n \in Names \ Sealed : main[n] \in light}

\* Mutated: update() without clear().
Reconciled_NotCleared(kept) ==
  [n \in Names |-> IF n \in Sealed THEN n ELSE IF n \in kept THEN store[n] ELSE AtBoot(n)]

\* The registry after clear(), update() and the forced sealed entries.
Reconciled(kept) ==
  [n \in Names |-> IF n \in Sealed THEN n ELSE IF n \in kept THEN store[n] ELSE None]

\* Where PREFIX's own binding stays: no variable takes its place, and it is not
\* reaped, because the registry has a policy of that name.
PrefixBound(kept, saved) == (kept \ saved) \cap Boot

\* The rehydrate: `kept` are the policies restored by value, `rebuilt` those from
\* source, and `values` the names with another value.  `copy` says which object each
\* other name is bound to, the one of a variable in `saved` or PREFIX's own, and
\* `alias` what each held object that comes back has become.
Rehydrate(kept, rebuilt, saved, values, copy, alias) ==
  /\ store' = [n \in Names |-> IF n \in rebuilt THEN store[n] ELSE Reconciled(kept)[n]]
  /\ main' = [n \in Names |-> IF n \in Sealed THEN n
                             ELSE IF n \in rebuilt THEN store[n]
                             ELSE IF n \in DOMAIN copy THEN copy[n]
                             ELSE IF n \in values THEN Var ELSE None]
  /\ held' = Range(alias)
  /\ obj' = [o \in Objects |->
               IF o \in Sealed THEN BootPolicy(o)
               ELSE IF \E n \in rebuilt : o = store[n] THEN [obj[o] EXCEPT !.frozen = FALSE]
               ELSE IF o \in Range(copy)
                 THEN LET n == CHOOSE n \in DOMAIN copy : o = copy[n]
                      IN  IF n \in saved THEN obj[main[n]] ELSE BootPolicy(n)
               ELSE IF o \in Range(alias) THEN obj[CHOOSE h \in DOMAIN alias : o = alias[h]]
               ELSE IF \E n \in kept : o = store[n] THEN obj[o]
               ELSE None]
  /\ oversize' = kept \ saved

\* The kernel dies, before the next cell or at any point of it, and another one is
\* restored.  Nothing but the snapshot survives, so this is a step from the state
\* the snapshot was taken in: all that later cells did without an answer is gone,
\* as is a kernel that was restored from the same snapshot and died again.
Respawn == phase = "idle" /\ phase' = "restarted" /\ UNCHANGED ops

\* What is left open: the policies that are lost, at the load or with their source,
\* and the objects that dill can save, those among them that are not too large, and
\* the names whose other value comes back.
Registered == {n \in Names \ Sealed : store[n] # None}
Savable(lost) == (Reachable \ Sealed) \ {store[n] : n \in lost}
Values == {n \in Names : main[n] = Var}

\* The combined blob loads, and objects keep their identity.  A source may fail to
\* run again.
Restart ==
  /\ Respawn
  /\ \E lost \in SUBSET Registered : \E pickled \in SUBSET Savable(lost) :
     \E light \in SUBSET pickled, values \in SUBSET Values :
       LET kept == ByValue(pickled)
           rebuilt == BySource(pickled) \ lost
           saved == SavedVars(light)
           others == Objects \ (Sealed \cup light \cup {store[n] : n \in kept \cup rebuilt})
       IN /\ \E own \in [PrefixBound(kept, saved) -> others] :
               /\ IsInjective(own)
               /\ Rehydrate(kept, rebuilt, saved, values,
                            [n \in saved \cup DOMAIN own |-> IF n \in saved THEN main[n] ELSE own[n]],
                            [o \in held \cap light |-> o])
          /\ noted' = lost

\* It does not: each object is loaded alone, if it can be, so that variables and the
\* registry no longer refer to the same one.
RestartPiecemeal ==
  /\ Respawn
  /\ \E lost \in SUBSET Registered : \E pickled \in SUBSET Savable(lost) :
     \E light \in SUBSET pickled, values \in SUBSET Values :
       LET kept == ByValue(pickled)
           rebuilt == BySource(pickled) \ lost
           saved == SavedVars(light)
           others == Objects \ (Sealed \cup {store[n] : n \in kept \cup rebuilt})
       IN /\ \E copy \in [saved \cup PrefixBound(kept, saved) -> others],
                alias \in [held \cap light -> others] :
               /\ IsInjective(copy) /\ IsInjective(alias) /\ Range(copy) \cap Range(alias) = {}
               /\ Rehydrate(kept, rebuilt, saved, values, copy, alias)
          /\ noted' = lost

Init ==
  /\ store = [n \in Names |-> AtBoot(n)] /\ main = store
  /\ obj = [o \in Objects |-> IF o \in Boot THEN BootPolicy(o) ELSE None]
  /\ held = {}
  /\ phase = "restarted" /\ ops = 0 /\ noted = {} /\ oversize = {}

Next ==
  \/ StartCell \/ EndCell \/ SyncOnly
  \/ \E n \in Names : DefineRefused(n) \/ Bind(n) \/ Unbind(n) \/ ByNameRemove(n)
  \/ \E n, m \in Names : Duplicate(n, m)
  \/ \E n \in Names, b \in Bodies : Redefine(n, b)
  \/ \E n \in Names, k \in Kinds, b \in Bodies : Define(n, k, b)
  \/ \E n, m \in Names, b \in Bodies : ByNameRewrite(n, m, b)
  \/ \E o \in Objects : HandleRemove(o) \/ Hold(o) \/ FlipFlag(o)
  \/ \E o \in Objects, m \in Names, b \in Bodies : HandleRewrite(o, m, b)
  \/ Restart \/ RestartPiecemeal

Spec == Init /\ [][Next]_vars

(***************************************************************************)
(* Properties                                                              *)
(***************************************************************************)
Entries == [Names -> Objects \cup {None}]
Bindings == [Names -> Objects \cup {None, Var}]
Attributes == [Objects -> Policies \cup {None}]

\* Every variable has its type: entries are objects, attributes are well formed.
TypeOK ==
  /\ store \in Entries
  /\ main \in Bindings
  /\ obj \in Attributes
  /\ held \in SUBSET Objects
  /\ phase \in {"idle", "cell", "restarted"}
  /\ ops \in 0 .. MaxOps
  /\ noted \in SUBSET Names
  /\ oversize \in SUBSET Names

\* A sealed name stands for the object PREFIX installed, with the kind and the text
\* it was shipped with, whatever cells call, bind, unbind or flip, and whatever a
\* snapshot holds (registry.py:14-17, "immutable AND un-duplicable").
SealHolds ==
  \A n \in Sealed :
    /\ store[n] = n
    /\ obj[n] # None /\ obj[n].kind = BootKind[n] /\ obj[n].body = BootBody

\* An entry of the registry is a live object that bears the name it is under
\* (proxy.py:468-472): a rename leaves no entry, and no object has two names.
RegisteredUnderOwnName ==
  \A n \in Names : store[n] # None => obj[store[n]] # None /\ obj[store[n]].name = n

\* When a cell starts, a registered name is bound to a policy with that name, kind
\* and text: calling the name and reading the registry agree (guard.py:14-18), also
\* after a restart that could not keep the identity of objects.  Up to the end of the
\* first cell after a restart they need not for a policy that was too large for a
\* variable (prefix.py:196-197): it is registered, its name is not bound to it, and
\* Guard C may then take it for deleted.
MainAgrees ==
  phase # "cell" =>
    \A n \in Names \ oversize : store[n] # None =>
      /\ main[n] \in Objects
      /\ obj[main[n]] # None
      /\ [obj[main[n]] EXCEPT !.frozen = FALSE] = [obj[store[n]] EXCEPT !.frozen = FALSE]

\* A policy of the snapshot is registered again by the restart with the kind and the
\* text it had, or the note names it (kernel.py:217-218, 337, "must NOT vanish
\* silently").
RestartKeepsPolicies ==
  [][phase' = "restarted" =>
       \A n \in Names \ noted' : store[n] # None =>
         /\ store'[n] # None
         /\ obj'[store'[n]].kind = obj[store[n]].kind
         /\ obj'[store'[n]].body = obj[store[n]].body]_vars

\* A boot policy that had been deleted or renamed does not come back with the new
\* kernel, nor does its binding (kernel.py:301-313); another value bound to it since
\* stays, if the snapshot has it.
DeletedStaysDeleted ==
  [][phase' = "restarted" =>
       \A n \in Names : store[n] = None =>
         /\ store'[n] = None
         /\ main[n] \in {None, Var} => main'[n] \in {main[n], None}]_vars

\* An operation that is a step of @policy leaves the name bound to what the registry
\* holds under it, also when the class had to be replaced (decorator.py:140-149).
DefineBindsCanonical ==
  [][Op => \A n \in Names :
       store'[n] = None \/ main'[n] # store'[n] =>
         /\ ~DefineRefused(n)
         /\ \A b \in Bodies : ~Redefine(n, b)
         /\ \A k \in Kinds, b \in Bodies : ~Define(n, k, b)]_vars

\* While a kernel lives, a name leaves the registry only if it is unbound before or
\* after the step: a rebinding is undone by Guard C, it never costs the policy
\* (registry.py:326-330).
NeverEvictedWhileBound ==
  [][phase' # "restarted" =>
       \A n \in Names : store[n] # None /\ store'[n] = None =>
         main[n] = None \/ main'[n] = None]_vars

\* An edit through one object does not cost another policy the name it is registered
\* and bound under (proxy.py:428-431, "must not CLOBBER another policy", and 472,
\* "in-place edit: same key+value").  It does when a newer policy has the name of an
\* object that is still referred to.
EditKeepsOtherPolicies ==
  [][\A o \in Objects, m \in Names, b \in Bodies :
       HandleRewrite(o, m, b) =>
         \A n \in Names : store[n] \notin {None, o} /\ main[n] = store[n] =>
           store'[n] = store[n]]_vars

\* The invariant the proofs use: besides the parts above, what a cell can reach is
\* a live object, so that no operation creates a new one in its place.
AllReachableLive ==
  /\ \A o \in held : obj[o] # None
  /\ \A n \in Names : store[n] # None => obj[store[n]] # None
  /\ \A n \in Names : main[n] \in Objects => obj[main[n]] # None

IInv == TypeOK /\ SealHolds /\ RegisteredUnderOwnName /\ AllReachableLive
=============================================================================

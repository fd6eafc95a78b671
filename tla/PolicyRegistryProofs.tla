------------------------ MODULE PolicyRegistryProofs ------------------------
(***************************************************************************)
(* Proofs about PolicyRegistry: its invariant IInv, and with it the seal   *)
(* and the names of the registry, for all names, policies and numbers of   *)
(* operations.                                                             *)
(*                                                                         *)
(* The operations write the registry and the attributes in one step, most  *)
(* of them from what Sync leaves, so the argument is about a registry st   *)
(* and attributes ob in general (Reg, Sound), through Pop and Sync, then   *)
(* through the three ways to write a policy, then one lemma per action.    *)
(***************************************************************************)
EXTENDS PolicyRegistry, TLAPS

\* The parts of IInv that are about a registry and the attributes.
Reg(st, ob) ==
  /\ st \in Entries
  /\ \A n \in Sealed : st[n] = n
  /\ \A n \in Names : st[n] # None => ob[st[n]] # None /\ ob[st[n]].name = n

Sound(ob) ==
  /\ ob \in Attributes
  /\ \A n \in Sealed : ob[n] # None /\ ob[n].kind = BootKind[n] /\ ob[n].body = BootBody

\* What is live stays live.
Lives(ob) == \A o \in Objects : obj[o] # None => ob[o] # None

\* The parts of the types that are not about the registry and the attributes.
OtherTypes ==
  /\ phase \in {"idle", "cell", "restarted"} /\ ops \in 0 .. MaxOps
  /\ noted \in SUBSET Names /\ oversize \in SUBSET Names

LiveRefs(mn, hd, ob) ==
  /\ mn \in Bindings
  /\ hd \in SUBSET Objects
  /\ \A o \in hd : ob[o] # None
  /\ \A n \in Names : mn[n] \in Objects => ob[mn[n]] # None

\* IInv says as much.
LEMMA IInvParts ==
  IInv <=> Reg(store, obj) /\ Sound(obj) /\ LiveRefs(main, held, obj) /\ OtherTypes
BY DEF IInv, TypeOK, SealHolds, RegisteredUnderOwnName, AllReachableLive, Reg, Sound, LiveRefs,
       OtherTypes

LEMMA IInvPartsNext ==
  IInv' <=> Reg(store', obj') /\ Sound(obj') /\ LiveRefs(main', held', obj') /\ OtherTypes'
BY DEF IInv, TypeOK, SealHolds, RegisteredUnderOwnName, AllReachableLive, Reg, Sound, LiveRefs,
       OtherTypes

\* The special values are no objects, and the sealed names are.
LEMMA Specials ==
  /\ None \notin Objects /\ None \notin Policies /\ Var \notin Objects /\ Var # None
  /\ Sealed \subseteq Objects /\ Sealed \subseteq Names /\ Boot \subseteq Objects
BY ConstantsAssumption DEF Objects

\* An object that is not protected is not a sealed one.
LEMMA UnprotectedNotSealed ==
  ASSUME NEW st, NEW o \in Objects, Reg(st, obj), ~IsDefault(st, o)
  PROVE  o \notin Sealed
BY Specials DEF Reg, IsDefault, IsSealedObj

\* A pop takes out the entry or, if it is protected, nothing.
LEMMA PopReg ==
  ASSUME NEW st, NEW n \in Names, Reg(st, obj)
  PROVE  /\ Reg(Pop(st, n), obj)
         /\ \A k \in Names \ {n} : Pop(st, n)[k] = st[k]
         /\ Pop(st, n)[n] = IF IsDefault(st, st[n]) THEN st[n] ELSE None
BY Specials DEF Reg, Pop, Entries, IsDefault, IsSealedObj

\* Sync takes out entries whose names are unbound.
LEMMA SyncReg ==
  ASSUME Reg(store, obj)
  PROVE  /\ Reg(Sync(store), obj)
         /\ \A n \in Names : Sync(store)[n] = store[n] \/ (Sync(store)[n] = None /\ main[n] = None)
<1>1. \A n \in Names : Pop(store, n)[n] \in {store[n], None}
  BY PopReg
<1>2. Sync(store) = [n \in Names |-> IF n \notin Sealed /\ main[n] = None
                                       THEN Pop(store, n)[n] ELSE store[n]]
  BY DEF Sync
<1>3. \A n \in Names : Sync(store)[n] = store[n] \/ (Sync(store)[n] = None /\ main[n] = None)
  BY <1>1, <1>2
<1>4. Sync(store) \in Entries
  BY <1>1, <1>2 DEF Reg, Entries
<1>5. \A n \in Sealed : Sync(store)[n] = n
  BY <1>2, Specials DEF Reg
<1> QED
  BY <1>3, <1>4, <1>5 DEF Reg

-----------------------------------------------------------------------------
(* The three ways to write a policy. *)

\* What a write leaves: a good registry, and no name lost but the one that was
\* renamed.
Written(st, old, m) ==
  /\ Reg(store', obj') /\ Sound(obj') /\ Lives(obj')
  /\ \A n \in Names : store'[n] = None => st[n] = None \/ (n = old /\ m # old)

\* Put enters an object that bears the name, unless the name is protected.
LEMMA PutCases ==
  ASSUME NEW st \in Entries, NEW n \in Names, NEW o \in Objects
  PROVE  /\ Put(st, n, o) \in Entries
         /\ \A k \in Names \ {n} : Put(st, n, o)[k] = st[k]
         /\ Put(st, n, o)[n] = IF IsDefault(st, st[n]) THEN st[n] ELSE o
BY DEF Put, Entries

\* They all give an object its attributes and put it under the name in them, after
\* they took out the entry it may have under another.
LEMMA WriteObject ==
  ASSUME NEW st, NEW m \in Names, NEW o \in Objects, NEW p \in Policies,
         Reg(st, obj), Sound(obj), o \notin Sealed, p.name = m,
         \A n \in Names \ {m} : st[n] # o,
         st[m] = o => ~IsDefault(st, o),
         obj' = [obj EXCEPT ![o] = p], store' = Put(st, m, o)
  PROVE  /\ Reg(store', obj') /\ Sound(obj') /\ Lives(obj') /\ obj'[o] # None
         /\ \A n \in Names \ {m} : store'[n] = st[n]
         /\ store'[m] # None
<1>1. p # None
  BY Specials
<1>2. obj' \in Attributes /\ obj'[o] = p /\ \A x \in Objects \ {o} : obj'[x] = obj[x]
  BY DEF Sound, Attributes
<1>3. Sound(obj') /\ Lives(obj')
  BY <1>1, <1>2, Specials DEF Sound, Lives
<1>4. /\ store' \in Entries
      /\ \A n \in Names \ {m} : store'[n] = st[n]
      /\ store'[m] = IF IsDefault(st, st[m]) THEN st[m] ELSE o
  BY PutCases DEF Reg
<1>5. \A n \in Sealed : store'[n] = n
  BY <1>4, Specials DEF Reg, IsDefault, IsSealedObj
<1>6. \A n \in Names \ {m} : st[n] # None => obj'[st[n]] = obj[st[n]]
  BY <1>2 DEF Reg, Entries
<1>7. store'[m] # None /\ obj'[store'[m]] # None /\ obj'[store'[m]].name = m
  <2>1. CASE IsDefault(st, st[m])
    <3>1. st[m] # None /\ st[m] # o /\ st[m] \in Objects
      BY <2>1 DEF IsDefault, Reg, Entries
    <3> QED
      BY <1>2, <1>4, <2>1, <3>1 DEF Reg
  <2>2. CASE ~IsDefault(st, st[m])
    BY <1>1, <1>2, <1>4, <2>2, Specials
  <2> QED
    BY <2>1, <2>2
<1>8. Reg(store', obj')
  BY <1>4, <1>5, <1>6, <1>7 DEF Reg
<1> QED
  BY <1>1, <1>2, <1>3, <1>4, <1>7, <1>8

\* A new identity is not in the registry.
LEMMA UnusedFacts ==
  ASSUME NEW st, NEW q \in Unused, Reg(st, obj), Sound(obj)
  PROVE  q \in Objects /\ q \notin Sealed /\ \A n \in Names : st[n] # q
BY Specials DEF Unused, Reg, Sound

LEMMA InstallWrites ==
  ASSUME NEW st, NEW n \in Names, NEW k \in Kinds, NEW b \in Bodies, NEW q \in Unused,
         Reg(st, obj), Sound(obj), Install(st, n, k, b, q)
  PROVE  Written(st, n, n) /\ q \in Objects /\ obj'[q] # None
<1> DEFINE p == [name |-> n, kind |-> k, body |-> b, frozen |-> FALSE]
<1>1. p \in Policies /\ p.name = n
  BY DEF Policies
<1>2. obj' = [obj EXCEPT ![q] = p] /\ store' = Put(st, n, q)
  BY DEF Install
<1> HIDE DEF p
<1>3. q \in Objects /\ q \notin Sealed /\ \A j \in Names : st[j] # q
  BY UnusedFacts
<1>4. /\ Reg(store', obj') /\ Sound(obj') /\ Lives(obj') /\ obj'[q] # None
      /\ \A j \in Names \ {n} : store'[j] = st[j]
      /\ store'[n] # None
  BY <1>1, <1>2, <1>3, WriteObject
<1> QED
  BY <1>3, <1>4 DEF Written

LEMMA RecreateWrites ==
  ASSUME NEW st, NEW o \in Objects, NEW m \in Names, NEW b \in Bodies, NEW q \in Unused,
         Reg(st, obj), Sound(obj), obj[o] # None, Recreate(st, o, m, b, q)
  PROVE  Written(st, obj[o].name, m) /\ q \in Objects /\ obj'[q] # None
<1> DEFINE old == obj[o].name
           p == [name |-> m, kind |-> "cls", body |-> b, frozen |-> FALSE]
           st1 == Pop(st, old)
<1>1. old \in Names
  BY DEF Sound, Attributes, Policies
<1>2. Reg(st1, obj) /\ \A n \in Names \ {old} : st1[n] = st[n]
  BY <1>1, PopReg
<1>3. p \in Policies /\ p.name = m
  BY DEF Policies, Kinds
<1>4. obj' = [obj EXCEPT ![q] = p] /\ store' = Put(st1, m, q)
  BY DEF Recreate
<1> HIDE DEF p, st1, old
<1>5. q \in Objects /\ q \notin Sealed /\ \A n \in Names : st1[n] # q
  BY <1>2, UnusedFacts
<1>6. /\ Reg(store', obj') /\ Sound(obj') /\ Lives(obj') /\ obj'[q] # None
      /\ \A n \in Names \ {m} : store'[n] = st1[n]
      /\ store'[m] # None
  BY <1>2, <1>3, <1>4, <1>5, WriteObject
<1>7. Written(st, old, m)
  BY <1>2, <1>6 DEF Written
<1> QED
  BY <1>5, <1>6, <1>7 DEF old

LEMMA EditWrites ==
  ASSUME NEW st, NEW o \in Objects, NEW m \in Names, NEW b \in Bodies,
         Reg(st, obj), Sound(obj), obj[o] # None, ~IsDefault(st, o),
         EditInPlace(st, o, m, b)
  PROVE  Written(st, obj[o].name, m)
<1> DEFINE old == obj[o].name
           p == [name |-> m, kind |-> obj[o].kind, body |-> b, frozen |-> obj[o].frozen]
           st1 == IF m = old THEN st ELSE Pop(st, old)
<1>1. obj[o] \in Policies
  BY DEF Sound, Attributes
<1>2. old \in Names /\ p \in Policies /\ p.name = m
  BY <1>1 DEF Policies
<1>3. obj' = [obj EXCEPT ![o] = p] /\ store' = Put(st1, m, o)
  BY DEF EditInPlace
<1>4. /\ Reg(st1, obj)
      /\ \A n \in Names \ {old} : st1[n] = st[n]
      /\ m # old /\ ~IsDefault(st, st[old]) => st1[old] = None
  BY <1>2, PopReg
<1>5. o \notin Sealed
  BY UnprotectedNotSealed
<1>6. \A n \in Names \ {m} : st1[n] # o
  <2> SUFFICES ASSUME NEW n \in Names \ {m}, st1[n] = o
               PROVE  FALSE
    OBVIOUS
  <2>1. n = old /\ m # old
    BY <1>4, Specials DEF Reg
  <2>2. st1[old] = IF IsDefault(st, st[old]) THEN st[old] ELSE None
    BY <1>2, <2>1, PopReg
  <2> QED
    BY <2>1, <2>2, Specials
<1>7. st1[m] = o => ~IsDefault(st1, o)
  BY <1>2, PopReg DEF Reg, IsDefault, IsSealedObj
<1> HIDE DEF p, st1, old
<1>8. /\ Reg(store', obj') /\ Sound(obj') /\ Lives(obj')
      /\ \A n \in Names \ {m} : store'[n] = st1[n]
      /\ store'[m] # None
  BY <1>2, <1>3, <1>4, <1>5, <1>6, <1>7, WriteObject
<1>9. Written(st, old, m)
  BY <1>4, <1>8 DEF Written, st1
<1> QED
  BY <1>9 DEF old

-----------------------------------------------------------------------------
(* What a cell does. *)

\* The names a step costs are unbound before it or after it.
NoEviction == \A n \in Names : store[n] # None /\ store'[n] = None =>
                main[n] = None \/ main'[n] = None

\* What a cell can reach is live.
LEMMA ReachableLive ==
  ASSUME IInv, NEW o \in Reachable
  PROVE  o \in Objects /\ obj[o] # None
BY Specials DEF IInv, AllReachableLive, Reachable

\* Every step of a cell keeps the remaining types.
LEMMA OpTypes ==
  ASSUME OtherTypes, Op
  PROVE  OtherTypes'
BY ConstantsAssumption DEF OtherTypes, Op

\* A write keeps the references, and the new bindings are live.
LEMMA RefsKept ==
  ASSUME LiveRefs(main, held, obj), Lives(obj'), held' = held, main' \in Bindings,
         \A n \in Names : \/ main'[n] = main[n]
                          \/ main'[n] \in {None, Var}
                          \/ obj'[main'[n]] # None
  PROVE  LiveRefs(main', held', obj')
BY Specials DEF LiveRefs, Lives

LEMMA RewriteKeeps ==
  ASSUME NEW st, NEW o \in Objects, NEW m \in Names, NEW b \in Bodies,
         Reg(st, obj), Sound(obj), LiveRefs(main, held, obj), obj[o] # None,
         \A n \in Names : st[n] = store[n] \/ (st[n] = None /\ main[n] = None),
         Rewrite(st, o, m, b), held' = held
  PROVE  Reg(store', obj') /\ Sound(obj') /\ LiveRefs(main', held', obj') /\ NoEviction
<1> DEFINE old == obj[o].name
<1>1. old \in Names
  BY DEF Sound, Attributes, Policies
<1>2. main \in Bindings
  BY DEF LiveRefs
<1>3. CASE /\ EditInPlace(st, o, m, b)
           /\ main' = IF m = old THEN main ELSE [main EXCEPT ![old] = None, ![m] = o]
  <2>1. ~IsDefault(st, o)
    BY DEF Rewrite
  <2>2. Written(st, old, m)
    BY <1>3, <2>1, EditWrites
  <2>3. obj'[o] # None
    BY <2>2 DEF Written, Lives
  <2>4. main' \in Bindings
    BY <1>1, <1>2, <1>3 DEF Bindings
  <2>5. \A n \in Names : main'[n] = main[n] \/ main'[n] = None \/ main'[n] = o
    BY <1>1, <1>2, <1>3 DEF Bindings
  <2>6. LiveRefs(main', held', obj')
    BY <2>2, <2>3, <2>4, <2>5, RefsKept DEF Written
  <2>7. m # old => main'[old] = None
    BY <1>1, <1>2, <1>3 DEF Bindings
  <2> QED
    BY <2>2, <2>6, <2>7 DEF Written, NoEviction
<1>4. ASSUME NEW q \in Unused, Recreate(st, o, m, b, q),
             main' = [main EXCEPT ![old] = None, ![m] = q]
      PROVE  Reg(store', obj') /\ Sound(obj') /\ LiveRefs(main', held', obj') /\ NoEviction
  <2>1. Written(st, old, m) /\ q \in Objects /\ obj'[q] # None
    BY <1>4, RecreateWrites
  <2>2. main' \in Bindings
    BY <1>1, <1>2, <1>4, <2>1 DEF Bindings
  <2>3. \A n \in Names : main'[n] = main[n] \/ main'[n] = None \/ main'[n] = q
    BY <1>1, <1>2, <1>4 DEF Bindings
  <2>4. LiveRefs(main', held', obj')
    BY <2>1, <2>2, <2>3, RefsKept DEF Written
  <2>5. m # old => main'[old] = None
    BY <1>1, <1>2, <1>4 DEF Bindings
  <2> QED
    BY <2>1, <2>4, <2>5 DEF Written, NoEviction
<1> QED
  BY <1>3, <1>4 DEF Rewrite

LEMMA RemoveKeeps ==
  ASSUME NEW st, NEW o \in Objects,
         Reg(st, obj), Sound(obj), LiveRefs(main, held, obj), obj[o] # None,
         \A n \in Names : st[n] = store[n] \/ (st[n] = None /\ main[n] = None),
         Remove(st, o), held' = held
  PROVE  Reg(store', obj') /\ Sound(obj') /\ LiveRefs(main', held', obj') /\ NoEviction
<1> DEFINE n == obj[o].name
<1>1. n \in Names
  BY DEF Sound, Attributes, Policies
<1>2. /\ Reg(store', obj)
      /\ \A k \in Names \ {n} : store'[k] = st[k]
  BY <1>1, PopReg DEF Remove
<1>3. main \in Bindings /\ main' = [main EXCEPT ![n] = None] /\ obj' = obj
  BY DEF LiveRefs, Remove
<1>4. main' \in Bindings /\ main'[n] = None /\ \A k \in Names \ {n} : main'[k] = main[k]
  BY <1>1, <1>3 DEF Bindings
<1>5. LiveRefs(main', held', obj')
  BY <1>3, <1>4, RefsKept DEF Lives
<1>6. NoEviction
  BY <1>2, <1>4 DEF NoEviction
<1> QED
  BY <1>2, <1>3, <1>5, <1>6

\* The by-name operations begin with Sync.
LEMMA SyncedFacts ==
  ASSUME IInv
  PROVE  /\ Reg(Sync(store), obj) /\ Reg(store, obj) /\ Sound(obj)
         /\ LiveRefs(main, held, obj) /\ OtherTypes
         /\ \A n \in Names :
              /\ Sync(store)[n] = store[n] \/ (Sync(store)[n] = None /\ main[n] = None)
              /\ Sync(store)[n] # None => Sync(store)[n] \in Objects /\ obj[Sync(store)[n]] # None
BY SyncReg, IInvParts DEF Reg, Entries

LEMMA HandleRewriteKeeps ==
  ASSUME IInv, NEW o \in Objects, NEW m \in Names, NEW b \in Bodies, HandleRewrite(o, m, b)
  PROVE  IInv' /\ NoEviction
BY SyncedFacts, ReachableLive, RewriteKeeps, OpTypes, IInvPartsNext DEF HandleRewrite

LEMMA HandleRemoveKeeps ==
  ASSUME IInv, NEW o \in Objects, HandleRemove(o)
  PROVE  IInv' /\ NoEviction
BY SyncedFacts, ReachableLive, RemoveKeeps, OpTypes, IInvPartsNext DEF HandleRemove

LEMMA ByNameRewriteKeeps ==
  ASSUME IInv, NEW n \in Names, NEW m \in Names, NEW b \in Bodies, ByNameRewrite(n, m, b)
  PROVE  IInv' /\ NoEviction
<1> DEFINE st == Sync(store)
<1>1. Op /\ st[n] # None /\ Rewrite(st, st[n], m, b) /\ held' = held
  BY DEF ByNameRewrite
<1> HIDE DEF st
<1>2. /\ Reg(st, obj) /\ Sound(obj) /\ LiveRefs(main, held, obj) /\ OtherTypes
      /\ \A k \in Names : st[k] = store[k] \/ (st[k] = None /\ main[k] = None)
      /\ st[n] \in Objects /\ obj[st[n]] # None
  BY <1>1, SyncedFacts DEF st
<1>3. Reg(store', obj') /\ Sound(obj') /\ LiveRefs(main', held', obj') /\ NoEviction
  BY <1>1, <1>2, RewriteKeeps
<1> QED
  BY <1>1, <1>2, <1>3, OpTypes, IInvPartsNext

LEMMA ByNameRemoveKeeps ==
  ASSUME IInv, NEW n \in Names, ByNameRemove(n)
  PROVE  IInv' /\ NoEviction
<1> DEFINE st == Sync(store)
<1>1. Op /\ st[n] # None /\ Remove(st, st[n]) /\ held' = held
  BY DEF ByNameRemove
<1> HIDE DEF st
<1>2. /\ Reg(st, obj) /\ Sound(obj) /\ LiveRefs(main, held, obj) /\ OtherTypes
      /\ \A k \in Names : st[k] = store[k] \/ (st[k] = None /\ main[k] = None)
      /\ st[n] \in Objects /\ obj[st[n]] # None
  BY <1>1, SyncedFacts DEF st
<1>3. Reg(store', obj') /\ Sound(obj') /\ LiveRefs(main', held', obj') /\ NoEviction
  BY <1>1, <1>2, RemoveKeeps
<1> QED
  BY <1>1, <1>2, <1>3, OpTypes, IInvPartsNext

LEMMA SyncOnlyKeeps ==
  ASSUME IInv, SyncOnly
  PROVE  IInv' /\ NoEviction
<1>1. Op /\ store' = Sync(store) /\ main' = main /\ obj' = obj /\ held' = held
  BY DEF SyncOnly
<1> QED
  BY <1>1, SyncedFacts, OpTypes, IInvPartsNext DEF NoEviction

\* A binding to what the registry has, which an object of the same name may have
\* been put in.
LEMMA BindEntry ==
  ASSUME NEW n \in Names, LiveRefs(main, held, obj), Reg(store', obj'), Lives(obj'),
         held' = held, main' = [main EXCEPT ![n] = store'[n]]
  PROVE  LiveRefs(main', held', obj')
<1>1. main' \in Bindings
  BY DEF LiveRefs, Reg, Entries, Bindings
<1>2. \A k \in Names : main'[k] = main[k] \/ main'[k] = None \/ obj'[main'[k]] # None
  BY DEF LiveRefs, Reg, Bindings
<1> QED
  BY <1>1, <1>2, RefsKept

LEMMA DefineRefusedKeeps ==
  ASSUME IInv, NEW n \in Names, DefineRefused(n)
  PROVE  IInv' /\ NoEviction
<1>1. Op /\ main' = [main EXCEPT ![n] = store'[n]] /\ store' = store /\ obj' = obj /\ held' = held
  BY DEF DefineRefused
<1>2. Reg(store', obj') /\ Sound(obj') /\ Lives(obj') /\ OtherTypes'
  BY <1>1, SyncedFacts, OpTypes DEF Lives
<1>3. LiveRefs(main', held', obj')
  BY <1>1, <1>2, SyncedFacts, BindEntry
<1> QED
  BY <1>1, <1>2, <1>3, IInvPartsNext DEF NoEviction

LEMMA RedefineKeeps ==
  ASSUME IInv, NEW n \in Names, NEW b \in Bodies, Redefine(n, b)
  PROVE  IInv' /\ NoEviction
<1> DEFINE o == store[n]
<1>1. Reg(store, obj) /\ Sound(obj) /\ LiveRefs(main, held, obj) /\ OtherTypes
  BY SyncedFacts
<1>2. /\ Op /\ o # None /\ ~IsDefault(store, o)
      /\ main' = [main EXCEPT ![n] = store'[n]] /\ held' = held
  BY DEF Redefine
<1>3. o \in Objects /\ obj[o] # None /\ obj[o].name = n
  BY <1>1, <1>2 DEF Reg, Entries
<1> HIDE DEF o
<1>4. Written(store, n, n)
  BY <1>1, <1>2, <1>3, EditWrites, RecreateWrites DEF Redefine, o
<1>5. LiveRefs(main', held', obj')
  BY <1>1, <1>2, <1>4, BindEntry DEF Written
<1> QED
  BY <1>1, <1>2, <1>4, <1>5, OpTypes, IInvPartsNext DEF Written, NoEviction

\* A new policy, from the registry itself or from what Sync left of it.
LEMMA InstallKeeps ==
  ASSUME NEW st, NEW n \in Names, NEW k \in Kinds, NEW b \in Bodies, NEW q \in Unused,
         Reg(st, obj), Sound(obj), LiveRefs(main, held, obj),
         \A j \in Names : st[j] = store[j] \/ (st[j] = None /\ main[j] = None),
         Install(st, n, k, b, q), held' = held
  PROVE  Reg(store', obj') /\ Sound(obj') /\ LiveRefs(main', held', obj') /\ NoEviction
<1>1. Written(st, n, n) /\ q \in Objects /\ obj'[q] # None
  BY InstallWrites
<1>2. main' = [main EXCEPT ![n] = q] /\ main \in Bindings
  BY DEF Install, LiveRefs
<1>3. main' \in Bindings /\ \A j \in Names : main'[j] = main[j] \/ main'[j] = q
  BY <1>1, <1>2 DEF Bindings
<1>4. LiveRefs(main', held', obj')
  BY <1>1, <1>3, RefsKept DEF Written
<1> QED
  BY <1>1, <1>4 DEF Written, NoEviction

LEMMA DefineKeeps ==
  ASSUME IInv, NEW n \in Names, NEW k \in Kinds, NEW b \in Bodies, Define(n, k, b)
  PROVE  IInv' /\ NoEviction
<1>1. PICK q \in Unused : Op /\ Install(store, n, k, b, q) /\ held' = held
  BY DEF Define
<1> QED
  BY <1>1, SyncedFacts, InstallKeeps, OpTypes, IInvPartsNext

LEMMA DuplicateKeeps ==
  ASSUME IInv, NEW n \in Names, NEW m \in Names, Duplicate(n, m)
  PROVE  IInv' /\ NoEviction
<1> DEFINE st == Sync(store)
           k == obj[st[n]].kind
           b == obj[st[n]].body
<1>1. Op /\ st[n] # None /\ held' = held
  BY DEF Duplicate
<1>2. PICK q \in Unused : Install(st, m, k, b, q)
  BY DEF Duplicate
<1> HIDE DEF st
<1>3. /\ Reg(st, obj) /\ Sound(obj) /\ LiveRefs(main, held, obj) /\ OtherTypes
      /\ \A j \in Names : st[j] = store[j] \/ (st[j] = None /\ main[j] = None)
      /\ st[n] \in Objects /\ obj[st[n]] # None
  BY <1>1, SyncedFacts DEF st
<1>4. obj[st[n]] \in Policies
  BY <1>3 DEF Sound, Attributes
<1>5. k \in Kinds /\ b \in Bodies
  BY <1>4 DEF Policies
<1> HIDE DEF k, b
<1>6. Reg(store', obj') /\ Sound(obj') /\ LiveRefs(main', held', obj') /\ NoEviction
  BY <1>1, <1>2, <1>3, <1>5, InstallKeeps
<1> QED
  BY <1>1, <1>3, <1>6, OpTypes, IInvPartsNext

LEMMA BindKeeps ==
  ASSUME IInv, NEW n \in Names, Bind(n) \/ Unbind(n)
  PROVE  IInv' /\ NoEviction
<1>1. /\ Op /\ store' = store /\ obj' = obj /\ held' = held
      /\ main' = [main EXCEPT ![n] = Var] \/ main' = [main EXCEPT ![n] = None]
  BY DEF Bind, Unbind
<1>2. main' \in Bindings /\ \A j \in Names : main'[j] = main[j] \/ main'[j] \in {None, Var}
  BY <1>1, SyncedFacts DEF LiveRefs, Bindings
<1>3. LiveRefs(main', held', obj')
  BY <1>1, <1>2, SyncedFacts, RefsKept DEF Lives
<1> QED
  BY <1>1, <1>3, SyncedFacts, OpTypes, IInvPartsNext DEF NoEviction

LEMMA HoldKeeps ==
  ASSUME IInv, NEW o \in Objects, Hold(o)
  PROVE  IInv' /\ NoEviction
<1>1. /\ Op /\ o \in Reachable /\ store' = store /\ main' = main /\ obj' = obj
      /\ \E rest \in SUBSET held : held' = rest \cup {o}
  BY DEF Hold
<1>2. LiveRefs(main', held', obj')
  BY <1>1, ReachableLive, SyncedFacts DEF LiveRefs
<1> QED
  BY <1>1, <1>2, SyncedFacts, OpTypes, IInvPartsNext DEF NoEviction

LEMMA FlipFlagKeeps ==
  ASSUME IInv, NEW o \in Objects, FlipFlag(o)
  PROVE  IInv' /\ NoEviction
<1>1. /\ Op /\ o \in Reachable /\ store' = store /\ main' = main /\ held' = held
      /\ obj' = [obj EXCEPT ![o].frozen = ~@]
  BY DEF FlipFlag
<1>2. obj[o] # None /\ Sound(obj) /\ Reg(store, obj) /\ LiveRefs(main, held, obj) /\ OtherTypes
  BY <1>1, ReachableLive, SyncedFacts
<1>3. obj[o] \in Policies
  BY <1>2 DEF Sound, Attributes
<1> DEFINE p == [obj[o] EXCEPT !.frozen = ~@]
<1>4. p \in Policies /\ p.name = obj[o].name /\ p.kind = obj[o].kind /\ p.body = obj[o].body
  BY <1>3 DEF Policies
<1>5. obj' = [obj EXCEPT ![o] = p]
  BY <1>1
<1> HIDE DEF p
<1>6. p # None
  BY <1>4, Specials
<1>7. obj' \in Attributes /\ obj'[o] = p /\ \A x \in Objects \ {o} : obj'[x] = obj[x]
  BY <1>2, <1>4, <1>5 DEF Sound, Attributes
<1>8. Sound(obj') /\ Lives(obj')
  BY <1>2, <1>4, <1>6, <1>7, Specials DEF Sound, Lives
<1>9. Reg(store', obj')
  BY <1>1, <1>2, <1>4, <1>6, <1>7 DEF Reg, Entries
<1>10. LiveRefs(main', held', obj')
  BY <1>1, <1>2, <1>8, RefsKept DEF LiveRefs
<1> QED
  BY <1>1, <1>2, <1>8, <1>9, <1>10, OpTypes, IInvPartsNext DEF NoEviction

-----------------------------------------------------------------------------
(* Around the cell. *)

LEMMA StartCellKeeps ==
  ASSUME IInv, StartCell
  PROVE  IInv' /\ NoEviction
<1>1. OtherTypes'
  BY ConstantsAssumption DEF StartCell, OtherTypes
<1> QED
  BY <1>1, SyncedFacts, IInvPartsNext DEF StartCell, NoEviction

LEMMA EndCellKeeps ==
  ASSUME IInv, EndCell
  PROVE  IInv' /\ NoEviction
<1> DEFINE Kept(o) == o \in held \/ \E n \in Names : o \in {GuardedStore[n], GuardedMain[n]}
<1>1. Reg(store, obj) /\ Sound(obj) /\ LiveRefs(main, held, obj) /\ OtherTypes
  BY SyncedFacts
<1>2. /\ store' = GuardedStore /\ main' = GuardedMain /\ held' = held
      /\ obj' = [o \in Objects |-> IF Kept(o) THEN obj[o] ELSE None]
  BY DEF EndCell
<1>3. /\ GuardedStore = [n \in Names |-> IF main[n] = None /\ ~IsDefault(store, store[n])
                                           THEN None ELSE store[n]]
      /\ GuardedMain = [n \in Names |-> IF GuardedStore[n] # None
                                          THEN GuardedStore[n] ELSE main[n]]
  BY DEF GuardedStore, GuardedMain
<1>4. store' \in Entries /\ \A n \in Names : store'[n] \in {store[n], None}
  BY <1>1, <1>2, <1>3 DEF Reg, Entries
<1>5. \A n \in Sealed : store'[n] = n
  BY <1>1, <1>2, <1>3, Specials DEF Reg, IsDefault, IsSealedObj
<1>6. main' \in Bindings /\ \A n \in Names : main'[n] = main[n] \/ main'[n] = store[n]
  BY <1>1, <1>2, <1>3, <1>4 DEF LiveRefs, Bindings, Reg, Entries
<1>7. obj' \in Attributes /\ \A o \in Objects : obj'[o] = IF Kept(o) THEN obj[o] ELSE None
  BY <1>1, <1>2 DEF Sound, Attributes
<1>8. \A n \in Names : /\ store'[n] # None => obj'[store'[n]] = obj[store'[n]]
                       /\ main'[n] \in Objects => obj'[main'[n]] = obj[main'[n]]
  BY <1>2, <1>4, <1>7 DEF Entries
<1>9. \A o \in held : obj'[o] = obj[o]
  BY <1>1, <1>7 DEF LiveRefs
<1> HIDE DEF Kept
<1>10. Reg(store', obj')
  BY <1>1, <1>4, <1>5, <1>8 DEF Reg
<1>11. Sound(obj')
  <2>1. \A n \in Sealed : obj'[n] = obj[n]
    BY <1>5, <1>8, Specials
  <2> QED
    BY <1>1, <1>7, <2>1 DEF Sound
<1>12. LiveRefs(main', held', obj')
  <2>1. \A n \in Names : main'[n] \in Objects => obj[main'[n]] # None
    BY <1>1, <1>6, Specials DEF LiveRefs, Reg, Entries
  <2> QED
    BY <1>1, <1>2, <1>6, <1>8, <1>9, <2>1 DEF LiveRefs
<1>13. OtherTypes'
  BY <1>1, ConstantsAssumption DEF OtherTypes, EndCell
<1>14. NoEviction
  BY <1>2, <1>3, <1>6 DEF NoEviction
<1> QED
  BY <1>10, <1>11, <1>12, <1>13, <1>14, IInvPartsNext

-----------------------------------------------------------------------------
(* A new kernel. *)

LEMMA BootPolicyFacts ==
  ASSUME NEW n \in Boot
  PROVE  /\ BootPolicy(n) \in Policies /\ BootPolicy(n) # None
         /\ BootPolicy(n).name = n /\ BootPolicy(n).kind = BootKind[n]
         /\ BootPolicy(n).body = BootBody
<1>1. n \in Names /\ BootKind[n] \in Kinds /\ BootBody \in Bodies /\ (n \in Sealed) \in BOOLEAN
  BY ConstantsAssumption
<1>2. BootPolicy(n) \in Policies
  BY <1>1 DEF BootPolicy, Policies
<1>3. /\ BootPolicy(n).name = n /\ BootPolicy(n).kind = BootKind[n]
      /\ BootPolicy(n).body = BootBody
  BY DEF BootPolicy
<1> QED
  BY <1>2, <1>3, Specials

LEMMA InitSound ==
  ASSUME Init
  PROVE  IInv
<1>1. /\ store = [n \in Names |-> AtBoot(n)] /\ main = store /\ held = {}
      /\ obj = [o \in Objects |-> IF o \in Boot THEN BootPolicy(o) ELSE None]
  BY DEF Init
<1>2. \A n \in Names : store[n] = IF n \in Boot THEN n ELSE None
  BY <1>1 DEF AtBoot
<1>3. store \in Entries /\ main \in Bindings
  BY <1>1, Specials DEF AtBoot, Entries, Bindings
<1>4. \A o \in Boot : obj[o] = BootPolicy(o)
  BY <1>1, Specials
<1>5. obj \in Attributes
  BY <1>1, BootPolicyFacts DEF Attributes
<1>6. \A n \in Boot : /\ obj[n] # None /\ obj[n].name = n
                      /\ obj[n].kind = BootKind[n] /\ obj[n].body = BootBody
  BY <1>4, BootPolicyFacts
<1>7. Sealed \subseteq Boot
  BY ConstantsAssumption
<1>8. Reg(store, obj)
  BY <1>2, <1>3, <1>6, <1>7, Specials DEF Reg
<1>9. Sound(obj)
  BY <1>5, <1>6, <1>7 DEF Sound
<1>10. LiveRefs(main, held, obj)
  BY <1>1, <1>3, <1>8, Specials DEF LiveRefs, Reg
<1>11. OtherTypes
  BY ConstantsAssumption DEF Init, OtherTypes
<1> QED
  BY <1>8, <1>9, <1>10, <1>11, IInvParts

\* One policy restored from another.
SameText(p, q) == p.name = q.name /\ p.kind = q.kind /\ p.body = q.body

\* What a restart chooses, up to its own bookkeeping.  An object that a variable or an
\* alias has become stands for a restored policy only if it was that policy, and for
\* two variables only if both had the same object.
Chosen(kept, rebuilt, saved, values, copy, alias, D, H) ==
  /\ kept \subseteq {n \in Names \ Sealed : store[n] # None}
  /\ rebuilt \subseteq {n \in Names \ Sealed : store[n] # None}
  /\ D = saved \cup PrefixBound(kept, saved) /\ D \subseteq Names
  /\ \A n \in saved : main[n] \in Objects
  /\ values \subseteq Values
  /\ copy \in [D -> Objects \ Sealed]
  /\ \A n \in D, k \in kept \cup rebuilt : copy[n] = store[k] => n \in saved /\ main[n] = store[k]
  /\ \A m, n \in D : copy[m] = copy[n] =>
       m = n \/ ({m, n} \subseteq saved /\ main[m] = main[n])
  /\ H \subseteq held /\ alias \in [H -> Objects \ Sealed]
  /\ \A h \in H, k \in kept \cup rebuilt : alias[h] = store[k] => h = store[k]
  /\ Rehydrate(kept, rebuilt, saved, values, copy, alias)

LEMMA RehydrateKeeps ==
  ASSUME IInv, NEW kept, NEW rebuilt, NEW saved, NEW values, NEW copy, NEW alias, NEW D, NEW H,
         Chosen(kept, rebuilt, saved, values, copy, alias, D, H)
  PROVE  /\ Reg(store', obj') /\ Sound(obj') /\ LiveRefs(main', held', obj')
         /\ \A n \in Names : store'[n] = IF n \in Sealed THEN n
                                        ELSE IF n \in kept \cup rebuilt THEN store[n] ELSE None
         /\ \A n \in kept \cup rebuilt : SameText(obj'[store[n]], obj[store[n]])
         /\ \A n \in Names : main'[n] = IF n \in Sealed THEN n
                                       ELSE IF n \in rebuilt THEN store[n]
                                       ELSE IF n \in D THEN copy[n]
                                       ELSE IF n \in values THEN Var ELSE None
         /\ \A n \in saved : (\A k \in rebuilt : copy[n] # store[k]) =>
              obj'[copy[n]] = obj[main[n]]
<1> DEFINE st == Reconciled(kept)
           c(o) == CHOOSE n \in D : o = copy[n]
           a(o) == CHOOSE h \in H : o = alias[h]
<1>1. Reg(store, obj) /\ Sound(obj) /\ LiveRefs(main, held, obj)
  BY SyncedFacts
<1>0. /\ kept \subseteq {n \in Names \ Sealed : store[n] # None}
      /\ rebuilt \subseteq {n \in Names \ Sealed : store[n] # None}
      /\ saved \subseteq D /\ D \subseteq Names
      /\ \A n \in D \ saved : n \in Boot
      /\ \A n \in saved : main[n] \in Objects
      /\ copy \in [D -> Objects \ Sealed]
      /\ \A n \in D, k \in kept \cup rebuilt : copy[n] = store[k] => n \in saved /\ main[n] = store[k]
      /\ \A m, n \in D : copy[m] = copy[n] =>
           m = n \/ ({m, n} \subseteq saved /\ main[m] = main[n])
      /\ H \subseteq held /\ alias \in [H -> Objects \ Sealed]
      /\ \A h \in H, k \in kept \cup rebuilt : alias[h] = store[k] => h = store[k]
      /\ Rehydrate(kept, rebuilt, saved, values, copy, alias)
  BY DEF Chosen, PrefixBound
<1>2. DOMAIN copy = D /\ DOMAIN alias = H
  BY <1>0
<1>3. \A n \in Names : st[n] = IF n \in Sealed THEN n ELSE IF n \in kept THEN store[n] ELSE None
  BY DEF Reconciled
<1>4. /\ store' = [n \in Names |-> IF n \in rebuilt THEN store[n] ELSE st[n]]
      /\ main' = [n \in Names |-> IF n \in Sealed THEN n
                                 ELSE IF n \in rebuilt THEN store[n]
                                 ELSE IF n \in D THEN copy[n]
                                 ELSE IF n \in values THEN Var ELSE None]
      /\ held' = {alias[h] : h \in H}
      /\ obj' = [o \in Objects |->
                   IF o \in Sealed THEN BootPolicy(o)
                   ELSE IF \E n \in rebuilt : o = store[n] THEN [obj[o] EXCEPT !.frozen = FALSE]
                   ELSE IF o \in {copy[n] : n \in D}
                     THEN IF c(o) \in saved THEN obj[main[c(o)]] ELSE BootPolicy(c(o))
                   ELSE IF o \in {alias[h] : h \in H} THEN obj[a(o)]
                   ELSE IF \E n \in kept : o = store[n] THEN obj[o]
                   ELSE None]
  BY <1>0, <1>2 DEF Rehydrate, Range
<1> HIDE DEF st
<1>5. \A n \in Names : store'[n] = IF n \in Sealed THEN n
                                   ELSE IF n \in kept \cup rebuilt THEN store[n] ELSE None
  BY <1>0, <1>3, <1>4
<1>6. store' \in Entries /\ \A n \in Sealed : store'[n] = n
  BY <1>1, <1>4, <1>5, Specials DEF Reg, Entries
<1>7. \A n \in kept \cup rebuilt :
        /\ store[n] \in Objects /\ store[n] \notin Sealed
        /\ obj[store[n]] \in Policies /\ obj[store[n]] # None /\ obj[store[n]].name = n
  BY <1>0, <1>1, Specials DEF Reg, Sound, Entries, Attributes
<1>8. \A o \in {copy[n] : n \in D} :
        /\ c(o) \in D /\ o = copy[c(o)]
        /\ c(o) \in saved => main[c(o)] \in Objects /\ obj[main[c(o)]] # None
        /\ c(o) \notin saved => c(o) \in Boot
  <2> SUFFICES ASSUME NEW n \in D
               PROVE  LET o == copy[n]
                      IN  /\ c(o) \in D /\ o = copy[c(o)]
                          /\ c(o) \in saved => main[c(o)] \in Objects /\ obj[main[c(o)]] # None
                          /\ c(o) \notin saved => c(o) \in Boot
    OBVIOUS
  <2>1. c(copy[n]) \in D /\ copy[n] = copy[c(copy[n])]
    OBVIOUS
  <2> HIDE DEF c
  <2> QED
    BY <1>0, <1>1, <2>1 DEF LiveRefs
<1>9. \A o \in {alias[h] : h \in H} :
        a(o) \in H /\ o = alias[a(o)] /\ a(o) \in Objects /\ obj[a(o)] # None
  <2> SUFFICES ASSUME NEW h \in H
               PROVE  LET o == alias[h]
                      IN  a(o) \in H /\ o = alias[a(o)] /\ a(o) \in Objects /\ obj[a(o)] # None
    OBVIOUS
  <2>1. a(alias[h]) \in H /\ alias[h] = alias[a(alias[h])]
    OBVIOUS
  <2> HIDE DEF a
  <2> QED
    BY <1>0, <1>1, <2>1 DEF LiveRefs
<1> HIDE DEF c, a
<1>10. \A n \in kept \cup rebuilt :
         /\ obj'[store[n]] \in Policies /\ obj'[store[n]] # None /\ obj'[store[n]].name = n
         /\ SameText(obj'[store[n]], obj[store[n]])
  <2> SUFFICES ASSUME NEW n \in kept \cup rebuilt
               PROVE  obj'[store[n]] \in Policies /\ SameText(obj'[store[n]], obj[store[n]])
    BY <1>7, Specials DEF SameText
  <2> DEFINE o == store[n]
  <2>1. o \in Objects /\ o \notin Sealed /\ obj[o] \in Policies /\ obj[o].name = n
    BY <1>7
  <2>2. /\ \A m \in D : copy[m] = o => m \in saved /\ main[m] = o
        /\ \A h \in H : alias[h] = o => h = o
    BY <1>0
  <2>3. o \in {store[k] : k \in kept \cup rebuilt}
    OBVIOUS
  <2> HIDE DEF o
  <2>4. CASE \E k \in rebuilt : o = store[k]
    <3>1. obj'[o] = [obj[o] EXCEPT !.frozen = FALSE]
      BY <1>4, <2>1, <2>4
    <3>2. /\ [obj[o] EXCEPT !.frozen = FALSE] \in Policies
          /\ SameText([obj[o] EXCEPT !.frozen = FALSE], obj[o])
      BY <2>1 DEF Policies, SameText
    <3> QED
      BY <3>1, <3>2 DEF o
  <2>5. CASE ~(\E k \in rebuilt : o = store[k])
    <3>4. obj'[o] = obj[o]
      <4>1. CASE o \in {copy[m] : m \in D}
        <5>1. c(o) \in D /\ o = copy[c(o)]
          BY <1>8, <4>1
        <5>2. c(o) \in saved /\ main[c(o)] = o
          BY <2>2, <5>1
        <5> QED
          BY <1>4, <2>1, <2>5, <4>1, <5>2
      <4>2. CASE o \notin {copy[m] : m \in D} /\ o \in {alias[h] : h \in H}
        <5>1. a(o) = o
          BY <1>9, <2>2, <4>2
        <5> QED
          BY <1>4, <2>1, <2>5, <4>2, <5>1
      <4>3. CASE o \notin {copy[m] : m \in D} /\ o \notin {alias[h] : h \in H}
        <5>1. ~(\E n1 \in D : o = copy[n1]) /\ \E n1 \in kept : o = store[n1]
          BY <2>3, <2>5, <4>3
        <5>2. o \notin {copy[n1] : n1 \in D}
          BY <4>3
        <5> QED
          BY <1>4, <2>1, <2>5, <4>3, <5>1, <5>2
      <4> QED
        BY <4>1, <4>2, <4>3
    <3> QED
      BY <2>1, <3>4 DEF o, SameText
  <2> QED
    BY <2>4, <2>5
<1>11. \A n \in Sealed : /\ obj'[n] # None /\ obj'[n].name = n
                          /\ obj'[n].kind = BootKind[n] /\ obj'[n].body = BootBody
  BY <1>4, Specials, BootPolicyFacts, ConstantsAssumption
<1>12. Reg(store', obj')
  BY <1>5, <1>6, <1>10, <1>11 DEF Reg
<1>13. \A o \in Objects :
         /\ obj'[o] \in Policies \cup {None}
         /\ o \in Sealed \cup {copy[n] : n \in D} \cup {alias[h] : h \in H} => obj'[o] # None
  <2> SUFFICES ASSUME NEW o \in Objects
               PROVE  /\ obj'[o] \in Policies \cup {None}
                      /\ o \in Sealed \cup {copy[n] : n \in D} \cup {alias[h] : h \in H} =>
                           obj'[o] # None
    OBVIOUS
  <2>1. CASE \E n \in rebuilt : o = store[n]
    BY <1>10, <2>1
  <2>2. CASE o \in Sealed
    BY <1>4, <1>11, <2>2, BootPolicyFacts, ConstantsAssumption
  <2>3. CASE o \notin Sealed /\ ~(\E n \in rebuilt : o = store[n])
    <3>1. \A x \in Objects : obj[x] \in Policies \cup {None}
      BY <1>1 DEF Sound, Attributes
    <3>2. CASE o \in {copy[n] : n \in D}
      <4>1. obj'[o] = IF c(o) \in saved THEN obj[main[c(o)]] ELSE BootPolicy(c(o))
        BY <1>4, <2>3, <3>2
      <4> QED
        BY <1>8, <3>1, <3>2, <4>1, BootPolicyFacts
    <3>3. CASE o \notin {copy[n] : n \in D} /\ o \in {alias[h] : h \in H}
      <4>1. obj'[o] = obj[a(o)]
        BY <1>4, <2>3, <3>3
      <4> QED
        BY <1>9, <3>1, <3>3, <4>1
    <3>4. CASE o \notin {copy[n] : n \in D} /\ o \notin {alias[h] : h \in H}
      BY <1>4, <2>3, <3>1, <3>4
    <3> QED
      BY <3>2, <3>3, <3>4
  <2> QED
    BY <2>1, <2>2, <2>3
<1>14. Sound(obj')
  <2>1. obj' \in Attributes
    BY <1>4, <1>13 DEF Attributes
  <2> QED
    BY <1>11, <2>1 DEF Sound
<1>15. \A n \in Names : \/ main'[n] \in {None, Var}
                        \/ n \in Sealed /\ main'[n] = n
                        \/ n \in rebuilt /\ main'[n] = store[n]
                        \/ n \in D /\ main'[n] = copy[n]
  BY <1>4
<1>16. main' \in Bindings
  BY <1>0, <1>4, <1>7, <1>15, Specials DEF Bindings
<1>17. \A n \in Names : main'[n] \in Objects => obj'[main'[n]] # None
  BY <1>10, <1>13, <1>15, Specials
<1>18. LiveRefs(main', held', obj')
  <2>1. \A h \in H : alias[h] \in Objects
    BY <1>0
  <2>2. \A o \in held' : o \in Objects /\ o \in {alias[h] : h \in H}
    BY <1>4, <2>1
  <2>3. \A o \in held' : o \in Objects /\ obj'[o] # None
    BY <1>13, <2>2
  <2> QED
    BY <1>16, <1>17, <2>3 DEF LiveRefs
<1>19. \A n \in saved : (\A k \in rebuilt : copy[n] # store[k]) => obj'[copy[n]] = obj[main[n]]
  <2> SUFFICES ASSUME NEW n \in saved, \A k \in rebuilt : copy[n] # store[k]
               PROVE  obj'[copy[n]] = obj[main[n]]
    OBVIOUS
  <2>1. copy[n] \in Objects /\ copy[n] \notin Sealed /\ copy[n] \in {copy[m] : m \in D}
    BY <1>0
  <2>2. obj'[copy[n]] = IF c(copy[n]) \in saved THEN obj[main[c(copy[n])]] ELSE BootPolicy(c(copy[n]))
    BY <1>4, <2>1
  <2>3. c(copy[n]) \in D /\ copy[n] = copy[c(copy[n])]
    BY <1>8, <2>1
  <2>4. c(copy[n]) \in saved /\ main[c(copy[n])] = main[n]
    BY <1>0, <2>3
  <2> QED
    BY <2>2, <2>4
<1>20. \A n \in Names : main'[n] = IF n \in Sealed THEN n
                                   ELSE IF n \in rebuilt THEN store[n]
                                   ELSE IF n \in D THEN copy[n]
                                   ELSE IF n \in values THEN Var ELSE None
  BY <1>4
<1> QED
  BY <1>5, <1>10, <1>12, <1>14, <1>18, <1>19, <1>20

\* What a restart gives back, and what it does not.
Restored ==
  \A n \in Names :
    /\ n \notin noted' /\ store[n] # None =>
         /\ store'[n] # None
         /\ obj'[store'[n]].kind = obj[store[n]].kind
         /\ obj'[store'[n]].body = obj[store[n]].body
    /\ store[n] = None =>
         /\ store'[n] = None
         /\ main[n] \in {None, Var} => main'[n] \in {main[n], None}

\* Registered names are bound to their policies, or to ones with the same text but for
\* those that were too large for a variable.
Exact == \A n \in Names : store[n] # None => main[n] = store[n]

Alike ==
  \A n \in Names \ oversize : store[n] # None =>
    /\ main[n] \in Objects
    /\ obj[main[n]] # None
    /\ SameText(obj[main[n]], obj[store[n]])

\* A restart from any choice of what is kept, rebuilt and restored for variables.
LEMMA RehydrateRestores ==
  ASSUME IInv, NEW kept, NEW rebuilt, NEW saved, NEW values, NEW copy, NEW alias, NEW D, NEW H,
         Chosen(kept, rebuilt, saved, values, copy, alias, D, H),
         \A n \in Names \ Sealed : store[n] # None /\ n \notin noted' => n \in kept \cup rebuilt
  PROVE  /\ Reg(store', obj') /\ Sound(obj') /\ LiveRefs(main', held', obj')
         /\ oversize' \in SUBSET Names
         /\ Restored /\ (Exact => Alike')
<1>1. Reg(store, obj) /\ Sound(obj) /\ LiveRefs(main, held, obj)
  BY SyncedFacts
<1>2. /\ Reg(store', obj') /\ Sound(obj') /\ LiveRefs(main', held', obj')
      /\ \A n \in Names : store'[n] = IF n \in Sealed THEN n
                                     ELSE IF n \in kept \cup rebuilt THEN store[n] ELSE None
      /\ \A n \in kept \cup rebuilt : SameText(obj'[store[n]], obj[store[n]])
      /\ \A n \in Names : main'[n] = IF n \in Sealed THEN n
                                    ELSE IF n \in rebuilt THEN store[n]
                                    ELSE IF n \in D THEN copy[n]
                                    ELSE IF n \in values THEN Var ELSE None
      /\ \A n \in saved : (\A k \in rebuilt : copy[n] # store[k]) =>
           obj'[copy[n]] = obj[main[n]]
  BY RehydrateKeeps
<1>3. ASSUME NEW n \in Names, n \notin noted', store[n] # None
      PROVE  /\ store'[n] # None
             /\ obj'[store'[n]].kind = obj[store[n]].kind
             /\ obj'[store'[n]].body = obj[store[n]].body
  <2>1. CASE n \in Sealed
    BY <1>1, <1>2, <2>1, Specials DEF Reg, Sound
  <2>2. CASE n \notin Sealed
    BY <1>2, <1>3, <2>2 DEF SameText
  <2> QED
    BY <2>1, <2>2
<1>4. ASSUME NEW n \in Names, store[n] = None
      PROVE  store'[n] = None /\ (main[n] \in {None, Var} => main'[n] \in {main[n], None})
  <2>1. n \notin Sealed \cup kept \cup rebuilt
    BY <1>1, <1>4, Specials DEF Reg, Chosen
  <2>2. main[n] \in {None, Var} => n \notin D
    BY <2>1, Specials DEF Chosen, PrefixBound
  <2>3. n \in values => main[n] = Var
    BY DEF Chosen, Values
  <2> QED
    BY <1>2, <2>1, <2>2, <2>3
<1>5. kept \subseteq Names /\ oversize' = kept \ saved
  BY DEF Chosen, Rehydrate
<1>6. ASSUME Exact, NEW n \in Names \ oversize', store'[n] # None
      PROVE  /\ main'[n] \in Objects /\ obj'[main'[n]] # None
             /\ SameText(obj'[main'[n]], obj'[store'[n]])
  <2>1. store'[n] \in Objects /\ obj'[store'[n]] # None
    BY <1>2, <1>6 DEF Reg, Entries
  <2>2. CASE n \in Sealed \/ n \in rebuilt
    BY <1>2, <2>1, <2>2 DEF SameText
  <2>3. CASE n \notin Sealed /\ n \notin rebuilt
    <3>1. n \in kept /\ n \in saved /\ store'[n] = store[n] /\ store[n] # None
      BY <1>2, <1>5, <1>6, <2>3 DEF Reg
    <3>2. main[n] = store[n] /\ n \in D /\ main'[n] = copy[n] /\ copy[n] \in Objects
      BY <1>2, <1>6, <2>3, <3>1 DEF Exact, Chosen
    <3>3. \A k \in rebuilt : copy[n] # store[k]
      <4> SUFFICES ASSUME NEW k \in rebuilt, copy[n] = store[k]
                   PROVE  FALSE
        OBVIOUS
      <4>1. main[n] = store[k] /\ k \in Names /\ store[k] # None
        BY <3>2 DEF Chosen
      <4>2. store[k] = store[n] /\ obj[store[n]].name = n /\ obj[store[k]].name = k
        BY <1>1, <3>1, <3>2, <4>1 DEF Reg
      <4> QED
        BY <2>3, <4>2
    <3>4. obj'[copy[n]] = obj[store[n]] /\ obj[store[n]] # None
      BY <1>1, <1>2, <3>1, <3>2, <3>3 DEF Reg
    <3> QED
      BY <1>2, <3>1, <3>2, <3>4 DEF SameText
  <2> QED
    BY <2>2, <2>3
<1> QED
  BY <1>2, <1>3, <1>4, <1>5, <1>6 DEF Restored, Alike

\* What is chosen of the snapshot: a policy that is not lost is kept or rebuilt.
LEMMA SnapshotFacts ==
  ASSUME IInv, NEW lost \in SUBSET Registered, NEW pickled \in SUBSET Savable(lost),
         NEW light \in SUBSET pickled
  PROVE  /\ lost \subseteq Names /\ pickled \subseteq Objects \ Sealed
         /\ ByValue(pickled) \subseteq {n \in Names \ Sealed : store[n] # None}
         /\ BySource(pickled) \ lost \subseteq {n \in Names \ Sealed : store[n] # None}
         /\ SavedVars(light) \subseteq Names
         /\ \A n \in SavedVars(light) : main[n] \in light /\ main[n] \in Objects
         /\ \A n \in Names \ Sealed : store[n] # None /\ n \notin lost =>
              n \in ByValue(pickled) \cup (BySource(pickled) \ lost)
<1>1. pickled \subseteq Objects \ Sealed
  BY ReachableLive DEF Savable
<1> QED
  BY <1>1, Specials DEF Registered, ByValue, BySource, SavedVars

LEMMA RestartKeeps ==
  ASSUME IInv, Restart
  PROVE  IInv' /\ Restored /\ (Exact => Alike')
<1>1. PICK lost, pickled, light, values :
        /\ lost \in SUBSET Registered /\ pickled \in SUBSET Savable(lost)
        /\ light \in SUBSET pickled /\ values \in SUBSET Values
        /\ LET kept == ByValue(pickled)
               rebuilt == BySource(pickled) \ lost
               saved == SavedVars(light)
               others == Objects \ (Sealed \cup light \cup {store[n] : n \in kept \cup rebuilt})
           IN /\ \E own \in [PrefixBound(kept, saved) -> others] :
                   /\ IsInjective(own)
                   /\ Rehydrate(kept, rebuilt, saved, values,
                                [n \in saved \cup DOMAIN own |-> IF n \in saved THEN main[n] ELSE own[n]],
                                [o \in held \cap light |-> o])
              /\ noted' = lost
  BY DEF Restart
<1> DEFINE kept == ByValue(pickled)
           rebuilt == BySource(pickled) \ lost
           saved == SavedVars(light)
           others == Objects \ (Sealed \cup light \cup {store[n] : n \in kept \cup rebuilt})
           P == PrefixBound(kept, saved)
           D == saved \cup P
           H == held \cap light
           alias == [o \in H |-> o]
<1>2. PICK own \in [P -> others] :
        /\ IsInjective(own)
        /\ Rehydrate(kept, rebuilt, saved, values,
                     [n \in saved \cup DOMAIN own |-> IF n \in saved THEN main[n] ELSE own[n]], alias)
  BY <1>1
<1> DEFINE copy == [n \in D |-> IF n \in saved THEN main[n] ELSE own[n]]
<1>3. Rehydrate(kept, rebuilt, saved, values, copy, alias)
  BY <1>2
<1>4. /\ lost \subseteq Names /\ pickled \subseteq Objects \ Sealed
      /\ kept \subseteq {n \in Names \ Sealed : store[n] # None}
      /\ rebuilt \subseteq {n \in Names \ Sealed : store[n] # None}
      /\ saved \subseteq Names
      /\ \A n \in saved : main[n] \in light /\ main[n] \in Objects
      /\ \A n \in Names \ Sealed : store[n] # None /\ n \notin lost => n \in kept \cup rebuilt
  BY <1>1, SnapshotFacts
<1>5. P \subseteq kept
  BY DEF PrefixBound
<1>6. /\ \A q \in others : q \in Objects /\ q \notin Sealed /\ q \notin light
      /\ \A k \in kept \cup rebuilt : store[k] \notin others
  OBVIOUS
<1>7. \A m, n \in P : own[m] = own[n] => m = n
  BY <1>2 DEF IsInjective
<1> HIDE DEF kept, rebuilt, saved, others, P
<1>8. /\ \A n \in D : n \in saved => copy[n] = main[n]
      /\ \A n \in D : n \notin saved => n \in P /\ copy[n] = own[n] /\ own[n] \in others
  OBVIOUS
<1>9. copy \in [D -> Objects \ Sealed]
  <2>1. \A n \in D : copy[n] \in Objects \ Sealed
    BY <1>1, <1>4, <1>6, <1>8
  <2> HIDE DEF D
  <2> QED
    BY <2>1
<1>10. alias \in [H -> Objects \ Sealed] /\ H \subseteq held /\ \A h \in H : alias[h] = h
  <2>1. H \subseteq Objects \ Sealed /\ H \subseteq held
    BY <1>1, <1>4
  <2> HIDE DEF H
  <2> QED
    BY <2>1
<1> HIDE DEF copy, alias, H
<1>11. /\ \A n \in D, k \in kept \cup rebuilt : copy[n] = store[k] => n \in saved /\ main[n] = store[k]
       /\ \A m, n \in D : copy[m] = copy[n] =>
            m = n \/ ({m, n} \subseteq saved /\ main[m] = main[n])
  BY <1>4, <1>6, <1>7, <1>8
<1>12. D \subseteq Names
  BY <1>4, <1>5
<1>13. Chosen(kept, rebuilt, saved, values, copy, alias, D, H)
  BY <1>1, <1>3, <1>4, <1>9, <1>10, <1>11, <1>12 DEF Chosen, P
<1> HIDE DEF D
<1>14. /\ Reg(store', obj') /\ Sound(obj') /\ LiveRefs(main', held', obj')
       /\ oversize' \in SUBSET Names /\ Restored /\ (Exact => Alike')
  BY <1>1, <1>4, <1>13, RehydrateRestores
<1>15. OtherTypes'
  BY <1>1, <1>4, <1>14, SyncedFacts DEF OtherTypes, Restart, Respawn
<1> QED
  BY <1>14, <1>15, IInvPartsNext

LEMMA RestartPiecemealKeeps ==
  ASSUME IInv, RestartPiecemeal
  PROVE  IInv' /\ Restored /\ (Exact => Alike')
<1>1. PICK lost, pickled, light, values :
        /\ lost \in SUBSET Registered /\ pickled \in SUBSET Savable(lost)
        /\ light \in SUBSET pickled /\ values \in SUBSET Values
        /\ LET kept == ByValue(pickled)
               rebuilt == BySource(pickled) \ lost
               saved == SavedVars(light)
               others == Objects \ (Sealed \cup {store[n] : n \in kept \cup rebuilt})
           IN /\ \E copy \in [saved \cup PrefixBound(kept, saved) -> others],
                    alias \in [held \cap light -> others] :
                   /\ IsInjective(copy) /\ IsInjective(alias) /\ Range(copy) \cap Range(alias) = {}
                   /\ Rehydrate(kept, rebuilt, saved, values, copy, alias)
              /\ noted' = lost
  BY DEF RestartPiecemeal
<1> DEFINE kept == ByValue(pickled)
           rebuilt == BySource(pickled) \ lost
           saved == SavedVars(light)
           others == Objects \ (Sealed \cup {store[n] : n \in kept \cup rebuilt})
           D == saved \cup PrefixBound(kept, saved)
           H == held \cap light
<1>2. PICK copy \in [D -> others], alias \in [H -> others] :
        /\ IsInjective(copy)
        /\ Rehydrate(kept, rebuilt, saved, values, copy, alias)
  BY <1>1
<1>4. /\ lost \subseteq Names /\ pickled \subseteq Objects \ Sealed
      /\ kept \subseteq {n \in Names \ Sealed : store[n] # None}
      /\ rebuilt \subseteq {n \in Names \ Sealed : store[n] # None}
      /\ saved \subseteq Names
      /\ \A n \in saved : main[n] \in light /\ main[n] \in Objects
      /\ \A n \in Names \ Sealed : store[n] # None /\ n \notin lost => n \in kept \cup rebuilt
  BY <1>1, SnapshotFacts
<1>5. PrefixBound(kept, saved) \subseteq kept
  BY DEF PrefixBound
<1>6. others \subseteq Objects \ Sealed /\ \A k \in kept \cup rebuilt : store[k] \notin others
  OBVIOUS
<1>7. \A m, n \in D : copy[m] = copy[n] => m = n
  BY <1>2 DEF IsInjective
<1>8. D \subseteq Names /\ H \subseteq held
  BY <1>4, <1>5
<1> HIDE DEF kept, rebuilt, saved, others, H
<1>9. copy \in [D -> Objects \ Sealed] /\ \A n \in D, k \in kept \cup rebuilt : copy[n] # store[k]
  BY <1>6
<1>10. alias \in [H -> Objects \ Sealed] /\ \A h \in H, k \in kept \cup rebuilt : alias[h] # store[k]
  BY <1>6
<1>13. Chosen(kept, rebuilt, saved, values, copy, alias, D, H)
  BY <1>1, <1>2, <1>4, <1>7, <1>8, <1>9, <1>10 DEF Chosen
<1> HIDE DEF D
<1>14. /\ Reg(store', obj') /\ Sound(obj') /\ LiveRefs(main', held', obj')
       /\ oversize' \in SUBSET Names /\ Restored /\ (Exact => Alike')
  BY <1>1, <1>4, <1>13, RehydrateRestores
<1>15. OtherTypes'
  BY <1>1, <1>4, <1>14, SyncedFacts DEF OtherTypes, RestartPiecemeal, Respawn
<1> QED
  BY <1>14, <1>15, IInvPartsNext

-----------------------------------------------------------------------------
(* The theorems. *)

\* The steps of a cell.
CellOp ==
  \/ SyncOnly
  \/ \E n \in Names : DefineRefused(n) \/ Bind(n) \/ Unbind(n) \/ ByNameRemove(n)
  \/ \E n, m \in Names : Duplicate(n, m)
  \/ \E n \in Names, b \in Bodies : Redefine(n, b)
  \/ \E n \in Names, k \in Kinds, b \in Bodies : Define(n, k, b)
  \/ \E n, m \in Names, b \in Bodies : ByNameRewrite(n, m, b)
  \/ \E o \in Objects : HandleRemove(o) \/ Hold(o) \/ FlipFlag(o)
  \/ \E o \in Objects, m \in Names, b \in Bodies : HandleRewrite(o, m, b)

LEMMA NextCases ==
  ASSUME [Next]_vars
  PROVE  StartCell \/ EndCell \/ CellOp \/ Restart \/ RestartPiecemeal \/ UNCHANGED vars
BY DEF Next, CellOp

LEMMA CellOpIsOp ==
  ASSUME CellOp
  PROVE  Op
BY DEF CellOp, SyncOnly, DefineRefused, Bind, Unbind, ByNameRemove, Duplicate, Redefine, Define,
       ByNameRewrite, HandleRemove, Hold, FlipFlag, HandleRewrite

LEMMA CellOpKeeps ==
  ASSUME IInv, CellOp
  PROVE  IInv' /\ NoEviction /\ phase = "cell" /\ phase' = "cell"
<1>0. SUFFICES IInv' /\ NoEviction
  BY CellOpIsOp DEF Op
<1>1. CASE SyncOnly
  BY <1>1, SyncOnlyKeeps
<1>2. CASE \E n \in Names : DefineRefused(n) \/ Bind(n) \/ Unbind(n) \/ ByNameRemove(n)
  BY <1>2, DefineRefusedKeeps, BindKeeps, ByNameRemoveKeeps
<1>3. CASE \E n, m \in Names : Duplicate(n, m)
  BY <1>3, DuplicateKeeps
<1>4. CASE \E n \in Names, b \in Bodies : Redefine(n, b)
  BY <1>4, RedefineKeeps
<1>5. CASE \E n \in Names, k \in Kinds, b \in Bodies : Define(n, k, b)
  BY <1>5, DefineKeeps
<1>6. CASE \E n, m \in Names, b \in Bodies : ByNameRewrite(n, m, b)
  BY <1>6, ByNameRewriteKeeps
<1>7. CASE \E o \in Objects : HandleRemove(o) \/ Hold(o) \/ FlipFlag(o)
  BY <1>7, HandleRemoveKeeps, HoldKeeps, FlipFlagKeeps
<1>8. CASE \E o \in Objects, m \in Names, b \in Bodies : HandleRewrite(o, m, b)
  BY <1>8, HandleRewriteKeeps
<1> QED
  BY <1>1, <1>2, <1>3, <1>4, <1>5, <1>6, <1>7, <1>8 DEF CellOp

LEMMA StepKeeps ==
  ASSUME IInv, [Next]_vars
  PROVE  /\ IInv'
         /\ phase' # "restarted" => NoEviction
         /\ phase' = "restarted" /\ ~UNCHANGED vars => phase = "idle" /\ Restored /\ (Exact => Alike')
<1>1. CASE StartCell \/ EndCell
  BY <1>1, StartCellKeeps, EndCellKeeps DEF StartCell, EndCell
<1>2. CASE CellOp
  BY <1>2, CellOpKeeps
<1>3. CASE Restart \/ RestartPiecemeal
  <2>1. phase = "idle" /\ phase' = "restarted"
    BY <1>3 DEF Restart, RestartPiecemeal, Respawn
  <2> QED
    BY <1>3, <2>1, RestartKeeps, RestartPiecemealKeeps
<1>4. CASE UNCHANGED vars
  BY <1>4, SyncedFacts, IInvPartsNext DEF vars, OtherTypes, NoEviction
<1> QED
  BY <1>1, <1>2, <1>3, <1>4, NextCases

\* The inductive invariant holds always, for all names, sealed names, policies and
\* numbers of operations.
THEOREM Invariant == Spec => []IInv
<1>1. Init => IInv
  BY InitSound
<1>2. IInv /\ [Next]_vars => IInv'
  BY StepKeeps
<1> QED
  BY <1>1, <1>2, PTL DEF Spec

\* The types hold always.
THEOREM TypeCorrect == Spec => []TypeOK
<1>1. IInv => TypeOK
  BY DEF IInv
<1> QED
  BY <1>1, Invariant, PTL

\* A sealed name stands for the shipped policy, whatever cells do and whatever a
\* snapshot holds (registry.py:14-17, 288-315).
THEOREM SealNeverBroken == Spec => []SealHolds
<1>1. IInv => SealHolds
  BY DEF IInv
<1> QED
  BY <1>1, Invariant, PTL

\* A policy is registered under the name it bears, and no other (proxy.py:468-472).
THEOREM NamesAgree == Spec => []RegisteredUnderOwnName
<1>1. IInv => RegisteredUnderOwnName
  BY DEF IInv
<1> QED
  BY <1>1, Invariant, PTL

\* While a kernel lives, a policy leaves the registry only with its name unbound
\* (registry.py:326-330, guard.py:216-248).
THEOREM NeverEvicted == Spec => NeverEvictedWhileBound
<1>1. IInv /\ [Next]_vars =>
        [phase' # "restarted" =>
           \A n \in Names : store[n] # None /\ store'[n] = None =>
             main[n] = None \/ main'[n] = None]_vars
  BY StepKeeps DEF NoEviction
<1> QED
  BY <1>1, Invariant, PTL DEF Spec, NeverEvictedWhileBound

\* What a step of @policy leaves: the name has a policy, and is bound to it.
BoundToEntry(n) == store'[n] # None /\ main'[n] = store'[n]

\* A refused definition binds the name to the protected policy.
LEMMA DefineRefusedBinds ==
  ASSUME IInv, NEW n \in Names, DefineRefused(n)
  PROVE  BoundToEntry(n)
<1>1. store[n] # None /\ store' = store /\ main' = [main EXCEPT ![n] = store[n]]
  BY DEF DefineRefused, IsDefault
<1>2. main'[n] = store[n]
  BY <1>1, SyncedFacts DEF LiveRefs, Bindings
<1> QED
  BY <1>1, <1>2 DEF BoundToEntry

\* A redefinition binds it to what the write left under it: the old object, or the
\* one that replaced it.
LEMMA RedefineBinds ==
  ASSUME IInv, NEW n \in Names, NEW b \in Bodies, Redefine(n, b)
  PROVE  BoundToEntry(n)
<1> DEFINE o == store[n]
<1>1. Reg(store, obj) /\ Sound(obj) /\ LiveRefs(main, held, obj)
  BY SyncedFacts
<1>2. o # None /\ ~IsDefault(store, o) /\ main' = [main EXCEPT ![n] = store'[n]]
  BY DEF Redefine
<1>3. o \in Objects /\ obj[o] # None /\ obj[o].name = n
  BY <1>1, <1>2 DEF Reg, Entries
<1> HIDE DEF o
<1>4. Written(store, n, n)
  BY <1>1, <1>2, <1>3, EditWrites, RecreateWrites DEF Redefine, o
<1>5. store'[n] # None
  BY <1>2, <1>4 DEF Written, o
<1>6. main'[n] = store'[n]
  BY <1>1, <1>2 DEF LiveRefs, Bindings
<1> QED
  BY <1>5, <1>6 DEF BoundToEntry

\* A new policy replaces an entry only if that is not protected, so the object the
\* name is bound to is the one the registry took.
LEMMA DefineBindsNew ==
  ASSUME IInv, NEW n \in Names, NEW k \in Kinds, NEW b \in Bodies, Define(n, k, b)
  PROVE  BoundToEntry(n)
<1>1. Reg(store, obj) /\ Sound(obj) /\ LiveRefs(main, held, obj)
  BY SyncedFacts
<1>2. PICK q \in Unused : Install(store, n, k, b, q)
  BY DEF Define
<1>3. q \in Objects /\ store \in Entries
  BY <1>1 DEF Unused, Reg
<1>4. ~IsDefault(store, store[n])
  BY DEF Define, NeedsInstall, IsDefault
<1>5. store'[n] = q
  BY <1>2, <1>3, <1>4, PutCases DEF Install
<1>6. main'[n] = q
  BY <1>1, <1>2 DEF Install, LiveRefs, Bindings
<1> QED
  BY <1>3, <1>5, <1>6, Specials DEF BoundToEntry

\* A step of @policy leaves the name bound to the registry's policy of that name,
\* whether it was refused, rewrote a policy, replaced its class or made a new one
\* (decorator.py:140-149).
THEOREM DefineBinds == Spec => DefineBindsCanonical
<1>1. ASSUME IInv, NEW n \in Names, store'[n] = None \/ main'[n] # store'[n]
      PROVE  /\ ~DefineRefused(n)
             /\ \A b \in Bodies : ~Redefine(n, b)
             /\ \A k \in Kinds, b \in Bodies : ~Define(n, k, b)
  <2>1. ~BoundToEntry(n)
    BY <1>1 DEF BoundToEntry
  <2> QED
    BY <1>1, <2>1, DefineRefusedBinds, RedefineBinds, DefineBindsNew
<1>2. IInv => [\A n \in Names :
                 store'[n] = None \/ main'[n] # store'[n] =>
                   /\ ~DefineRefused(n)
                   /\ \A b \in Bodies : ~Redefine(n, b)
                   /\ \A k \in Kinds, b \in Bodies : ~Define(n, k, b)]_vars
  BY <1>1
<1> QED
  BY <1>2, Invariant, PTL DEF Spec, DefineBindsCanonical

\* A restart gives back every policy the note does not name, with its kind and text
\* (kernel.py:217-218, 337).
THEOREM RestartLosesNothing == Spec => RestartKeepsPolicies
<1>1. IInv /\ [Next]_vars =>
        [phase' = "restarted" =>
           \A n \in Names \ noted' : store[n] # None =>
             /\ store'[n] # None
             /\ obj'[store'[n]].kind = obj[store[n]].kind
             /\ obj'[store'[n]].body = obj[store[n]].body]_vars
  BY StepKeeps DEF Restored
<1> QED
  BY <1>1, Invariant, PTL DEF Spec, RestartKeepsPolicies

\* A restart gives back nothing that had been deleted (kernel.py:301-316).
THEOREM NothingResurrected == Spec => DeletedStaysDeleted
<1>1. IInv /\ [Next]_vars =>
        [phase' = "restarted" =>
           \A n \in Names : store[n] = None =>
             /\ store'[n] = None
             /\ main[n] \in {None, Var} => main'[n] \in {main[n], None}]_vars
  BY StepKeeps DEF Restored
<1> QED
  BY <1>1, Invariant, PTL DEF Spec, DeletedStaysDeleted

\* What a registered name is bound to between cells: its policy, once a cell has
\* ended, and a policy with its text after a restart.
Agreement == (phase = "idle" => Exact) /\ (phase # "cell" => Alike)

LEMMA AlikeIsAgreement ==
  ASSUME IInv, phase # "cell" => Alike
  PROVE  MainAgrees
<1> SUFFICES ASSUME phase # "cell", NEW n \in Names \ oversize, store[n] # None
             PROVE  /\ main[n] \in Objects
                    /\ obj[main[n]] # None
                    /\ [obj[main[n]] EXCEPT !.frozen = FALSE] = [obj[store[n]] EXCEPT !.frozen = FALSE]
  BY DEF MainAgrees
<1>1. /\ main[n] \in Objects /\ store[n] \in Objects
      /\ obj[main[n]] # None /\ obj[store[n]] # None
      /\ SameText(obj[main[n]], obj[store[n]])
  BY SyncedFacts DEF Alike, Reg, Entries
<1>2. obj[main[n]] \in Policies /\ obj[store[n]] \in Policies
  BY <1>1, SyncedFacts DEF Sound, Attributes
<1>3. ASSUME NEW p \in Policies, NEW q \in Policies, SameText(p, q)
      PROVE  [p EXCEPT !.frozen = FALSE] = [q EXCEPT !.frozen = FALSE]
  BY <1>3 DEF Policies, SameText
<1> QED
  BY <1>1, <1>2, <1>3

LEMMA AgreementInit ==
  ASSUME Init
  PROVE  Agreement
<1>1. Reg(store, obj) /\ main = store
  BY InitSound, SyncedFacts DEF Init
<1> QED
  BY <1>1 DEF Agreement, Exact, Alike, SameText, Reg, Entries

LEMMA AgreementStep ==
  ASSUME IInv, Agreement, [Next]_vars
  PROVE  Agreement'
<1>1. CASE StartCell
  BY <1>1 DEF StartCell, Agreement
<1>2. CASE EndCell
  <2>1. \A n \in Names : store'[n] # None => main'[n] = store'[n]
    BY <1>2 DEF EndCell, GuardedMain
  <2>2. Reg(store', obj')
    BY <1>2, EndCellKeeps, IInvPartsNext
  <2> QED
    BY <2>1, <2>2 DEF Agreement, Exact, Alike, SameText, Reg, Entries
<1>3. CASE CellOp
  BY <1>3, CellOpKeeps DEF Agreement
<1>4. CASE Restart \/ RestartPiecemeal
  <2>1. phase = "idle" /\ phase' = "restarted"
    BY <1>4 DEF Restart, RestartPiecemeal, Respawn
  <2> QED
    BY <1>4, <2>1, RestartKeeps, RestartPiecemealKeeps DEF Agreement
<1>5. CASE UNCHANGED vars
  BY <1>5 DEF vars, Agreement, Exact, Alike, SameText
<1> QED
  BY <1>1, <1>2, <1>3, <1>4, <1>5, NextCases

\* When a cell starts, calling a registered name and reading the registry agree
\* (guard.py:216-248, kernel.py:285-316).
THEOREM NamesStandForPolicies == Spec => []MainAgrees
<1>1. Init => Agreement
  BY AgreementInit
<1>2. IInv /\ Agreement /\ [Next]_vars => Agreement'
  BY AgreementStep
<1>3. IInv /\ Agreement => MainAgrees
  BY AlikeIsAgreement DEF Agreement
<1> QED
  BY <1>1, <1>2, <1>3, Invariant, PTL DEF Spec
=============================================================================

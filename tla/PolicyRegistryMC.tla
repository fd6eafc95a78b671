-------------------------- MODULE PolicyRegistryMC --------------------------
(***************************************************************************)
(* A small instance of PolicyRegistry: `react`, sealed, is a class (the    *)
(* kind whose seal rests on the name alone), `verifier` ships as a mutable *)
(* function, and `plan` is a name that only cells use.                     *)
(***************************************************************************)
EXTENDS PolicyRegistry, TLC

CONSTANTS react, verifier, plan

MCNames == {react, verifier, plan}
MCBoot == {react, verifier}
MCSealed == {react}
MCBootKind == react :> "cls" @@ verifier :> "fun"

\* New identities are interchangeable.
Identities == Permutations(Fresh)
=============================================================================

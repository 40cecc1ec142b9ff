---------------------------- MODULE PromptRegistry ----------------------------
(***************************************************************************)
(* The prompt library and its lock (packages/prompts/).  A prompt is a     *)
(* name, stage/band/version, and a text.  Authors edit the library in any  *)
(* way they like; the lock records the text of every published name.       *)
(* verify() runs in CI, and a release is a library that passed it.         *)
(***************************************************************************)
EXTENDS Functions, FiniteSetsExt

CONSTANTS
    Names,          \* names of prompts
    SharedHints,    \* those of the shared band of a student-facing stage
    Texts,          \* texts, each its own content hash
    Slots,          \* the slots of a text
    MaxReleases     \* bound: releases

ASSUME RegistryAssumption ==
    SharedHints \subseteq Names /\ Slots \in [Texts -> SUBSET STRING] /\ MaxReleases \in Nat

VARIABLES
    files,      \* the library in the working tree
    lock,       \* lock.json in the working tree
    released    \* the libraries released so far

registryVars == <<files, lock, released>>

Library == UNION {[N -> Texts] : N \in SUBSET Names}
With(f, n, t) == [m \in DOMAIN f \cup {n} |-> IF m = n THEN t ELSE f[m]]

-----------------------------------------------------------------------------
(* verify *)

Gone == DOMAIN lock \ DOMAIN files
Changed == {n \in DOMAIN lock \cap DOMAIN files : files[n] # lock[n]}
Unpublished == DOMAIN files \ DOMAIN lock
Shared == DOMAIN files \cap SharedHints

\* Mutant: only names that are still in the lock's order are compared.
ProblemsByName == Gone \cup Unpublished \cup Shared
Problems == Gone \cup Changed \cup Unpublished \cup Shared

-----------------------------------------------------------------------------
(* Authors *)

\* An author writes a prompt, or edits one in place.
Write(n, t) ==
    /\ files' = With(files, n, t)
    /\ UNCHANGED <<lock, released>>

Remove(n) ==
    /\ n \in DOMAIN files
    /\ files' = Restrict(files, DOMAIN files \ {n})
    /\ UNCHANGED <<lock, released>>

\* publish refuses a name it does not know and one published with another text.
MayPublish(n) == n \in DOMAIN files /\ (n \in DOMAIN lock => lock[n] = files[n])

Publish(n) ==
    /\ MayPublish(n)
    /\ lock' = With(lock, n, files[n])
    /\ UNCHANGED <<files, released>>

\* What CI let through may be deployed, now or at any time later.
Release ==
    /\ Problems = {}
    /\ Cardinality(released) < MaxReleases
    /\ released' = released \cup {files}
    /\ UNCHANGED <<files, lock>>

RegistryInit == files = <<>> /\ lock = <<>> /\ released = {}

RegistryNext ==
    \/ \E n \in Names : Remove(n) \/ Publish(n) \/ \E t \in Texts : Write(n, t)
    \/ Release
=============================================================================

----------------------------- MODULE MCOrderStore -----------------------------
(***************************************************************************)
(* An instance of OrderStore for TLC: two requests and two handlers use    *)
(* two orders; the API and the worker are one process or two.              *)
(***************************************************************************)
EXTENDS OrderStore, TLC

CONSTANTS o1, o2, post, get, h1, h2, api, worker

OneProcess == [c \in Callers |-> api]
Split      == [c \in Callers |-> IF c \in Requests THEN api ELSE worker]
MCDeployments == {OneProcess, Split}

\* Orders and handlers are interchangeable.
Symmetry == Permutations({o1, o2}) \union Permutations({h1, h2})
===============================================================================

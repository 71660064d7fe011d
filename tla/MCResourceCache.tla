---------------------------- MODULE MCResourceCache ----------------------------
(* ResourceCache for a client with two resources that does everything, and for *)
(* clients with three, or with a second unique key, that do less.              *)
EXTENDS ResourceCache

CONSTANTS r1, r2, r3, u, v

\* One resource is larger than the others.
Sizes == [r \in Resources |-> IF r = r1 THEN 2 ELSE 1]

WithTwo(habits, keys) ==
    {[habits |-> habits, resources |-> {r1, r}, keys |-> keys] : r \in {r2, r3}}
WithThree(habits) == [habits |-> habits, resources |-> Resources, keys |-> {u}]

\* Two resources and two keys: a resource goes from one key to the other, and
\* takes that from the resource that has it.
Rekeying == WithTwo({"limits", "posted"}, {u, v})

Various == WithTwo(Habits, {u}) \cup Rekeying \cup
           {WithThree({}), WithThree({"unbudgeted"}), WithThree({"attached"})}

\* One resource in the cache that counts and one that does not.
Unbudgeting == WithTwo({"unbudgeted"}, {u})

ResourceSymmetry == Permutations({r2, r3})
=============================================================================

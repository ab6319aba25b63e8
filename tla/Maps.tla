-------------------------------- MODULE Maps --------------------------------
(* A std::map or unordered_map as a function on the keys it holds.         *)

NoEntries == [k \in {} |-> k]

\* m[k] = v
Assign(m, k, v) == [x \in DOMAIN m \cup {k} |-> IF x = k THEN v ELSE m[x]]

\* The value of a key, or a default for a key the map does not hold.
Lookup(m, k, default) == IF k \in DOMAIN m THEN m[k] ELSE default
=============================================================================

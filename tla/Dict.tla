--------------------------------- MODULE Dict ---------------------------------
(* What a map from keys to elements promises, operation by operation. *)
VARIABLE dict

Add(key, x) ==
    /\ key \notin DOMAIN dict
    /\ dict' = [k \in DOMAIN dict \union {key} |-> IF k = key THEN x ELSE dict[k]]

Put(key, x) ==
    dict' = [k \in DOMAIN dict \union {key} |-> IF k = key THEN x ELSE dict[k]]

Drop(key) ==
    /\ key \in DOMAIN dict
    /\ dict' = [k \in DOMAIN dict \ {key} |-> dict[k]]

Keep == UNCHANGED dict
===============================================================================

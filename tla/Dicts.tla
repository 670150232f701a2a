------------------------------- MODULE Dicts -------------------------------
(***************************************************************************)
(* Python dictionaries as functions on the set of their keys.              *)
(***************************************************************************)

\* dict.get(key, default)
Get(dict, key, default) == IF key \in DOMAIN dict THEN dict[key] ELSE default

\* dict.pop(key, None) for every key of a set
Drop(dict, keys) == [k \in DOMAIN dict \ keys |-> dict[k]]

\* dict.update(new)
Update(dict, new) ==
    [k \in DOMAIN dict \cup DOMAIN new |->
        IF k \in DOMAIN new THEN new[k] ELSE dict[k]]

EmptyDict == [k \in {} |-> 0]
=============================================================================

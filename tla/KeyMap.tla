------------------------------- MODULE KeyMap -------------------------------
(***************************************************************************)
(* What a Table promises its callers: a partial function from keys to      *)
(* values, with entries that may come in two halves, first the key and     *)
(* then, whatever happens in between, the value.                           *)
(***************************************************************************)
CONSTANTS Keys, Values, NULL

VARIABLES
  map,    (* NULL where a key has no value                                 *)
  named,  (* the key that waits for its value, or NULL                     *)
  given   (* the value the last call was given, or NULL                    *)

vars == <<map, named, given>>

Assign(k, v) == map' = [map EXCEPT ![k] = v]

Set(k, v)   == given' = v /\ UNCHANGED named /\ Assign(k, v)
UnSet(k)    == given' = NULL /\ UNCHANGED named /\ Assign(k, NULL)
SetKey(k)   == given' = NULL /\ named' = k /\ Assign(k, NULL)
SetValue(v) == given' = v /\ named # NULL /\ named' = NULL /\ Assign(named, v)

Init == map = [k \in Keys |-> NULL] /\ named = NULL /\ given = NULL

Next ==
  \/ \E k \in Keys : SetKey(k) \/ UnSet(k) \/ \E v \in Values : Set(k, v)
  \/ \E v \in Values : SetValue(v)

Spec == Init /\ [][Next]_vars
=============================================================================

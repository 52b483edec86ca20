---------------------------- MODULE PropertyStore ---------------------------
(***************************************************************************)
(* What Persistence promises its callers (src/common/Persistence.hpp): a    *)
(* save changes one property at once or not at all, also when the program   *)
(* is killed.  Only where the file cannot be replaced by renaming, and its  *)
(* contents are copied instead, a copy that is cut short loses properties.  *)
(***************************************************************************)
CONSTANTS Keys, Values,
          Missing,           (* the value of a property that is not stored *)
          Unreadable         (* stands for contents that cannot be parsed  *)

VARIABLES store,             (* the properties                             *)
          copying            (* the file is being replaced by a copy       *)

Tables == [Keys -> Values \cup {Missing}]

Init == store \in Tables /\ copying = FALSE

Save(key, value) ==
    /\ store \in Tables
    /\ store' = [store EXCEPT ![key] = value]
    /\ copying' = FALSE

BeginCopy == copying' = TRUE /\ UNCHANGED store

Lose == /\ copying /\ copying' = FALSE
        /\ store' \in Tables \cup {Unreadable}

Next == BeginCopy \/ Lose \/ \E key \in Keys, value \in Values : Save(key, value)

Spec == Init /\ [][Next]_<<store, copying>>
=============================================================================

----------------------------- MODULE Dictionary ----------------------------
(***************************************************************************)
(* What HashMapADT.h promises of a map: a key that is added is there, one  *)
(* that is removed is not, and the result of a call says which it was.     *)
(* A key has one value in this program (the struct the key is a field of), *)
(* so the map is the set of its keys.                                      *)
(***************************************************************************)
EXTENDS Integers

CONSTANT DictionaryKeys

VARIABLES present, answer

\* Adding a key that is there answers 1 and changes nothing.
Put(k) ==
  /\ answer' = IF k \in present THEN 1 ELSE 0
  /\ present' = present \cup {k}

\* Removing a key that is not there answers -1.
Delete(k) ==
  /\ answer' = IF k \in present THEN 0 ELSE -1
  /\ present' = present \ {k}

DictionarySpec ==
  /\ present = {} /\ answer = 0
  /\ [][\E k \in DictionaryKeys : Put(k) \/ Delete(k)]_<<present, answer>>

=============================================================================

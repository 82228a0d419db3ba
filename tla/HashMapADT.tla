----------------------------- MODULE HashMapADT ----------------------------
(***************************************************************************)
(* The hash map every table of the server is (HashMapADT.c): an array of   *)
(* lists of entries, a new entry at the head of its list.                  *)
(*                                                                         *)
(* Values are abstracted to the key they are stored under: a user's name,  *)
(* a team's ID and so on are fields of the struct that is the value.       *)
(***************************************************************************)
EXTENDS Integers, Sequences

CONSTANTS
  Keys,
  TABLE_ENTRIES,
  Hash,  \* key -> hash: the ID itself (hashInt), 10 for a name (hashString)
  Tag    \* key -> what cmp reads at the start of its value: a user's name, the
         \* ID of a trade, the first four letters of the name of a team or league

ASSUME TableAssumption == /\ TABLE_ENTRIES \in Nat \ {0}
                          /\ Hash \in [Keys -> Nat]

Entries == 0 .. (TABLE_ENTRIES - 1)

Entry(k) == Hash[k] % TABLE_ENTRIES

VARIABLES
  table,  \* the lists
  ret     \* what the last call returned

mapVars == <<table, ret>>

MapTypeOK ==
  /\ table \in [Entries -> Seq(Keys)]
  /\ ret \in {-1, 0, 1}

MapInit ==
  /\ table = [e \in Entries |-> << >>]
  /\ ret = 0

InList(k, list) == \E i \in 1 .. Len(list) : list[i] = k

\* getFromHash(k) is not NULL.
GetFromHash(k) == InList(k, table[Entry(k)])

\* Mutant: nothing is compared.
Rejected_Never(k) == FALSE

\* addToHash compares the new value, not the new key, with what is there.
Rejected(k) ==
  \E i \in 1 .. Len(table[Entry(k)]) : Tag[table[Entry(k)][i]] = Tag[k]

AddToHash(k) ==
  \/ /\ Rejected(k)
     /\ ret' = 1
     /\ UNCHANGED table
  \/ /\ ~ Rejected(k)
     /\ ret' = 0
     /\ table' = [table EXCEPT ![Entry(k)] = <<k>> \o @]

\* removeFromListI at the place of k: its loop never advances i, so it removes
\* the first element of the list or nothing.
RemoveFromListI(list, k) == IF Head(list) = k THEN Tail(list) ELSE list

\* Mutant: a key that is not there is reported as removed.
RemoveFromHash_AlwaysZero(k) ==
  /\ ret' = 0
  /\ \/ /\ GetFromHash(k)
        /\ table' = [table EXCEPT ![Entry(k)] = RemoveFromListI(@, k)]
     \/ ~ GetFromHash(k) /\ UNCHANGED table

RemoveFromHash(k) ==
  \/ /\ GetFromHash(k)
     /\ ret' = 0
     /\ table' = [table EXCEPT ![Entry(k)] = RemoveFromListI(@, k)]
  \/ /\ ~ GetFromHash(k)
     /\ ret' = -1
     /\ UNCHANGED table

MapNext == \E k \in Keys : AddToHash(k) \/ RemoveFromHash(k)

MapSpec == MapInit /\ [][MapNext]_mapVars

\* The table of users: nobody is ever removed from it.
GrowingSpec == MapInit /\ [][\E k \in Keys : AddToHash(k)]_mapVars

-----------------------------------------------------------------------------
(* Properties.                                                             *)

\* hashValuesList has every value once, whatever shares a list and whatever
\* was removed: a league listed twice would be saved, and scored, twice.
ListedOnce ==
  \A e1, e2 \in Entries :
    \A i \in 1 .. Len(table[e1]) : \A j \in 1 .. Len(table[e2]) :
      table[e1][i] = table[e2][j] => e1 = e2 /\ i = j

\* Every key is in the list its hash names; with ListedOnce it is inductive.
InOwnList == \A e \in Entries : \A i \in 1 .. Len(table[e]) : Entry(table[e][i]) = e

HashInvariant == MapTypeOK /\ InOwnList /\ ListedOnce

D == INSTANCE Dictionary WITH
       DictionaryKeys <- Keys,
       present <- {k \in Keys : GetFromHash(k)},
       answer <- ret

\* A key of the same list whose value reads like that of k, as do two leagues
\* whose names start alike ...
TagTaken(k) ==
  \E i \in 1 .. Len(table[Entry(k)]) :
    table[Entry(k)][i] # k /\ Tag[table[Entry(k)][i]] = Tag[k]

\* ... and an entry after which another was put into its list: it stays, though
\* the call that is to remove it (HashMapADT.h:33) reports that it did.
Behind(k) == GetFromHash(k) /\ Head(table[Entry(k)]) # k

\* These two are all that keeps the table from being a dictionary: in every
\* other state a call does to the set of keys, and answers, what Put and Delete
\* do, whichever keys share the list.
ActsAsDictionary ==
  [][\A k \in Keys :
       /\ AddToHash(k) /\ ~ TagTaken(k) => D!Put(k)
       /\ RemoveFromHash(k) /\ ~ Behind(k) => D!Delete(k)]_mapVars

\* The table is a dictionary throughout if neither comes up: no two keys share
\* a list, as the IDs of the first hundred leagues, teams and trades do not, or
\* nothing is removed and the tags are the keys, as for the users.
IsDictionary == D!DictionarySpec

=============================================================================

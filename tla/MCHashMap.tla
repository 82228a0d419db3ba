----------------------------- MODULE MCHashMap -----------------------------
\* HashMapADT over small tables: IDs are small numbers, tables have few lists.
EXTENDS HashMapADT

\* hashInt and the tag of a trade, which starts with its ID.
IDHash == [k \in Keys |-> k]

\* hashString and the tag of a user, which starts with the name.
NameHash == [k \in Keys |-> 10]

\* The tag of a team or league: two of every three names start differently.
NameTag == [k \in Keys |-> k % 3]

=============================================================================

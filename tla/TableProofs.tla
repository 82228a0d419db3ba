---------------------------- MODULE TableProofs ---------------------------
(***************************************************************************)
(* The hash map, and the table of drafts that joinDraft keeps in one.      *)
(*                                                                         *)
(* For every hash and table size: a table lists each of its values once,   *)
(* and each call does what a dictionary's does but where a tag is taken or *)
(* an entry is behind another.                                             *)
(*                                                                         *)
(* For every number of teams and of joins: a draft starts only when it is  *)
(* full, and there is one as long as no two calls of joinDraft meet.       *)
(***************************************************************************)
EXTENDS HashMapADT, DraftJoin, FiniteSetTheorems, SequenceTheorems, TLAPS

LEMMA EntryType == \A k \in Keys : Entry(k) \in Entries
BY TableAssumption DEF Entry, Entries

\* A new entry is the head of its list, the others move up by one.
LEMMA ConsFacts ==
  ASSUME NEW k \in Keys, NEW list \in Seq(Keys)
  PROVE  LET new == <<k>> \o list
         IN  /\ new \in Seq(Keys)
             /\ Len(new) = Len(list) + 1
             /\ new[1] = k
             /\ \A i \in 1 .. Len(list) : new[i + 1] = list[i]
             /\ \A i \in 2 .. Len(new) : i - 1 \in 1 .. Len(list) /\ new[i] = list[i - 1]
OBVIOUS

\* A removal takes the head or nothing.
LEMMA RemoveFacts ==
  ASSUME NEW k \in Keys, NEW list \in Seq(Keys), InList(k, list)
  PROVE  LET new == RemoveFromListI(list, k)
         IN  \/ new = list /\ list[1] # k
             \/ /\ new \in Seq(Keys)
                /\ list[1] = k
                /\ Len(new) = Len(list) - 1
                /\ \A i \in 1 .. Len(new) : i + 1 \in 1 .. Len(list) /\ new[i] = list[i + 1]
BY DEF InList, RemoveFromListI

\* A key that is in the table at all is in the list of its entry; one that is
\* not rejected is in no list.
LEMMA NotListed ==
  ASSUME InOwnList, NEW k \in Keys, ~ Rejected(k)
  PROVE  \A e \in Entries : \A i \in 1 .. Len(table[e]) : table[e][i] # k
BY DEF InOwnList, Rejected

LEMMA AddKeepsInvariant ==
  ASSUME HashInvariant, NEW k \in Keys, AddToHash(k)
  PROVE  HashInvariant'
<1>1. CASE Rejected(k)
  BY <1>1 DEF AddToHash, HashInvariant, MapTypeOK, InOwnList, ListedOnce
<1>2. CASE ~ Rejected(k)
  <2> DEFINE e0 == Entry(k)
             new == <<k>> \o table[e0]
  <2>1. e0 \in Entries /\ table[e0] \in Seq(Keys)
    BY EntryType DEF HashInvariant, MapTypeOK
  <2>2. /\ table' = [table EXCEPT ![e0] = new]
        /\ ret' = 0
    BY <1>2 DEF AddToHash
  <2>3. /\ new \in Seq(Keys)
        /\ Len(new) = Len(table[e0]) + 1
        /\ new[1] = k
        /\ \A i \in 2 .. Len(new) : i - 1 \in 1 .. Len(table[e0]) /\ new[i] = table[e0][i - 1]
    BY <2>1, ConsFacts
  <2>4. table'[e0] = new /\ \A e \in Entries \ {e0} : table'[e] = table[e]
    BY <2>1, <2>2 DEF HashInvariant, MapTypeOK
  <2> HIDE DEF new, e0
  <2>5. MapTypeOK'
    BY <2>1, <2>2, <2>3 DEF HashInvariant, MapTypeOK
  <2>6. InOwnList'
    <3> SUFFICES ASSUME NEW e \in Entries, NEW i \in 1 .. Len(table'[e])
                 PROVE  Entry(table'[e][i]) = e
      BY DEF InOwnList, Entry
    <3>1. CASE e # e0
      BY <2>4, <3>1 DEF HashInvariant, InOwnList
    <3>2. CASE e = e0 /\ i = 1
      BY <2>3, <2>4, <3>2 DEF e0
    <3>3. CASE e = e0 /\ i # 1
      <4>1. i \in 2 .. Len(new)
        BY <2>3, <2>4, <3>3, <2>1
      <4> QED
        BY <2>1, <2>3, <2>4, <3>3, <4>1 DEF HashInvariant, InOwnList
    <3> QED
      BY <3>1, <3>2, <3>3
  <2>7. ListedOnce'
    <3> SUFFICES ASSUME NEW e1 \in Entries, NEW e2 \in Entries,
                        NEW i \in 1 .. Len(table'[e1]), NEW j \in 1 .. Len(table'[e2]),
                        table'[e1][i] = table'[e2][j]
                 PROVE  e1 = e2 /\ i = j
      BY DEF ListedOnce
    <3>1. e1 = e2
      BY <2>6 DEF InOwnList, Entry
    <3>2. CASE e1 # e0
      BY <2>4, <3>1, <3>2 DEF HashInvariant, ListedOnce
    <3>3. CASE e1 = e0
      <4>1. \A n \in 2 .. Len(new) : new[n] # k
        BY <1>2, <2>1, <2>3, NotListed DEF HashInvariant
      <4>2. i \in 1 .. Len(new) /\ j \in 1 .. Len(new) /\ new[i] = new[j]
        BY <2>4, <3>1, <3>3
      <4>3. CASE i = 1 \/ j = 1
        BY <2>1, <2>3, <4>1, <4>2, <4>3, <3>1
      <4>4. CASE i # 1 /\ j # 1
        <5>1. i \in 2 .. Len(new) /\ j \in 2 .. Len(new)
          BY <2>1, <2>3, <4>2, <4>4
        <5>2. table[e0][i - 1] = table[e0][j - 1]
          BY <2>3, <4>2, <5>1
        <5>3. i - 1 \in 1 .. Len(table[e0]) /\ j - 1 \in 1 .. Len(table[e0])
          BY <2>3, <5>1
        <5>4. \A a, b \in 1 .. Len(table[e0]) : table[e0][a] = table[e0][b] => a = b
          BY <2>1 DEF HashInvariant, ListedOnce
        <5>5. i - 1 = j - 1
          BY <5>2, <5>3, <5>4
        <5> QED
          BY <3>1, <5>1, <5>5
      <4> QED
        BY <4>3, <4>4
    <3> QED
      BY <3>2, <3>3
  <2> QED
    BY <2>5, <2>6, <2>7 DEF HashInvariant
<1> QED
  BY <1>1, <1>2

LEMMA RemoveKeepsInvariant ==
  ASSUME HashInvariant, NEW k \in Keys, RemoveFromHash(k)
  PROVE  HashInvariant'
<1> DEFINE e0 == Entry(k)
           new == RemoveFromListI(table[e0], k)
<1>1. e0 \in Entries /\ table[e0] \in Seq(Keys)
  BY EntryType DEF HashInvariant, MapTypeOK
<1>2. CASE UNCHANGED table /\ ret' \in {-1, 0, 1}
  BY <1>2 DEF HashInvariant, MapTypeOK, InOwnList, ListedOnce
<1>3. CASE /\ table' = [table EXCEPT ![e0] = new]
           /\ ret' = 0
           /\ new \in Seq(Keys)
           /\ Len(new) = Len(table[e0]) - 1
           /\ \A i \in 1 .. Len(new) :
                i + 1 \in 1 .. Len(table[e0]) /\ new[i] = table[e0][i + 1]
  <2>1. table'[e0] = new /\ \A e \in Entries \ {e0} : table'[e] = table[e]
    BY <1>1, <1>3 DEF HashInvariant, MapTypeOK
  <2> HIDE DEF new, e0
  <2>2. MapTypeOK'
    BY <1>1, <1>3 DEF HashInvariant, MapTypeOK
  <2>3. InOwnList'
    <3> SUFFICES ASSUME NEW e \in Entries, NEW i \in 1 .. Len(table'[e])
                 PROVE  Entry(table'[e][i]) = e
      BY DEF InOwnList, Entry
    <3> QED
      BY <1>1, <1>3, <2>1 DEF HashInvariant, InOwnList
  <2>4. ListedOnce'
    <3> SUFFICES ASSUME NEW e1 \in Entries, NEW e2 \in Entries,
                        NEW i \in 1 .. Len(table'[e1]), NEW j \in 1 .. Len(table'[e2]),
                        table'[e1][i] = table'[e2][j]
                 PROVE  e1 = e2 /\ i = j
      BY DEF ListedOnce
    <3>1. e1 = e2
      BY <2>3 DEF InOwnList, Entry
    <3>2. CASE e1 # e0
      BY <2>1, <3>1, <3>2 DEF HashInvariant, ListedOnce
    <3>3. CASE e1 = e0
      <4>1. table[e0][i + 1] = table[e0][j + 1]
        BY <1>3, <2>1, <3>1, <3>3
      <4>2. i + 1 = j + 1
        BY <1>1, <1>3, <2>1, <3>1, <3>3, <4>1 DEF HashInvariant, ListedOnce
      <4> QED
        BY <3>1, <4>2
    <3> QED
      BY <3>2, <3>3
  <2> QED
    BY <2>2, <2>3, <2>4 DEF HashInvariant
<1>4. CASE new = table[e0] /\ GetFromHash(k) /\ table' = [table EXCEPT ![e0] = new] /\ ret' = 0
  BY <1>1, <1>2, <1>4 DEF HashInvariant, MapTypeOK
<1> QED
  BY <1>1, <1>2, <1>3, <1>4, RemoveFacts DEF RemoveFromHash, GetFromHash

LEMMA InitInvariant == MapInit => HashInvariant
BY DEF MapInit, HashInvariant, MapTypeOK, InOwnList, ListedOnce

\* Each value is listed once, for every hash, tag and size of table, with
\* the removals that remove nothing.
THEOREM ValuesListedOnce == MapSpec => []ListedOnce
<1>1. HashInvariant /\ [MapNext]_mapVars => HashInvariant'
  <2>1. HashInvariant /\ UNCHANGED mapVars => HashInvariant'
    BY DEF mapVars, HashInvariant, MapTypeOK, InOwnList, ListedOnce
  <2> QED
    BY <2>1, AddKeepsInvariant, RemoveKeepsInvariant DEF MapNext
<1>2. HashInvariant => ListedOnce
  BY DEF HashInvariant
<1> QED
  BY <1>1, <1>2, InitInvariant, PTL DEF MapSpec

-----------------------------------------------------------------------------
(* The table as a dictionary.                                              *)

\* Where no other key of the list has the tag of k, addToHash is Put.
LEMMA AddIsPut ==
  ASSUME HashInvariant, NEW k \in Keys, AddToHash(k), ~ TagTaken(k)
  PROVE  D!Put(k)
<1> DEFINE e0 == Entry(k)
           new == <<k>> \o table[e0]
<1>1. e0 \in Entries /\ table[e0] \in Seq(Keys)
  BY EntryType DEF HashInvariant, MapTypeOK
<1>2. GetFromHash(k) <=> Rejected(k)
  <2>1. \A i \in 1 .. Len(table[e0]) : table[e0][i] \in Keys /\ Entry(table[e0][i]) = e0
    BY <1>1 DEF HashInvariant, InOwnList
  <2> QED
    BY <2>1 DEF GetFromHash, InList, Rejected, TagTaken
<1>3. CASE Rejected(k)
  <2>1. UNCHANGED table /\ ret' = 1
    BY <1>3 DEF AddToHash
  <2>2. \A x \in Keys : GetFromHash(x)' <=> GetFromHash(x)
    BY <2>1 DEF GetFromHash, InList, Entry
  <2> QED
    BY <1>2, <1>3, <2>1, <2>2 DEF D!Put
<1>4. CASE ~ Rejected(k)
  <2>1. table' = [table EXCEPT ![e0] = new] /\ ret' = 0
    BY <1>4 DEF AddToHash
  <2>2. table'[e0] = new /\ \A e \in Entries \ {e0} : table'[e] = table[e]
    BY <1>1, <2>1 DEF HashInvariant, MapTypeOK
  <2>3. \A x \in Keys : InList(x, new) <=> x = k \/ InList(x, table[e0])
    <3>1. /\ Len(new) = Len(table[e0]) + 1
          /\ new[1] = k
          /\ \A i \in 1 .. Len(table[e0]) : new[i + 1] = table[e0][i]
          /\ \A i \in 2 .. Len(new) : i - 1 \in 1 .. Len(table[e0]) /\ new[i] = table[e0][i - 1]
      BY <1>1, ConsFacts
    <3> HIDE DEF new, e0
    <3>2. ASSUME NEW x \in Keys, InList(x, new), x # k
          PROVE  InList(x, table[e0])
      <4>1. PICK i \in 1 .. Len(new) : new[i] = x
        BY <3>2 DEF InList
      <4>2. i \in 2 .. Len(new)
        BY <1>1, <3>1, <3>2, <4>1
      <4> QED
        BY <3>1, <4>1, <4>2 DEF InList
    <3>3. ASSUME NEW x \in Keys, InList(x, table[e0])
          PROVE  InList(x, new)
      <4>1. PICK i \in 1 .. Len(table[e0]) : table[e0][i] = x
        BY <3>3 DEF InList
      <4>2. i + 1 \in 1 .. Len(new)
        BY <1>1, <3>1
      <4> QED
        BY <3>1, <4>1, <4>2 DEF InList
    <3>4. InList(k, new)
      <4>1. 1 \in 1 .. Len(new)
        BY <1>1, <3>1
      <4> QED
        BY <3>1, <4>1 DEF InList
    <3> QED
      BY <3>2, <3>3, <3>4
  <2>4. \A x \in Keys : GetFromHash(x)' <=> x = k \/ GetFromHash(x)
    <3> SUFFICES ASSUME NEW x \in Keys
                 PROVE  InList(x, table'[Entry(x)]) <=> x = k \/ InList(x, table[Entry(x)])
      BY DEF GetFromHash, InList, Entry
    <3>1. CASE Entry(x) = e0
      BY <2>2, <2>3, <3>1
    <3>2. CASE Entry(x) # e0
      BY <2>2, <3>2, EntryType
    <3> QED
      BY <3>1, <3>2
  <2> QED
    BY <1>2, <1>4, <2>1, <2>4 DEF D!Put
<1> QED
  BY <1>3, <1>4

\* Where k is the head of its list, or not in it, removeFromHash is Delete.
LEMMA RemoveIsDelete ==
  ASSUME HashInvariant, NEW k \in Keys, RemoveFromHash(k), ~ Behind(k)
  PROVE  D!Delete(k)
<1> DEFINE e0 == Entry(k)
           list == table[e0]
           new == RemoveFromListI(list, k)
<1>1. e0 \in Entries /\ list \in Seq(Keys)
  BY EntryType DEF HashInvariant, MapTypeOK
<1>2. CASE ~ GetFromHash(k)
  <2>1. UNCHANGED table /\ ret' = -1
    BY <1>2 DEF RemoveFromHash
  <2>2. \A x \in Keys : GetFromHash(x)' <=> GetFromHash(x)
    BY <2>1 DEF GetFromHash, InList, Entry
  <2> QED
    BY <1>2, <2>1, <2>2 DEF D!Delete
<1>3. CASE GetFromHash(k)
  <2>1. table' = [table EXCEPT ![e0] = new] /\ ret' = 0
    BY <1>3 DEF RemoveFromHash
  <2>2. table'[e0] = new /\ \A e \in Entries \ {e0} : table'[e] = table[e]
    BY <1>1, <2>1 DEF HashInvariant, MapTypeOK
  <2>3. \A x \in Keys : InList(x, new) <=> x # k /\ InList(x, list)
    <3>1. Len(list) \in Nat \ {0} /\ list[1] = k
      BY <1>1, <1>3 DEF GetFromHash, InList, Behind
    <3>2. /\ new \in Seq(Keys)
          /\ Len(new) = Len(list) - 1
          /\ \A i \in 1 .. Len(new) : i + 1 \in 1 .. Len(list) /\ new[i] = list[i + 1]
      BY <1>1, <1>3, <3>1, RemoveFacts DEF GetFromHash
    <3>3. \A i \in 1 .. Len(list) : list[i] = k => i = 1
      BY <1>1, <3>1 DEF HashInvariant, ListedOnce
    <3> HIDE DEF new, list, e0
    <3>4. ASSUME NEW x \in Keys, InList(x, new)
          PROVE  x # k /\ InList(x, list)
      <4>1. PICK i \in 1 .. Len(new) : new[i] = x
        BY <3>4 DEF InList
      <4>2. i + 1 \in 1 .. Len(list) /\ list[i + 1] = x /\ i + 1 # 1
        BY <3>1, <3>2, <4>1
      <4> QED
        BY <3>3, <4>2 DEF InList
    <3>5. ASSUME NEW x \in Keys, x # k, InList(x, list)
          PROVE  InList(x, new)
      <4>1. PICK i \in 1 .. Len(list) : list[i] = x
        BY <3>5 DEF InList
      <4>2. i - 1 \in 1 .. Len(new) /\ (i - 1) + 1 = i
        BY <3>1, <3>2, <3>5, <4>1
      <4> QED
        BY <3>2, <4>1, <4>2 DEF InList
    <3> QED
      BY <3>4, <3>5
  <2>4. \A x \in Keys : GetFromHash(x)' <=> x # k /\ GetFromHash(x)
    <3> SUFFICES ASSUME NEW x \in Keys
                 PROVE  InList(x, table'[Entry(x)]) <=> x # k /\ InList(x, table[Entry(x)])
      BY DEF GetFromHash, InList, Entry
    <3>1. CASE Entry(x) = e0
      BY <2>2, <2>3, <3>1
    <3>2. CASE Entry(x) # e0
      BY <2>2, <3>2, EntryType
    <3> QED
      BY <3>1, <3>2
  <2> QED
    BY <1>3, <2>1, <2>4 DEF D!Delete
<1> QED
  BY <1>2, <1>3

\* Whatever the hash, the tags and the table, a call does what the dictionary's
\* does unless its tag is taken or its entry is behind another.
THEOREM HashActsAsDictionary == MapSpec => ActsAsDictionary
<1>1. HashInvariant /\ [MapNext]_mapVars => HashInvariant'
  <2>1. HashInvariant /\ UNCHANGED mapVars => HashInvariant'
    BY DEF mapVars, HashInvariant, MapTypeOK, InOwnList, ListedOnce
  <2> QED
    BY <2>1, AddKeepsInvariant, RemoveKeepsInvariant DEF MapNext
<1>2. HashInvariant
        => [\A k \in Keys :
              /\ AddToHash(k) /\ ~ TagTaken(k) => D!Put(k)
              /\ RemoveFromHash(k) /\ ~ Behind(k) => D!Delete(k)]_mapVars
  BY AddIsPut, RemoveIsDelete
<1> QED
  BY <1>1, <1>2, InitInvariant, PTL DEF MapSpec, ActsAsDictionary

LEMMA InitIsEmpty ==
  MapInit => {k \in Keys : GetFromHash(k)} = {} /\ ret = 0
BY EntryType DEF MapInit, GetFromHash, InList

LEMMA StutterIsStutter ==
  UNCHANGED mapVars => UNCHANGED <<{k \in Keys : GetFromHash(k)}, ret>>
BY DEF mapVars, GetFromHash, InList, Entry

\* A table of IDs none of which is the size of the table above another is a
\* dictionary, removals and all.
THEOREM UnsharedIsDictionary ==
  ASSUME \A k1, k2 \in Keys : Entry(k1) = Entry(k2) => k1 = k2
  PROVE  MapSpec => IsDictionary
<1>1. HashInvariant /\ [MapNext]_mapVars => HashInvariant'
  <2>1. HashInvariant /\ UNCHANGED mapVars => HashInvariant'
    BY DEF mapVars, HashInvariant, MapTypeOK, InOwnList, ListedOnce
  <2> QED
    BY <2>1, AddKeepsInvariant, RemoveKeepsInvariant DEF MapNext
<1>2. HashInvariant /\ [MapNext]_mapVars
        => [\E k \in Keys : D!Put(k) \/ D!Delete(k)]_<<{k \in Keys : GetFromHash(k)}, ret>>
  <2>1. ASSUME HashInvariant, NEW k \in Keys
        PROVE  ~ TagTaken(k) /\ ~ Behind(k)
    <3>1. \A i \in 1 .. Len(table[Entry(k)]) : table[Entry(k)][i] = k
      BY <2>1, EntryType DEF HashInvariant, MapTypeOK, InOwnList
    <3>2. GetFromHash(k) => Head(table[Entry(k)]) = k
      BY <2>1, <3>1, EntryType DEF HashInvariant, MapTypeOK, GetFromHash, InList
    <3> QED
      BY <3>1, <3>2 DEF TagTaken, Behind
  <2>2. HashInvariant /\ MapNext => \E k \in Keys : D!Put(k) \/ D!Delete(k)
    BY <2>1, AddIsPut, RemoveIsDelete DEF MapNext
  <2> QED
    BY <2>2, StutterIsStutter
<1> QED
  BY <1>1, <1>2, InitInvariant, InitIsEmpty, PTL
  DEF MapSpec, IsDictionary, D!DictionarySpec

\* A table from which nothing is removed is a dictionary if its values can be
\* told apart by their tags: the users, whatever their names hash to.
THEOREM GrowingIsDictionary ==
  ASSUME \A k1, k2 \in Keys : Tag[k1] = Tag[k2] => k1 = k2
  PROVE  GrowingSpec => IsDictionary
<1>1. HashInvariant /\ [\E k \in Keys : AddToHash(k)]_mapVars => HashInvariant'
  <2>1. HashInvariant /\ UNCHANGED mapVars => HashInvariant'
    BY DEF mapVars, HashInvariant, MapTypeOK, InOwnList, ListedOnce
  <2> QED
    BY <2>1, AddKeepsInvariant
<1>2. HashInvariant /\ [\E k \in Keys : AddToHash(k)]_mapVars
        => [\E k \in Keys : D!Put(k) \/ D!Delete(k)]_<<{k \in Keys : GetFromHash(k)}, ret>>
  <2>1. ASSUME HashInvariant, NEW k \in Keys
        PROVE  ~ TagTaken(k)
    <3>1. Entry(k) \in Entries /\ table[Entry(k)] \in Seq(Keys)
      BY <2>1, EntryType DEF HashInvariant, MapTypeOK
    <3>2. \A i \in 1 .. Len(table[Entry(k)]) : table[Entry(k)][i] \in Keys
      BY <3>1
    <3> QED
      BY <3>2 DEF TagTaken
  <2> QED
    BY <2>1, AddIsPut, StutterIsStutter
<1> QED
  BY <1>1, <1>2, InitInvariant, InitIsEmpty, PTL
  DEF GrowingSpec, IsDictionary, D!DictionarySpec
-----------------------------------------------------------------------------
(* joinDraft and the table of drafts.                                      *)

\* What a call holds was allocated; a thread finds a draft.
Creating == {t \in Teams : pc[t] = "create"}

JoinShape ==
  /\ made > 0 <=> drafts # << >>
  /\ made + Cardinality(Creating) <= joins
  /\ \A t \in Teams : pc[t] \notin {"idle", "create"} => obj[t] \in Drafts /\ made > 0
  /\ \A d \in Drafts : thread[d] # "none" => made > 0
  /\ \A d \in Drafts : thread[d] \notin {"none", "created"} => of[d] \in Drafts
  /\ freed # {} => made > 0

\* The joins made to a draft less those not counted yet.
Counting(d) == {t \in Teams : pc[t] \in {"count", "store"} /\ obj[t] = d}
Stored(d) == entered[d] - Cardinality(Counting(d))

\* A count was read when no more joins than now were stored.
JoinCounts ==
  /\ \A d \in Drafts : cant[d] <= Stored(d)
  /\ \A t \in Teams : pc[t] = "store" => read[t] <= Stored(obj[t])
  /\ \A d \in Begun : entered[of[d]] >= NTeams

\* Calls that have not met make one draft, and the teams enter it one by one.
OneByOne ==
  /\ \A t, u \in Teams : pc[t] # "idle" /\ pc[u] # "idle" => t = u
  /\ made <= 1
  /\ made = 1 => drafts = <<1>>
  /\ \A t \in Teams : pc[t] = "create" => made = 0
  /\ \A t \in Teams : pc[t] \notin {"idle", "create"} => obj[t] = 1
  /\ \A t \in Teams : pc[t] = "idle" <=> client[t] # "joining"
  /\ \A d \in Drafts : thread[d] # "none" => d = 1
  /\ \A d \in Drafts : thread[d] \notin {"none", "created"} => of[d] = 1

\* The user is in the draft, or has left it with his last message unread.
HasJoined(t) == client[t] = "drafting" \/ pc[t] \in {"count", "store"} \/ mail[t] # "none"

EmptyDraft == entered[1] = 0 /\ pipe[1] = {} /\ thread[1] = "none"

DraftFills ==
  /\ made = 0 => EmptyDraft
  /\ \A t \in Teams : pc[t] \in {"create", "list", "clear", "start"} => EmptyDraft
  /\ \A t \in Teams : pc[t] = "list" => 0 .. index[t] - 1 \subseteq hash[1]
  /\ \A t \in Teams : pc[t] = "clear" => 0 .. index[t] \subseteq hash[1]
  /\ made = 1 /\ (\A t \in Teams : pc[t] \notin {"list", "clear"}) => hash[1] = Teams
  /\ \A t \in Teams : HasJoined(t) => t \in pipe[1]
  /\ ~ returned => /\ entered[1] = Cardinality(pipe[1])
                   /\ \A t \in Teams : pc[t] = "enter" => t \notin pipe[1]
                   /\ 1 \in Begun => pipe[1] = Teams

DraftLives ==
  /\ freed # {} => thread[1] = "done"
  /\ up \/ thread[1] \in {"over", "done"}

JoinInvariant ==
  /\ JoinTypeOK /\ JoinShape /\ JoinCounts
  /\ ~ met => OneByOne /\ DraftFills /\ DraftLives

LEMMA TeamSets ==
  /\ IsFiniteSet(Teams) /\ Cardinality(Teams) = NTeams
  /\ \A S \in SUBSET Teams : IsFiniteSet(S) /\ Cardinality(S) \in Nat
  /\ \A S \in SUBSET Teams : Cardinality(S) >= NTeams => S = Teams
<1>1. NTeams \in Nat /\ Teams = 0 .. NTeams - 1
  BY JoinAssumption DEF Teams
<1>2. IsFiniteSet(Teams) /\ Cardinality(Teams) = NTeams
  <2>1. 0 \in Int /\ NTeams - 1 \in Int /\ (0 > NTeams - 1 => NTeams = 0)
    BY <1>1
  <2>2. IsFiniteSet(0 .. NTeams - 1)
        /\ Cardinality(0 .. NTeams - 1) = IF 0 > NTeams - 1 THEN 0 ELSE (NTeams - 1) - 0 + 1
    BY <2>1, FS_Interval
  <2> QED
    BY <1>1, <2>2
<1>3. ASSUME NEW S \in SUBSET Teams
      PROVE  /\ IsFiniteSet(S) /\ Cardinality(S) \in Nat
             /\ Cardinality(S) >= NTeams => S = Teams
  <2>1. S \subseteq Teams
    OBVIOUS
  <2>2. IsFiniteSet(S) /\ Cardinality(S) <= Cardinality(Teams)
        /\ (Cardinality(S) = Cardinality(Teams) => S = Teams)
    BY ONLY <1>2, <2>1, FS_Subset
  <2>3. Cardinality(S) \in Nat
    BY <2>2, FS_CardinalityType
  <2> QED
    BY <1>1, <1>2, <2>2, <2>3
<1> QED
  BY <1>2, <1>3

\* One more, one less.
LEMMA OneTeam ==
  ASSUME NEW S \in SUBSET Teams, NEW t \in Teams
  PROVE  /\ t \notin S => Cardinality(S \cup {t}) = Cardinality(S) + 1
         /\ t \in S => Cardinality(S \ {t}) = Cardinality(S) - 1
<1>1. IsFiniteSet(S)
  BY TeamSets
<1> QED
  BY <1>1, FS_AddElement, FS_RemoveElement

\* A step that changes neither who is to be counted nor how many joined.
LEMMA StoredSame ==
  ASSUME UNCHANGED entered,
         \A t \in Teams : /\ pc'[t] \in {"count", "store"} <=> pc[t] \in {"count", "store"}
                          /\ pc[t] \in {"count", "store"} => obj'[t] = obj[t],
         NEW d \in Drafts
  PROVE  Stored(d)' = Stored(d)
<1>1. Counting(d)' = Counting(d)
  BY DEF Counting
<1> QED
  BY <1>1, Zenon DEF Stored

LEMMA StoredType ==
  ASSUME JoinTypeOK, NEW d \in Drafts
  PROVE  Stored(d) \in Int /\ Stored(d) <= entered[d]
<1>1. Counting(d) \in SUBSET Teams
  BY DEF Counting
<1>2. Cardinality(Counting(d)) \in Nat
  BY <1>1, TeamSets
<1>3. entered[d] \in Nat
  BY DEF JoinTypeOK
<1> QED
  BY <1>2, <1>3 DEF Stored

LEMMA CreatingType == Creating \in SUBSET Teams /\ Cardinality(Creating) \in Nat
<1>1. Creating \in SUBSET Teams
  BY DEF Creating
<1> QED
  BY <1>1, TeamSets

\* A step of the call of the team t that leaves who is to create.
LEMMA CreatingSame ==
  ASSUME \A t \in Teams : pc'[t] = "create" <=> pc[t] = "create"
  PROVE  Creating' = Creating
BY DEF Creating

\* A step that neither counts nor begins a draft.
LEMMA CountsSame ==
  ASSUME JoinTypeOK, JoinShape, JoinCounts, UNCHANGED <<cant, entered, read, of>>,
         Begun' = Begun,
         \A t \in Teams : /\ pc'[t] \in {"count", "store"} <=> pc[t] \in {"count", "store"}
                          /\ pc'[t] = "store" => pc[t] = "store"
                          /\ pc[t] \in {"count", "store"} => obj'[t] = obj[t]
  PROVE  JoinCounts'
<1>1. \A d \in Drafts : Stored(d)' = Stored(d)
  BY StoredSame
<1>2. \A d \in Drafts : cant'[d] <= Stored(d)'
  BY <1>1 DEF JoinCounts
<1>3. ASSUME NEW t \in Teams, pc'[t] = "store"
      PROVE  read'[t] <= Stored(obj[t])' /\ obj'[t] = obj[t]
  <2>1. pc[t] = "store" /\ obj'[t] = obj[t] /\ obj[t] \in Drafts
    BY <1>3 DEF JoinShape
  <2> QED
    BY <1>1, <2>1 DEF JoinCounts
<1>4. \A d \in Begun' : entered'[of'[d]] >= NTeams
  BY DEF JoinCounts
<1> QED
  BY <1>2, <1>3, <1>4 DEF JoinCounts

LEMMA LookUpJoins ==
  ASSUME JoinInvariant, NEW t \in Teams, LookUp(t)
  PROVE  JoinInvariant'
<1> USE DEF JoinInvariant, Drafts, At, GoTo, Touch, tableVars, draftVars, endVars, callVars,
            threadVars, userVars, LookUp
<1>0. /\ pc[t] = "idle" /\ joins + 1 \in 1 .. MaxJoins
      /\ \/ drafts = << >> /\ pc' = [pc EXCEPT ![t] = "create"] /\ obj' = [obj EXCEPT ![t] = NoDraft]
         \/ /\ drafts # << >> /\ Head(drafts) \in Drafts
            /\ pc' = [pc EXCEPT ![t] = "enter"] /\ obj' = [obj EXCEPT ![t] = Head(drafts)]
  <2>1. joins + 1 \in 1 .. MaxJoins
    BY JoinAssumption DEF JoinTypeOK
  <2>2. drafts # << >> => Head(drafts) \in Drafts
    <3>1. drafts \in Seq(1 .. MaxJoins)
      BY DEF JoinTypeOK
    <3> QED
      BY ONLY <3>1, HeadTailProperties DEF Drafts
  <2> QED
    <3>1. CASE drafts = << >> /\ obj' = [obj EXCEPT ![t] = NoDraft] /\ GoTo(t, "create")
      BY <2>1, <3>1
    <3>2. CASE drafts # << >> /\ obj' = [obj EXCEPT ![t] = Head(drafts)] /\ GoTo(t, "enter")
      BY <2>1, <2>2, <3>2
    <3> QED
      BY <3>1, <3>2, Zenon DEF Found
<1>1. JoinTypeOK'
  <2>1. met' \in BOOLEAN /\ returned' \in BOOLEAN
    BY Zenon DEF JoinTypeOK
  <2>2. /\ pc \in [Teams -> {"idle", "create", "list", "clear", "start", "enter", "count", "store"}]
        /\ obj \in [Teams -> Drafts \cup {NoDraft}]
    BY DEF JoinTypeOK
  <2>3. /\ pc' \in [Teams -> {"idle", "create", "list", "clear", "start", "enter", "count", "store"}]
        /\ obj' \in [Teams -> Drafts \cup {NoDraft}]
    BY ONLY <1>0, <2>2 DEF NoDraft
  <2>4. joins' \in 0 .. MaxJoins
    BY <1>0
  <2> QED
    BY <2>1, <2>3, <2>4 DEF JoinTypeOK
<1>2. JoinShape'
  <2>1. Creating' \in {Creating, Creating \cup {t}} /\ t \notin Creating
    BY <1>0 DEF JoinTypeOK, Creating
  <2>2. Cardinality(Creating') <= Cardinality(Creating) + 1 /\ Cardinality(Creating') \in Int
    BY <2>1, CreatingType, OneTeam
  <2>3. made + Cardinality(Creating) <= joins /\ made \in Int /\ joins \in Int
    BY JoinAssumption DEF JoinTypeOK, JoinShape
  <2>4. made' + Cardinality(Creating') <= joins'
    BY <2>2, <2>3, CreatingType
  <2>5. pc'[t] # "create" => obj'[t] \in Drafts /\ made > 0
    BY <1>0 DEF JoinTypeOK, JoinShape
  <2> QED
    BY <1>0, <2>4, <2>5, ZenonT(30) DEF JoinTypeOK, JoinShape
<1>3. \A e \in Drafts : Stored(e)' = Stored(e)
  BY <1>0, StoredSame DEF JoinTypeOK, JoinShape
<1>4. JoinCounts'
  <2>1. Begun' = Begun
    BY DEF Begun
  <2>2. \A u \in Teams : /\ pc'[u] \in {"count", "store"} <=> pc[u] \in {"count", "store"}
                         /\ pc'[u] = "store" => pc[u] = "store"
                         /\ pc[u] \in {"count", "store"} => obj'[u] = obj[u]
    BY <1>0 DEF JoinTypeOK
  <2> QED
    BY <2>1, <2>2, CountsSame
<1>5. ASSUME ~ met'
      PROVE  OneByOne' /\ DraftFills' /\ DraftLives'
  <2>0. ~ met /\ \A u \in Teams \ {t} : pc[u] = "idle"
    BY <1>5
  <2>1. OneByOne'
    <3>1. IF drafts = << >> THEN made = 0 ELSE Head(drafts) = 1
      <4>1. made \in Nat
        BY DEF JoinTypeOK
      <4>2. IF drafts = << >> THEN made = 0 ELSE drafts = <<1>>
        BY <2>0, <4>1 DEF JoinShape, OneByOne
      <4> QED
        BY <4>2
    <3>2. \A u \in Teams \ {t} : pc'[u] = "idle" /\ obj'[u] = obj[u] /\ client'[u] = client[u]
      BY <1>0, <2>0 DEF JoinTypeOK
    <3>3. /\ pc'[t] \in {"create", "enter"} /\ client'[t] = "joining"
          /\ pc'[t] = "create" => made = 0
          /\ pc'[t] = "enter" => obj'[t] = 1
      BY <1>0, <3>1 DEF JoinTypeOK
    <3> QED
      BY <2>0, <3>2, <3>3 DEF OneByOne
  <2>2. DraftFills'
    <3>1. \A u \in Teams \ {t} : pc'[u] = pc[u] /\ client'[u] = client[u]
      BY <1>0 DEF JoinTypeOK
    <3>2. pc'[t] \in {"create", "enter"} /\ client'[t] = "joining" /\ pc[t] = "idle" /\ client[t] = "shell"
      BY <1>0 DEF JoinTypeOK
    <3>3. Begun' = Begun
      BY DEF Begun
    <3>4. pc'[t] = "create" => EmptyDraft
      BY <2>0, <2>1, <3>2 DEF OneByOne, DraftFills
    <3>5. \A u \in Teams : HasJoined(u)' <=> HasJoined(u)
      BY <3>1, <3>2 DEF HasJoined
    <3>6. EmptyDraft' = EmptyDraft
      BY DEF EmptyDraft
    <3>7. ~ returned' => ~ returned /\ t \notin pipe[1]
      <4>1. 1 \in Drafts
        BY JoinAssumption
      <4> QED
        BY <4>1, Zenon
    <3> QED
      BY <2>0, <3>1, <3>2, <3>3, <3>4, <3>5, <3>6, <3>7 DEF DraftFills
  <2>3. DraftLives'
    BY <1>5 DEF JoinTypeOK, JoinShape, OneByOne, DraftFills, DraftLives, Begun
  <2> QED
    BY <2>1, <2>2, <2>3
<1> QED
  BY <1>1, <1>2, <1>4, <1>5

LEMMA CreateJoins ==
  ASSUME JoinInvariant, NEW t \in Teams, Create(t)
  PROVE  JoinInvariant'
<1> USE DEF JoinInvariant, Drafts, At, GoTo, Touch, tableVars, draftVars, endVars, callVars,
            threadVars, userVars, Create
<1>0. /\ pc[t] = "create" /\ pc' = [pc EXCEPT ![t] = "list"]
      /\ made + 1 \in Drafts /\ made' = made + 1 /\ Creating' = Creating \ {t}
      /\ made' + Cardinality(Creating') <= joins
      /\ drafts' \in Seq(Drafts) /\ drafts' # << >>
      /\ made = 0 => drafts' = <<1>>
  <2>1. t \in Creating /\ Creating' = Creating \ {t}
    BY DEF Creating, JoinTypeOK
  <2>2. Cardinality(Creating') = Cardinality(Creating) - 1 /\ Cardinality(Creating') \in Nat
    BY <2>1, CreatingType, OneTeam, TeamSets
  <2>3. made \in Nat /\ joins \in Nat /\ joins <= MaxJoins /\ MaxJoins \in Nat
        /\ made + Cardinality(Creating) <= joins
    BY JoinAssumption DEF JoinTypeOK, JoinShape
  <2>4. made + 1 \in Drafts /\ made + 1 + Cardinality(Creating') <= joins
    BY <2>2, <2>3, CreatingType
  <2>5. made = 0 => drafts = << >> /\ freed = {} /\ ~ TurnedAway
    BY <2>3 DEF JoinShape, JoinTypeOK, TurnedAway
  <2>6. made # 0 => drafts # << >>
    BY <2>3 DEF JoinShape, JoinTypeOK
  <2> DEFINE new == <<made + 1>> \o drafts
  <2>7. new \in Seq(Drafts) /\ new # << >> /\ (drafts = << >> => new = <<made + 1>>)
    <3>1. drafts \in Seq(1 .. MaxJoins) /\ made + 1 \in 1 .. MaxJoins
      BY <2>4 DEF JoinTypeOK
    <3>2. <<made + 1>> \in Seq(1 .. MaxJoins) /\ <<made + 1>> # << >>
      BY <3>1
    <3>3. new \in Seq(1 .. MaxJoins)
      BY ONLY <3>1, <3>2, ConcatProperties
    <3>4. new # << >>
      BY ONLY <3>1, <3>2, ConcatEqualIffEmpty
    <3>5. drafts = << >> => new = <<made + 1>>
      BY ONLY <3>1, <3>2, ConcatEmptySeq
    <3> QED
      BY <3>3, <3>4, <3>5
  <2>8. drafts' = new \/ (drafts' = drafts /\ made # 0)
    <3>1. made' = made + 1
      OBVIOUS
    <3>2. \/ drafts' = <<made'>> \o drafts
          \/ (TurnedAway \/ freed # {}) /\ drafts' = drafts
      BY Zenon
    <3> QED
      BY <2>5, <3>1, <3>2
  <2>9. CASE made = 0
    <3>1. <<made + 1>> = <<1>> /\ drafts' = new
      BY <2>8, <2>9
    <3> QED
      BY <2>1, <2>4, <2>5, <2>7, <2>9, <3>1
  <2>10. CASE made # 0
    BY <2>1, <2>4, <2>6, <2>7, <2>8, <2>10 DEF JoinTypeOK
  <2> QED
    BY <2>9, <2>10
<1>1. JoinTypeOK'
  <2>1. 0 \in Teams /\ joins <= MaxJoins /\ made' \in 0 .. MaxJoins
    BY <1>0, JoinAssumption DEF JoinTypeOK, Teams
  <2> QED
    BY <1>0, <2>1, SMTT(30) DEF JoinTypeOK
<1>2. JoinShape'
  BY <1>0 DEF JoinTypeOK, JoinShape
<1>3. \A e \in Drafts : Stored(e)' = Stored(e)
  BY <1>0, StoredSame DEF JoinTypeOK, JoinShape
<1>4. JoinCounts'
  BY <1>3, StoredType DEF JoinTypeOK, JoinShape, JoinCounts, Begun
<1>5. ASSUME ~ met'
      PROVE  OneByOne' /\ DraftFills' /\ DraftLives'
  <2>1. OneByOne'
    BY <1>0, <1>5 DEF JoinTypeOK, JoinShape, OneByOne
  <2>2. DraftFills'
    <3>1. made = 0 /\ 1 \in Drafts /\ EmptyDraft
      BY <1>0, <1>5, JoinAssumption DEF OneByOne, DraftFills
    <3>2. 0 .. index'[t] - 1 = {}
      BY DEF JoinTypeOK
    <3> QED
      BY <1>0, <1>5, <2>1, <3>1, <3>2 DEF JoinTypeOK, OneByOne, DraftFills, EmptyDraft, HasJoined, Begun
  <2>3. DraftLives'
    BY <1>5 DEF JoinTypeOK, JoinShape, OneByOne, DraftFills, DraftLives, Begun
  <2> QED
    BY <2>1, <2>2, <2>3
<1> QED
  BY <1>1, <1>2, <1>4, <1>5

LEMMA ListTeamJoins ==
  ASSUME JoinInvariant, NEW t \in Teams, ListTeam(t)
  PROVE  JoinInvariant'
<1> USE DEF JoinInvariant, Drafts, At, GoTo, Touch, tableVars, draftVars, endVars, callVars,
            threadVars, userVars, ListTeam
<1>0. /\ pc[t] = "list" /\ pc'[t] = "clear" /\ obj[t] \in Drafts
      /\ \A u \in Teams \ {t} : pc'[u] = pc[u]
  BY DEF JoinTypeOK, JoinShape
<1>00. index[t] \in Teams /\ hash[obj[t]] \cup {index[t]} \in SUBSET Teams
  BY <1>0 DEF JoinTypeOK
<1>1. JoinTypeOK'
  BY <1>00 DEF JoinTypeOK
<1>2. JoinShape'
  BY <1>0 DEF JoinTypeOK, JoinShape, Creating
<1>3. \A e \in Drafts : Stored(e)' = Stored(e)
  BY StoredSame DEF JoinTypeOK, JoinShape
<1>4. JoinCounts'
  <2>1. Begun' = Begun
    BY DEF Begun
  <2> QED
    BY <1>0, <2>1, CountsSame
<1>5. ASSUME ~ met'
      PROVE  OneByOne' /\ DraftFills' /\ DraftLives'
  <2>0. /\ ~ met /\ \A u \in Teams \ {t} : pc[u] = "idle"
        /\ obj[t] = 1 /\ 1 \in Drafts /\ made = 1 /\ drafts = <<1>>
    <3>1. made \in Nat /\ made <= 1
      BY <1>5 DEF JoinTypeOK, OneByOne
    <3>2. made > 0
      BY <1>0 DEF JoinShape
    <3> QED
      BY <1>0, <1>5, <3>1, <3>2, JoinAssumption DEF OneByOne
  <2>1. OneByOne'
    BY <1>0, <1>5, <2>0 DEF JoinTypeOK, JoinShape, OneByOne
  <2>2. DraftFills'
    <3>1. hash'[1] = hash[1] \cup {index[t]} /\ EmptyDraft /\ EmptyDraft' /\ 0 .. index[t] - 1 \subseteq hash[1]
      BY <1>0, <2>0 DEF JoinTypeOK, DraftFills, EmptyDraft
    <3>2. index[t] \in Nat
      BY <1>00, JoinAssumption DEF Teams
    <3>3. 0 .. index[t] \subseteq hash'[1]
      BY <3>1, <3>2
    <3>4. Begun' = Begun
      BY DEF Begun
    <3>5. \A u \in Teams : HasJoined(u)' <=> HasJoined(u)
      BY <1>0 DEF HasJoined
    <3> QED
      BY <1>0, <2>0, <3>1, <3>3, <3>4, <3>5 DEF DraftFills
  <2>3. DraftLives'
    BY <1>5 DEF JoinTypeOK, JoinShape, OneByOne, DraftFills, DraftLives, Begun
  <2> QED
    BY <2>1, <2>2, <2>3
<1> QED
  BY <1>1, <1>2, <1>4, <1>5

LEMMA ClearPlaceJoins ==
  ASSUME JoinInvariant, NEW t \in Teams, ClearPlace(t)
  PROVE  JoinInvariant'
<1> USE DEF JoinInvariant, Drafts, At, GoTo, Touch, tableVars, draftVars, endVars, callVars,
            threadVars, userVars, ClearPlace
<1>0. /\ pc[t] = "clear" /\ pc'[t] \in {"list", "start"} /\ obj[t] \in Drafts
      /\ \A u \in Teams \ {t} : pc'[u] = pc[u]
  BY DEF JoinTypeOK, JoinShape
<1>00. /\ index[t] \in Teams /\ pipe[obj[t]] \ {index[t]} \in SUBSET Teams
       /\ \/ pc'[t] = "list" /\ index[t] + 1 \in Teams /\ index' = [index EXCEPT ![t] = @ + 1]
          \/ pc'[t] = "start" /\ index[t] = NTeams - 1 /\ index' = index
       /\ pc' \in {[pc EXCEPT ![t] = "list"], [pc EXCEPT ![t] = "start"]}
  <2>1. index[t] \in Teams /\ pipe[obj[t]] \ {index[t]} \in SUBSET Teams
    BY <1>0 DEF JoinTypeOK
  <2>2. CASE index[t] < NTeams - 1 /\ index' = [index EXCEPT ![t] = @ + 1] /\ GoTo(t, "list")
    <3>1. index[t] + 1 \in Teams
      BY <2>1, <2>2, JoinAssumption DEF Teams
    <3> QED
      BY <2>1, <2>2, <3>1 DEF JoinTypeOK
  <2>3. CASE index[t] = NTeams - 1 /\ GoTo(t, "start") /\ UNCHANGED index
    BY <2>1, <2>3 DEF JoinTypeOK
  <2> QED
    BY <2>2, <2>3, Zenon
<1>1. JoinTypeOK'
  <2>1. index' \in [Teams -> Teams]
    <3>1. index \in [Teams -> Teams]
      BY DEF JoinTypeOK
    <3> QED
      BY ONLY <1>00, <3>1
  <2>2. pc' \in [Teams -> {"idle", "create", "list", "clear", "start", "enter", "count", "store"}]
    BY <1>00 DEF JoinTypeOK
  <2> QED
    BY <1>00, <2>1, <2>2 DEF JoinTypeOK
<1>2. JoinShape'
  <2>1. Creating' = Creating
    BY <1>0, CreatingSame
  <2> QED
    BY <1>0, <2>1 DEF JoinShape
<1>3. \A e \in Drafts : Stored(e)' = Stored(e)
  BY <1>0, StoredSame
<1>4. JoinCounts'
  <2>1. Begun' = Begun
    BY DEF Begun
  <2> QED
    BY <1>0, <2>1, CountsSame
<1>5. ASSUME ~ met'
      PROVE  OneByOne' /\ DraftFills' /\ DraftLives'
  <2>0. /\ ~ met /\ \A u \in Teams \ {t} : pc[u] = "idle"
        /\ obj[t] = 1 /\ 1 \in Drafts /\ made = 1 /\ drafts = <<1>>
    <3>1. made \in Nat /\ made <= 1
      BY <1>5 DEF JoinTypeOK, OneByOne
    <3>2. made > 0
      BY <1>0 DEF JoinShape
    <3> QED
      BY <1>0, <1>5, <3>1, <3>2, JoinAssumption DEF OneByOne
  <2>1. OneByOne'
    <3>1. client[t] = "joining"
      BY <1>0, <1>5 DEF OneByOne, JoinTypeOK
    <3> QED
      BY <1>0, <2>0, <3>1 DEF OneByOne
  <2>2. DraftFills'
    <3>1. EmptyDraft /\ EmptyDraft' /\ pipe'[1] = {} /\ pipe[1] = {} /\ 0 .. index[t] \subseteq hash[1]
      BY <1>0, <2>0 DEF JoinTypeOK, DraftFills, EmptyDraft
    <3>2. index[t] \in Nat
      BY <1>00, JoinAssumption DEF Teams
    <3>3. pc'[t] = "list" => 0 .. index'[t] - 1 \subseteq hash[1]
      BY <1>00, <3>1, <3>2 DEF JoinTypeOK
    <3>4. pc'[t] = "start" => hash[1] = Teams
      BY <1>00, <2>0, <3>1 DEF JoinTypeOK, Teams
    <3>5. Begun' = Begun
      BY DEF Begun
    <3>6. \A u \in Teams : HasJoined(u)' <=> HasJoined(u)
      BY <1>0 DEF HasJoined
    <3> QED
      BY <1>0, <2>0, <3>1, <3>3, <3>4, <3>5, <3>6 DEF DraftFills
  <2>3. DraftLives'
    BY <1>5 DEF JoinTypeOK, JoinShape, OneByOne, DraftFills, DraftLives, Begun
  <2> QED
    BY <2>1, <2>2, <2>3
<1> QED
  BY <1>1, <1>2, <1>4, <1>5

LEMMA StartThreadJoins ==
  ASSUME JoinInvariant, NEW t \in Teams, StartThread(t)
  PROVE  JoinInvariant'
<1> USE DEF JoinInvariant, Drafts, At, GoTo, Touch, tableVars, draftVars, endVars, callVars,
            threadVars, userVars, StartThread
<1>0. /\ pc[t] = "start" /\ pc'[t] = "enter" /\ obj[t] \in Drafts
      /\ \A u \in Teams \ {t} : pc'[u] = pc[u]
  BY DEF JoinTypeOK, JoinShape
<1>1. JoinTypeOK'
  BY JoinAssumption DEF JoinTypeOK
<1>2. JoinShape'
  BY <1>0, CreatingSame DEF JoinTypeOK, JoinShape
<1>3. \A e \in Drafts : Stored(e)' = Stored(e)
  BY StoredSame DEF JoinTypeOK, JoinShape
<1>4. JoinCounts'
  BY <1>3, StoredType DEF JoinTypeOK, JoinShape, JoinCounts, Begun
<1>5. ASSUME ~ met'
      PROVE  OneByOne' /\ DraftFills' /\ DraftLives'
  <2>0. /\ ~ met /\ \A u \in Teams \ {t} : pc[u] = "idle"
        /\ obj[t] = 1 /\ 1 \in Drafts /\ made = 1 /\ drafts = <<1>>
    <3>1. made \in Nat /\ made <= 1
      BY <1>5 DEF JoinTypeOK, OneByOne
    <3>2. made > 0
      BY <1>0 DEF JoinShape
    <3> QED
      BY <1>0, <1>5, <3>1, <3>2, JoinAssumption DEF OneByOne
  <2>1. OneByOne'
    BY <1>5 DEF JoinTypeOK, JoinShape, OneByOne
  <2>2. DraftFills'
    BY <1>5 DEF JoinTypeOK, JoinShape, OneByOne, DraftFills, EmptyDraft, HasJoined, Begun, Teams
  <2>3. DraftLives'
    <3>1. EmptyDraft
      BY <1>0, <2>0 DEF DraftFills
    <3> QED
      BY <2>0, <3>1 DEF DraftLives, EmptyDraft
  <2> QED
    BY <2>1, <2>2, <2>3
<1> QED
  BY <1>1, <1>2, <1>4, <1>5

LEMMA EnterJoins ==
  ASSUME JoinInvariant, NEW t \in Teams, Enter(t)
  PROVE  JoinInvariant'
<1> USE DEF JoinInvariant, Drafts, At, GoTo, Touch, tableVars, draftVars, endVars, callVars,
            threadVars, userVars, Enter
<1>0. pc[t] = "enter" /\ obj[t] \in Drafts
  BY DEF JoinShape
<1> DEFINE Joined == /\ t \in hash[obj[t]]
                     /\ pipe' = [pipe EXCEPT ![obj[t]] = @ \cup {t}]
                     /\ entered' = [entered EXCEPT ![obj[t]] = @ + 1]
                     /\ GoTo(t, "count")
                     /\ UNCHANGED up
           Crashed == /\ t \notin hash[obj[t]] \/ obj[t] \in freed
                      /\ up' = FALSE
                      /\ UNCHANGED <<pipe, entered, pc>>
<1>00. Joined \/ Crashed
  BY Zenon
<1>000. /\ \A u \in Teams \ {t} : pc'[u] = pc[u]
        /\ pc'[t] \in {"enter", "count"}
        /\ pc' \in [Teams -> {"idle", "create", "list", "clear", "start", "enter", "count", "store"}]
  <2>1. pc \in [Teams -> {"idle", "create", "list", "clear", "start", "enter", "count", "store"}]
    BY DEF JoinTypeOK
  <2>2. CASE Joined
    BY ONLY <1>0, <2>1, <2>2 DEF Joined, GoTo
  <2>3. CASE Crashed
    BY ONLY <1>0, <2>1, <2>3 DEF Crashed
  <2> QED
    BY <1>00, <2>2, <2>3
<1>1. JoinTypeOK'
  <2>1. CASE Joined
    <3>1. pipe[obj[t]] \cup {t} \in SUBSET Teams /\ entered[obj[t]] + 1 \in Nat
      BY <1>0 DEF JoinTypeOK
    <3> QED
      BY <1>000, <2>1, <3>1 DEF JoinTypeOK
  <2>2. CASE Crashed
    BY <1>000, <2>2 DEF JoinTypeOK
  <2> QED
    BY <1>00, <2>1, <2>2
<1>2. JoinShape'
  <2>1. Creating' = Creating
    BY <1>0, <1>000, CreatingSame
  <2> QED
    BY <1>0, <1>000, <2>1 DEF JoinShape
<1>3. \A e \in Drafts : Stored(e)' = Stored(e)
  <2>1. CASE Joined
    <3>1. /\ Counting(obj[t])' = Counting(obj[t]) \cup {t} /\ t \notin Counting(obj[t])
          /\ \A e \in Drafts \ {obj[t]} : Counting(e)' = Counting(e)
      BY <1>0, <2>1 DEF JoinTypeOK, Counting
    <3>2. Counting(obj[t]) \in SUBSET Teams
      BY DEF Counting
    <3>3. Cardinality(Counting(obj[t])') = Cardinality(Counting(obj[t])) + 1
      BY <3>1, <3>2, OneTeam
    <3>4. /\ Cardinality(Counting(obj[t])) \in Nat /\ entered[obj[t]] \in Nat
          /\ entered'[obj[t]] = entered[obj[t]] + 1
          /\ \A e \in Drafts \ {obj[t]} : entered'[e] = entered[e]
      BY <1>0, <2>1, <3>2, TeamSets DEF JoinTypeOK
    <3>5. Stored(obj[t])' = Stored(obj[t])
      BY <3>3, <3>4 DEF Stored
    <3>6. \A e \in Drafts \ {obj[t]} : Stored(e)' = Stored(e)
      BY <3>1, <3>4 DEF Stored
    <3> QED
      BY <3>5, <3>6
  <2>2. CASE Crashed
    BY <2>2, StoredSame
  <2> QED
    BY <1>00, <2>1, <2>2
<1>4. JoinCounts'
  <2>1. \A e \in Drafts : entered'[e] >= entered[e] /\ entered[e] \in Nat /\ entered'[e] \in Nat
    <3>1. entered \in [Drafts -> Nat]
      BY DEF JoinTypeOK
    <3>2. entered' = [entered EXCEPT ![obj[t]] = @ + 1] \/ entered' = entered
      BY <1>00
    <3>3. CASE entered' = [entered EXCEPT ![obj[t]] = @ + 1]
      <4>1. \A e \in Drafts : entered'[e] \in {entered[e], entered[e] + 1} /\ entered[e] \in Nat
        BY ONLY <3>1, <3>3
      <4> QED
        BY ONLY <4>1
    <3>4. CASE entered' = entered
      BY ONLY <3>1, <3>4
    <3> QED
      BY <3>2, <3>3, <3>4
  <2>2. \A e \in Drafts : cant[e] <= Stored(e)'
    BY <1>3 DEF JoinCounts
  <2>3. ASSUME NEW u \in Teams, pc'[u] = "store"
        PROVE  read[u] <= Stored(obj[u])'
    BY <1>0, <1>000, <1>3, <2>3 DEF JoinCounts, JoinShape
  <2>4. ASSUME NEW e \in Begun
        PROVE  entered'[of[e]] >= NTeams
    <3>1. of[e] \in Drafts /\ entered[of[e]] >= NTeams /\ NTeams \in Nat
      BY JoinAssumption DEF JoinCounts, JoinShape, Begun
    <3> QED
      BY <2>1, <3>1
  <2>5. Begun' = Begun /\ cant' = cant /\ read' = read /\ obj' = obj /\ of' = of
    BY DEF Begun
  <2> QED
    BY <2>2, <2>3, <2>4, <2>5 DEF JoinCounts
<1>5. ASSUME ~ met'
      PROVE  OneByOne' /\ DraftFills' /\ DraftLives'
  <2>0. /\ ~ met /\ \A u \in Teams \ {t} : pc[u] = "idle"
        /\ obj[t] = 1 /\ 1 \in Drafts /\ made = 1 /\ drafts = <<1>>
    <3>1. made \in Nat /\ made <= 1
      BY <1>5 DEF JoinTypeOK, OneByOne
    <3>2. made > 0
      BY <1>0 DEF JoinShape
    <3> QED
      BY <1>0, <1>5, <3>1, <3>2, JoinAssumption DEF OneByOne
  <2>00. hash[1] = Teams /\ client[t] = "joining"
    BY <1>0, <1>5, <2>0 DEF OneByOne, DraftFills
  <2>1. OneByOne'
    BY <1>0, <1>000, <2>0, <2>00 DEF OneByOne
  <2>2. DraftFills'
    <3>1. Begun' = Begun
      BY DEF Begun
    <3>2. CASE Joined
      <4>1. pipe'[1] = pipe[1] \cup {t} /\ entered'[1] = entered[1] + 1
        BY <2>0, <3>2 DEF JoinTypeOK
      <4>2. pc' = [pc EXCEPT ![t] = "count"] /\ pc'[t] = "count"
        BY <3>2 DEF JoinTypeOK
      <4>3. \A u \in Teams : HasJoined(u)' => u \in pipe'[1]
        BY <1>5, <1>000, <4>1, <4>2 DEF DraftFills, HasJoined
      <4>4. ASSUME ~ returned
            PROVE  /\ entered'[1] = Cardinality(pipe'[1])
                   /\ \A u \in Teams : pc'[u] # "enter"
                   /\ 1 \in Begun => pipe'[1] = Teams
        <5>1. t \notin pipe[1] /\ entered[1] = Cardinality(pipe[1])
          BY <1>0, <1>5, <4>4 DEF DraftFills
        <5>2. pipe[1] \in SUBSET Teams
          BY <2>0 DEF JoinTypeOK
        <5>3. Cardinality(pipe'[1]) = Cardinality(pipe[1]) + 1
          BY <4>1, <5>1, <5>2, OneTeam
        <5>4. 1 \notin Begun
          BY <1>5, <4>4, <5>1 DEF DraftFills
        <5> QED
          BY <1>000, <2>0, <4>1, <4>2, <5>1, <5>3, <5>4
      <4> QED
        BY <1>000, <2>0, <2>00, <3>1, <4>2, <4>3, <4>4 DEF DraftFills
    <3>3. CASE Crashed
      BY <1>5, <2>0, <3>1, <3>3 DEF DraftFills, EmptyDraft, HasJoined
    <3> QED
      BY <1>00, <3>2, <3>3
  <2>3. DraftLives'
    <3>1. freed' = freed /\ thread' = thread
      OBVIOUS
    <3>2. CASE Joined
      BY <1>5, <3>1, <3>2 DEF DraftLives
    <3>3. CASE Crashed
      BY <1>5, <2>0, <2>00, <3>1, <3>3 DEF DraftLives
    <3> QED
      BY <1>00, <3>2, <3>3
  <2> QED
    BY <2>1, <2>2, <2>3
<1> QED
  BY <1>1, <1>2, <1>4, <1>5

LEMMA ReadCantJoins ==
  ASSUME JoinInvariant, NEW t \in Teams, ReadCant(t)
  PROVE  JoinInvariant'
<1> USE DEF JoinInvariant, Drafts, At, GoTo, Touch, tableVars, draftVars, endVars, callVars,
            threadVars, userVars, ReadCant
<1>0. /\ pc[t] = "count" /\ pc'[t] = "store" /\ obj[t] \in Drafts
      /\ \A u \in Teams \ {t} : pc'[u] = pc[u]
  BY DEF JoinTypeOK, JoinShape
<1>1. JoinTypeOK'
  <2>1. up' \in BOOLEAN
    BY Zenon
  <2> QED
    BY <1>0, <2>1 DEF JoinTypeOK
<1>2. JoinShape'
  BY <1>0, CreatingSame DEF JoinTypeOK, JoinShape
<1>3. \A e \in Drafts : Stored(e)' = Stored(e)
  BY StoredSame DEF JoinTypeOK, JoinShape
<1>4. JoinCounts'
  BY <1>3, StoredType DEF JoinTypeOK, JoinShape, JoinCounts, Begun
<1>5. ASSUME ~ met'
      PROVE  OneByOne' /\ DraftFills' /\ DraftLives'
  <2>1. OneByOne'
    BY <1>5 DEF JoinTypeOK, JoinShape, OneByOne
  <2>2. DraftFills'
    BY <1>5 DEF JoinTypeOK, JoinShape, OneByOne, DraftFills, EmptyDraft, HasJoined, Begun, Teams
  <2>3. DraftLives'
    BY <1>5 DEF JoinTypeOK, JoinShape, OneByOne, DraftFills, DraftLives, Begun
  <2> QED
    BY <2>1, <2>2, <2>3
<1> QED
  BY <1>1, <1>2, <1>4, <1>5

LEMMA StoreCantJoins ==
  ASSUME JoinInvariant, NEW t \in Teams, StoreCant(t)
  PROVE  JoinInvariant'
<1> USE DEF JoinInvariant, Drafts, At, GoTo, Touch, tableVars, draftVars, endVars, callVars,
            threadVars, userVars, StoreCant
<1>0. /\ pc[t] = "store" /\ pc'[t] = "idle" /\ obj[t] \in Drafts
      /\ \A u \in Teams \ {t} : pc'[u] = pc[u]
  BY DEF JoinTypeOK, JoinShape
<1>00. /\ read[t] + 1 \in Nat /\ cant' = [cant EXCEPT ![obj[t]] = read[t] + 1]
       /\ Counting(obj[t])' = Counting(obj[t]) \ {t} /\ t \in Counting(obj[t])
       /\ \A e \in Drafts \ {obj[t]} : Counting(e)' = Counting(e)
  BY <1>0 DEF Counted, JoinTypeOK, Counting
<1>1. JoinTypeOK'
  <2>1. up' \in BOOLEAN
    BY Zenon
  <2>2. /\ pc \in [Teams -> {"idle", "create", "list", "clear", "start", "enter", "count", "store"}]
        /\ client \in [Teams -> {"shell", "joining", "drafting"}]
        /\ cant \in [Drafts -> Nat]
    BY DEF JoinTypeOK
  <2>3. /\ pc' = [pc EXCEPT ![t] = "idle"] /\ client' = [client EXCEPT ![t] = "drafting"]
        /\ cant' = [cant EXCEPT ![obj[t]] = read[t] + 1] /\ read[t] + 1 \in Nat
    BY <1>00
  <2>4. /\ pc' \in [Teams -> {"idle", "create", "list", "clear", "start", "enter", "count", "store"}]
        /\ client' \in [Teams -> {"shell", "joining", "drafting"}]
        /\ cant' \in [Drafts -> Nat]
    BY ONLY <2>2, <2>3
  <2> QED
    BY <2>1, <2>4 DEF JoinTypeOK
<1>2. JoinShape'
  BY <1>0, CreatingSame DEF JoinTypeOK, JoinShape
<1>3. /\ Stored(obj[t])' = Stored(obj[t]) + 1
      /\ \A e \in Drafts \ {obj[t]} : Stored(e)' = Stored(e)
  <2>1. Counting(obj[t]) \in SUBSET Teams
    BY DEF Counting
  <2>2. Cardinality(Counting(obj[t])') = Cardinality(Counting(obj[t])) - 1
    BY <1>00, <2>1, OneTeam
  <2>3. Cardinality(Counting(obj[t])) \in Nat /\ entered[obj[t]] \in Nat /\ entered' = entered
    BY <1>0, <2>1, TeamSets DEF JoinTypeOK
  <2> QED
    BY <1>00, <2>2, <2>3 DEF Stored
<1>4. JoinCounts'
  <2>1. \A e \in Drafts : cant[e] <= Stored(e) /\ cant[e] \in Nat
    BY DEF JoinCounts, JoinTypeOK
  <2>2. read[t] + 1 <= Stored(obj[t])'
    <3>1. read[t] <= Stored(obj[t]) /\ read[t] \in Nat
      BY <1>0 DEF JoinCounts, JoinTypeOK
    <3>2. Stored(obj[t]) \in Int
      BY <1>0, StoredType
    <3> QED
      BY ONLY <1>3, <3>1, <3>2
  <2>3. \A e \in Drafts : cant'[e] <= Stored(e)'
    BY <1>0, <1>00, <1>3, <2>1, <2>2, StoredType DEF JoinTypeOK
  <2>4. ASSUME NEW u \in Teams, pc'[u] = "store"
        PROVE  read'[u] <= Stored(obj[u])'
    <3>1. u # t /\ pc[u] = "store" /\ obj[u] \in Drafts /\ read[u] \in Nat
      BY <1>0, <2>4 DEF JoinShape, JoinTypeOK
    <3>2. read[u] <= Stored(obj[u]) /\ Stored(obj[u]) \in Int
      BY <3>1, StoredType DEF JoinCounts
    <3>3. Stored(obj[u])' \in {Stored(obj[u]), Stored(obj[u]) + 1}
      BY <1>3, <3>1
    <3> QED
      BY <3>1, <3>2, <3>3
  <2>5. \A e \in Begun' : entered'[of'[e]] >= NTeams
    BY DEF Begun, JoinCounts
  <2> QED
    BY <2>3, <2>4, <2>5 DEF JoinCounts
<1>5. ASSUME ~ met'
      PROVE  OneByOne' /\ DraftFills' /\ DraftLives'
  <2>0. /\ ~ met /\ \A u \in Teams \ {t} : pc[u] = "idle"
        /\ obj[t] = 1 /\ 1 \in Drafts /\ made = 1 /\ drafts = <<1>>
    <3>1. made \in Nat /\ made <= 1
      BY <1>5 DEF JoinTypeOK, OneByOne
    <3>2. made > 0
      BY <1>0 DEF JoinShape
    <3> QED
      BY <1>0, <1>5, <3>1, <3>2, JoinAssumption DEF OneByOne
  <2>1. OneByOne'
    BY <1>5 DEF JoinTypeOK, JoinShape, OneByOne
  <2>2. DraftFills'
    BY <1>5 DEF JoinTypeOK, JoinShape, OneByOne, DraftFills, EmptyDraft, HasJoined, Begun, Teams
  <2>3. DraftLives'
    BY <1>5 DEF JoinTypeOK, JoinShape, OneByOne, DraftFills, DraftLives, Begun
  <2> QED
    BY <2>1, <2>2, <2>3
<1> QED
  BY <1>1, <1>2, <1>4, <1>5

LEMMA FindDraftJoins ==
  ASSUME JoinInvariant, NEW d \in Drafts, FindDraft(d)
  PROVE  JoinInvariant'
<1> USE DEF JoinInvariant, Drafts, At, GoTo, Touch, tableVars, draftVars, endVars, callVars,
            threadVars, userVars, FindDraft
<1>0. Head(drafts) \in Drafts
  <2>1. drafts \in Seq(1 .. MaxJoins) /\ drafts # << >>
    BY DEF JoinTypeOK, JoinShape
  <2> QED
    BY ONLY <2>1, HeadTailProperties DEF Drafts
<1>1. JoinTypeOK'
  BY <1>0 DEF JoinTypeOK
<1>2. JoinShape'
  BY <1>0, CreatingSame DEF JoinTypeOK, JoinShape
<1>3. \A e \in Drafts : Stored(e)' = Stored(e)
  BY StoredSame DEF JoinTypeOK, JoinShape
<1>4. JoinCounts'
  BY <1>3, StoredType DEF JoinTypeOK, JoinShape, JoinCounts, Begun
<1>5. ASSUME ~ met'
      PROVE  OneByOne' /\ DraftFills' /\ DraftLives'
  <2>1. OneByOne'
    BY <1>5 DEF JoinTypeOK, JoinShape, OneByOne
  <2>2. DraftFills'
    BY <1>5 DEF JoinTypeOK, JoinShape, OneByOne, DraftFills, EmptyDraft, HasJoined, Begun, Teams
  <2>3. DraftLives'
    BY <1>5 DEF JoinTypeOK, JoinShape, OneByOne, DraftFills, DraftLives, Begun
  <2> QED
    BY <2>1, <2>2, <2>3
<1> QED
  BY <1>1, <1>2, <1>4, <1>5

LEMMA BeginJoins ==
  ASSUME JoinInvariant, NEW d \in Drafts, Begin(d)
  PROVE  JoinInvariant'
<1> USE DEF JoinInvariant, Drafts, At, GoTo, Touch, tableVars, draftVars, endVars, callVars,
            threadVars, userVars, Begin
<1>1. JoinTypeOK'
  BY JoinAssumption DEF JoinTypeOK
<1>2. JoinShape'
  BY CreatingSame DEF JoinTypeOK, JoinShape
<1>3. \A e \in Drafts : Stored(e)' = Stored(e)
  BY StoredSame DEF JoinTypeOK, JoinShape
<1>4. JoinCounts'
  <2>1. of[d] \in Drafts /\ cant[of[d]] >= NTeams
    BY DEF JoinShape, EveryoneCame
  <2>2. cant[of[d]] <= Stored(of[d]) /\ Stored(of[d]) \in Int /\ Stored(of[d]) <= entered[of[d]]
    BY <2>1, StoredType DEF JoinCounts
  <2>3. cant[of[d]] \in Nat /\ entered[of[d]] \in Nat /\ NTeams \in Nat
    BY <2>1, JoinAssumption DEF JoinTypeOK
  <2>4. entered[of[d]] >= NTeams
    BY ONLY <2>1, <2>2, <2>3
  <2> QED
    BY <1>3, <2>4 DEF JoinTypeOK, JoinCounts, JoinShape, Begun
<1>5. ASSUME ~ met'
      PROVE  OneByOne' /\ DraftFills' /\ DraftLives'
  <2>0. d = 1 /\ of[d] = 1 /\ 1 \notin Begun /\ 1 \in Drafts /\ entered[1] >= NTeams
    <3>1. d = 1 /\ of[d] = 1
      BY <1>5 DEF OneByOne
    <3>2. of'[d] = of[d] /\ d \in Begun' /\ entered' = entered /\ d \notin Begun
      BY DEF Begun, JoinTypeOK
    <3> QED
      BY <1>4, <3>1, <3>2 DEF JoinCounts
  <2>1. OneByOne'
    BY <1>5 DEF JoinTypeOK, JoinShape, OneByOne
  <2>2. DraftFills'
    <3>1. ~ returned => pipe[1] = Teams
      <4>1. ~ returned => entered[1] = Cardinality(pipe[1]) /\ pipe[1] \in SUBSET Teams
        BY <1>5, <2>0 DEF DraftFills, JoinTypeOK
      <4> QED
        BY <2>0, <4>1, TeamSets
    <3> QED
      BY <1>5, <2>0, <3>1 DEF JoinTypeOK, JoinShape, OneByOne, DraftFills, EmptyDraft, HasJoined, Begun
  <2>3. DraftLives'
    BY <1>5 DEF JoinTypeOK, JoinShape, OneByOne, DraftFills, DraftLives, Begun
  <2> QED
    BY <2>1, <2>2, <2>3
<1> QED
  BY <1>1, <1>2, <1>4, <1>5

LEMMA FinishPicksJoins ==
  ASSUME JoinInvariant, NEW d \in Drafts, FinishPicks(d)
  PROVE  JoinInvariant'
<1> USE DEF JoinInvariant, Drafts, At, GoTo, Touch, tableVars, draftVars, endVars, callVars,
            threadVars, userVars, FinishPicks
<1>1. JoinTypeOK'
  BY JoinAssumption DEF JoinTypeOK
<1>2. JoinShape'
  BY CreatingSame DEF JoinTypeOK, JoinShape
<1>3. \A e \in Drafts : Stored(e)' = Stored(e)
  BY StoredSame DEF JoinTypeOK, JoinShape
<1>4. JoinCounts'
  BY <1>3, StoredType, ZenonT(30) DEF JoinTypeOK, JoinShape, JoinCounts, Begun
<1>5. ASSUME ~ met'
      PROVE  OneByOne' /\ DraftFills' /\ DraftLives'
  <2>1. OneByOne'
    BY <1>5 DEF JoinTypeOK, JoinShape, OneByOne
  <2>2. DraftFills'
    BY <1>5 DEF JoinTypeOK, JoinShape, OneByOne, DraftFills, EmptyDraft, HasJoined, Begun, Teams
  <2>3. DraftLives'
    BY <1>5 DEF JoinTypeOK, JoinShape, OneByOne, DraftFills, DraftLives, Begun
  <2> QED
    BY <2>1, <2>2, <2>3
<1> QED
  BY <1>1, <1>2, <1>4, <1>5

LEMMA FreeDraftJoins ==
  ASSUME JoinInvariant, NEW d \in Drafts, FreeDraft(d)
  PROVE  JoinInvariant'
<1> USE DEF JoinInvariant, Drafts, At, GoTo, Touch, tableVars, draftVars, endVars, callVars,
            threadVars, userVars, FreeDraft
<1>1. JoinTypeOK'
  <2>1. up' \in BOOLEAN
    BY Zenon
  <2>2. of[d] \in Drafts
    BY DEF JoinShape
  <2> QED
    BY <2>1, <2>2 DEF JoinTypeOK
<1>2. JoinShape'
  BY CreatingSame DEF JoinTypeOK, JoinShape
<1>3. \A e \in Drafts : Stored(e)' = Stored(e)
  BY StoredSame DEF JoinTypeOK, JoinShape
<1>4. JoinCounts'
  BY <1>3, StoredType DEF JoinTypeOK, JoinShape, JoinCounts, Begun
<1>5. ASSUME ~ met'
      PROVE  OneByOne' /\ DraftFills' /\ DraftLives'
  <2>1. OneByOne'
    BY <1>5 DEF JoinTypeOK, JoinShape, OneByOne
  <2>2. DraftFills'
    BY <1>5 DEF JoinTypeOK, JoinShape, OneByOne, DraftFills, EmptyDraft, HasJoined, Begun, Teams
  <2>3. DraftLives'
    BY <1>5 DEF JoinTypeOK, JoinShape, OneByOne, DraftFills, DraftLives, Begun
  <2> QED
    BY <2>1, <2>2, <2>3
<1> QED
  BY <1>1, <1>2, <1>4, <1>5

LEMMA SendJoins ==
  ASSUME JoinInvariant, NEW t \in Teams, Send(t)
  PROVE  JoinInvariant'
<1> USE DEF JoinInvariant, Drafts, At, GoTo, Touch, tableVars, draftVars, endVars, callVars,
            threadVars, userVars, Send
<1>1. JoinTypeOK'
  <2>1. mail' \in [Teams -> {"none", "ANSWER", "QUIT_DRAFT"}]
        /\ client' \in [Teams -> {"shell", "joining", "drafting"}]
    <3>1. mail \in [Teams -> {"none", "ANSWER", "QUIT_DRAFT"}]
          /\ client \in [Teams -> {"shell", "joining", "drafting"}]
      BY DEF JoinTypeOK
    <3>2. CASE mail' = [mail EXCEPT ![t] = "ANSWER"] /\ UNCHANGED client
      BY ONLY <3>1, <3>2
    <3>3. CASE mail' = [mail EXCEPT ![t] = "QUIT_DRAFT"] /\ client' = [client EXCEPT ![t] = "shell"]
      BY ONLY <3>1, <3>3
    <3> QED
      BY <3>2, <3>3, Zenon
  <2> QED
    BY <2>1 DEF JoinTypeOK
<1>2. JoinShape'
  BY CreatingSame DEF JoinTypeOK, JoinShape
<1>3. \A e \in Drafts : Stored(e)' = Stored(e)
  BY StoredSame DEF JoinTypeOK, JoinShape
<1>4. JoinCounts'
  <2>1. Begun' = Begun
    BY DEF Begun
  <2> QED
    BY <2>1, CountsSame
<1>5. ASSUME ~ met'
      PROVE  OneByOne' /\ DraftFills' /\ DraftLives'
  <2>1. OneByOne'
    BY <1>5 DEF JoinTypeOK, JoinShape, OneByOne
  <2>2. DraftFills'
    <3>1. HasJoined(t) /\ \A u \in Teams : HasJoined(u)' => HasJoined(u)
      BY DEF HasJoined, JoinTypeOK
    <3>2. Begun' = Begun
      BY DEF Begun
    <3> QED
      BY <1>5, <3>1, <3>2 DEF DraftFills, EmptyDraft
  <2>3. DraftLives'
    BY <1>5 DEF JoinTypeOK, JoinShape, OneByOne, DraftFills, DraftLives, Begun
  <2> QED
    BY <2>1, <2>2, <2>3
<1> QED
  BY <1>1, <1>2, <1>4, <1>5

LEMMA HandleJoins ==
  ASSUME JoinInvariant, NEW t \in Teams, Handle(t)
  PROVE  JoinInvariant'
<1> USE DEF JoinInvariant, Drafts, At, GoTo, Touch, tableVars, draftVars, endVars, callVars,
            threadVars, userVars, Handle
<1>1. JoinTypeOK'
  BY JoinAssumption DEF JoinTypeOK
<1>2. JoinShape'
  BY CreatingSame DEF JoinTypeOK, JoinShape
<1>3. \A e \in Drafts : Stored(e)' = Stored(e)
  BY StoredSame DEF JoinTypeOK, JoinShape
<1>4. JoinCounts'
  BY <1>3, StoredType DEF JoinTypeOK, JoinShape, JoinCounts, Begun
<1>5. ASSUME ~ met'
      PROVE  OneByOne' /\ DraftFills' /\ DraftLives'
  <2>1. OneByOne'
    BY <1>5 DEF JoinTypeOK, JoinShape, OneByOne
  <2>2. DraftFills'
    BY <1>5 DEF JoinTypeOK, JoinShape, OneByOne, DraftFills, EmptyDraft, HasJoined, Begun, Teams
  <2>3. DraftLives'
    <3>1. t \in pipe[1] /\ 1 \in Drafts
      BY <1>5, JoinAssumption DEF DraftFills, HasJoined
    <3>2. made = 1 /\ drafts = <<1>> /\ Head(drafts) = 1
      BY <1>5, <3>1 DEF JoinTypeOK, JoinShape, OneByOne, DraftFills, EmptyDraft
    <3>3. \A u \in Teams : pc[u] \notin {"list", "clear"}
      BY <1>5, <3>1 DEF DraftFills, EmptyDraft
    <3>4. hash[1] = Teams
      BY <1>5, <3>2, <3>3 DEF DraftFills
    <3> QED
      BY <1>5, <3>1, <3>2, <3>4 DEF DraftLives
  <2> QED
    BY <2>1, <2>2, <2>3
<1> QED
  BY <1>1, <1>2, <1>4, <1>5

LEMMA JoinInit == Init => JoinInvariant
<1> SUFFICES ASSUME Init PROVE JoinInvariant
  OBVIOUS
<1> USE DEF Init
<1>1. 0 \in Teams /\ NTeams \in Nat \ {0} /\ 1 \in Drafts
  BY JoinAssumption DEF Teams, Drafts
<1>2. JoinTypeOK
  <2>1. drafts \in Seq(Drafts) /\ 0 \in 0 .. MaxJoins
    BY JoinAssumption
  <2>2. obj \in [Teams -> Drafts \cup {NoDraft}] /\ of \in [Drafts -> Drafts \cup {NoDraft}]
    OBVIOUS
  <2>3. met \in BOOLEAN /\ up \in BOOLEAN /\ drafted \in BOOLEAN /\ returned \in BOOLEAN
    BY Zenon
  <2> QED
    BY <1>1, <2>1, <2>2, <2>3 DEF JoinTypeOK
<1>3. Creating = {} /\ \A d \in Drafts : Counting(d) = {}
  BY DEF Creating, Counting
<1>4. Cardinality(Creating) = 0 /\ \A d \in Drafts : Cardinality(Counting(d)) = 0
  BY <1>3, FS_EmptySet
<1>5. JoinShape
  BY <1>4 DEF JoinShape
<1>6. JoinCounts
  BY <1>4 DEF JoinCounts, Begun, Stored
<1>7. OneByOne
  BY DEF OneByOne
<1>8. Cardinality({}) = 0 /\ \A t \in Teams : ~ HasJoined(t)
  BY FS_EmptySet DEF HasJoined
<1>9. DraftFills /\ DraftLives
  BY <1>1, <1>8 DEF DraftFills, DraftLives, EmptyDraft, Begun
<1> QED
  BY <1>2, <1>5, <1>6, <1>7, <1>9 DEF JoinInvariant

LEMMA JoinStep == JoinInvariant /\ [Next]_vars => JoinInvariant'
<1> SUFFICES ASSUME JoinInvariant, [Next]_vars PROVE JoinInvariant'
  OBVIOUS
<1>1. ASSUME NEW t \in Teams, LookUp(t) \/ JoinDraft(t) \/ Send(t) \/ Handle(t)
      PROVE  JoinInvariant'
  BY <1>1, LookUpJoins, CreateJoins, ListTeamJoins, ClearPlaceJoins, StartThreadJoins,
     EnterJoins, ReadCantJoins, StoreCantJoins, SendJoins, HandleJoins DEF JoinDraft
<1>2. ASSUME NEW d \in Drafts, DraftThread(d)
      PROVE  JoinInvariant'
  BY <1>2, FindDraftJoins, BeginJoins, FinishPicksJoins, FreeDraftJoins DEF DraftThread
<1>3. CASE UNCHANGED vars
  <2>1. /\ UNCHANGED <<drafts, made, cant, hash, pipe, freed, drafted, pc, obj, index, read>>
        /\ UNCHANGED <<thread, of, client, mail, joins, entered, returned, met, up>>
    BY <1>3 DEF vars, tableVars, draftVars, endVars, callVars, threadVars, userVars
  <2>2. JoinTypeOK'
    BY <2>1 DEF JoinInvariant, JoinTypeOK
  <2>3. Creating' = Creating /\ (\A d \in Drafts : Stored(d)' = Stored(d)) /\ Begun' = Begun
    BY <2>1 DEF Creating, Stored, Counting, Begun
  <2>4. JoinShape' /\ JoinCounts'
    BY <2>1, <2>3 DEF JoinInvariant, JoinShape, JoinCounts
  <2>5. OneByOne' = OneByOne /\ DraftFills' = DraftFills /\ DraftLives' = DraftLives
    BY <2>1, <2>3 DEF OneByOne, DraftFills, DraftLives, EmptyDraft, HasJoined
  <2> QED
    BY <2>1, <2>2, <2>4, <2>5 DEF JoinInvariant
<1> QED
  BY <1>1, <1>2, <1>3, Zenon DEF Next

\* The shape of every call and thread, for any number of teams and of joins.
THEOREM JoinInvariantHolds == Spec => []JoinInvariant
BY JoinInit, JoinStep, PTL DEF Spec

\* The thread of a draft asks its first question only after as many joins were
\* made to that draft as the league has teams: draftObj->cant, incremented with
\* no lock, may lose a join but never gains one.
THEOREM DraftNeedsItsTeams == Spec => []DraftStartsFull
<1>1. JoinInvariant => DraftStartsFull
  <2>1. ASSUME JoinInvariant, NEW d \in Drafts
        PROVE  cant[d] <= entered[d]
    <3>1. cant[d] \in Nat /\ entered[d] \in Nat
      BY <2>1 DEF JoinInvariant, JoinTypeOK
    <3>2. cant[d] <= Stored(d) /\ Stored(d) \in Int /\ Stored(d) <= entered[d]
      BY <2>1, StoredType DEF JoinInvariant, JoinCounts
    <3> QED
      BY <3>1, <3>2
  <2> QED
    BY <2>1 DEF DraftStartsFull, JoinInvariant, JoinCounts
<1> QED
  BY <1>1, JoinInvariantHolds, PTL

\* As long as no two calls of joinDraft were under way at once, the league has
\* one draft, its thread finds it and begins with every team's pipe in place
\* unless a team joined twice, and nothing ends the server before the draft is
\* over, even if users leave while they wait.
THEOREM OneDraftIfNoneMeet == Spec => []OneDraft
<1>1. JoinInvariant => OneDraft
  <2> SUFFICES ASSUME JoinInvariant, ~ met
               PROVE  /\ made <= 1
                      /\ \A d \in Drafts : thread[d] \notin {"none", "created"} => of[d] = d
                      /\ \A d \in Begun : pipe[d] = Teams \/ returned
                      /\ up \/ \E d \in Drafts : thread[d] \in {"over", "done"}
    BY DEF OneDraft
  <2>1. 1 \in Drafts
    BY JoinAssumption DEF Drafts
  <2>2. \A d \in Drafts : thread[d] # "none" => d = 1
    BY DEF JoinInvariant, OneByOne
  <2> QED
    BY <2>1, <2>2 DEF JoinInvariant, OneByOne, DraftFills, DraftLives, Begun
<1> QED
  BY <1>1, JoinInvariantHolds, PTL
=============================================================================

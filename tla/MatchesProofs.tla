---------------------------- MODULE MatchesProofs ---------------------------
(***************************************************************************)
(* Matches for any number of files and leagues and any number of ends of   *)
(* the server: a match counts twice, or not at all, only for the reasons   *)
(* the properties name.                                                    *)
(***************************************************************************)
EXTENDS Matches, TLAPS

\* A file that is being played has its name; its leagues were listed.
Playing ==
  /\ pc # "scan" => cur \in Files
  /\ pc \in {"read", "play"} => /\ cur \notin hidden
                                /\ due[cur] \subseteq listed \cap data.drafted
  /\ data.drafted \subseteq data.leagues /\ saved.drafted \subseteq saved.leagues

\* Points are there once the file is hidden, or about to be.
Accounted(d) ==
  \A l \in Leagues, f \in Files : f \notin unhidden =>
    /\ d.counted[l][f] <= 1
    /\ d.counted[l][f] = 1 => f \in hidden \/ (pc = "rename" /\ cur = f)

\* Where the name is to go, the points are.
Owing ==
  \A f \in Files : f \in hidden \/ (pc = "rename" /\ cur = f) =>
    f \in skipped \cup unsaved \/ \A l \in due[f] : data.counted[l][f] >= 1

\* What a server that is down will read, and the file it was to rename.
Kept ==
  status = "down" =>
    /\ pc = "rename" => cur \in unhidden
    /\ \A l \in Leagues, f \in Files \ unsaved : data.counted[l][f] = saved.counted[l][f]

MatchesInvariant ==
  MatchesTypeOK /\ Playing /\ Accounted(data) /\ Accounted(saved) /\ Owing /\ Kept

-----------------------------------------------------------------------------
LEMMA MatchesStart == Init => MatchesInvariant
<1> SUFFICES ASSUME Init PROVE MatchesInvariant
  OBVIOUS
<1>1. NoData \in Data /\ NoData.drafted = {} /\ \A l \in Leagues, f \in Files : NoData.counted[l][f] = 0
  BY DEF NoData, Data
<1>2. MatchesTypeOK
  BY <1>1, MatchesAssumption DEF Init, MatchesTypeOK
<1> QED
  BY <1>1, <1>2 DEF Init, MatchesInvariant, Playing, Accounted, Owing, Kept

\* Writing files, creating leagues and drafting them.
LEMMA OutsideSteps ==
  ASSUME MatchesInvariant,
         \/ \E f \in Files : WriteFile(f)
         \/ \E l \in Leagues : CreateLeague(l) \/ DraftLeague(l)
  PROVE  MatchesInvariant'
<1> USE DEF MatchesInvariant, threadVars, serverVars, historyVars
<1>1. CASE \E f \in Files : WriteFile(f)
  BY <1>1 DEF WriteFile, MatchesTypeOK, Playing, Accounted, Owing, Kept
<1>2. CASE \E l \in Leagues : CreateLeague(l) \/ DraftLeague(l)
  <2>1. /\ data' \in Data /\ data'.counted = data.counted /\ data.drafted \subseteq data'.drafted
        /\ data'.drafted \subseteq data'.leagues /\ status = "up"
        /\ UNCHANGED <<file, hidden, saved, pc, cur, listed, status, ends, due, skipped, unsaved, unhidden>>
    <3>1. data = [leagues |-> data.leagues, drafted |-> data.drafted, counted |-> data.counted]
          /\ data.leagues \in SUBSET Leagues /\ data.drafted \in SUBSET Leagues
          /\ data.counted \in [Leagues -> [Files -> Nat]] /\ data.drafted \subseteq data.leagues
      BY DEF MatchesTypeOK, Data, Playing
    <3>2. ASSUME NEW l \in Leagues, CreateLeague(l)
          PROVE  data' = [leagues |-> data.leagues \cup {l}, drafted |-> data.drafted,
                          counted |-> data.counted]
      BY <3>1, <3>2 DEF CreateLeague
    <3>3. ASSUME NEW l \in Leagues, DraftLeague(l)
          PROVE  /\ data' = [leagues |-> data.leagues, drafted |-> data.drafted \cup {l},
                             counted |-> data.counted]
                 /\ l \in data.leagues
      BY <3>1, <3>3 DEF DraftLeague
    <3>4. CASE \E l \in Leagues : CreateLeague(l)
      BY <3>1, <3>2, <3>4 DEF CreateLeague, Data
    <3>5. CASE \E l \in Leagues : DraftLeague(l)
      BY <3>1, <3>3, <3>5 DEF DraftLeague, Data
    <3> QED
      BY <1>2, <3>4, <3>5
  <2>2. MatchesTypeOK'
    BY <2>1 DEF MatchesTypeOK
  <2>3. Playing' /\ Accounted(data)' /\ Accounted(saved)' /\ Owing' /\ Kept'
    BY <2>1 DEF Playing, Accounted, Owing, Kept
  <2> QED
    BY <2>2, <2>3
<1> QED
  BY <1>1, <1>2

\* playMatches.
LEMMA ThreadSteps ==
  ASSUME MatchesInvariant, MatchThread
  PROVE  MatchesInvariant'
<1> USE DEF MatchesInvariant, serverVars, historyVars
<1>1. ASSUME NEW f \in Files, Find(f)
      PROVE  MatchesInvariant'
  <2>1. /\ pc = "scan" /\ f \notin hidden /\ pc' = "read" /\ cur' = f
        /\ listed' = data.leagues /\ due' = [due EXCEPT ![f] = data.drafted]
        /\ UNCHANGED <<file, hidden, data, saved, status, ends, skipped, unsaved, unhidden>>
    BY <1>1 DEF Find, Listed
  <2>2. MatchesTypeOK'
    BY <2>1 DEF MatchesTypeOK, Data
  <2>3. Playing'
    BY <2>1 DEF Playing, MatchesTypeOK
  <2>4. Accounted(data)' /\ Accounted(saved)' /\ Owing' /\ Kept'
    BY <2>1 DEF Accounted, Owing, Kept, MatchesTypeOK
  <2> QED
    BY <2>2, <2>3, <2>4
<1>2. CASE ReadScores
  <2>1. MatchesTypeOK'
    BY <1>2 DEF ReadScores, MatchesTypeOK, Playing
  <2>2. Playing' /\ Accounted(data)' /\ Accounted(saved)'
    BY <1>2 DEF ReadScores, Playing, Accounted
  <2>3. Owing' /\ Kept'
    BY <1>2 DEF ReadScores, Running, Owing, Kept
  <2> QED
    BY <2>1, <2>2, <2>3
<1>3. CASE Play
  <2> DEFINE Counts(l) == l \in listed \cap data.drafted
  <2>1. /\ cur \in Files /\ cur \notin hidden /\ pc = "play" /\ pc' = "rename"
        /\ due[cur] \subseteq listed \cap data.drafted /\ status # "down"
        /\ UNCHANGED <<file, hidden, saved, cur, listed, status, ends, due, skipped, unsaved, unhidden>>
    BY <1>3 DEF Play, Playing, Running
  <2>2. /\ data' \in Data /\ data'.drafted = data.drafted /\ data'.leagues = data.leagues
        /\ \A l \in Leagues, f \in Files :
             data'.counted[l][f] = IF Counts(l) /\ f = cur THEN data.counted[l][f] + 1
                                                           ELSE data.counted[l][f]
    <3> DEFINE Added == [l \in Leagues |-> [f \in Files |->
                 IF Counts(l) /\ f = cur THEN data.counted[l][f] + 1 ELSE data.counted[l][f]]]
    <3>1. data = [leagues |-> data.leagues, drafted |-> data.drafted, counted |-> data.counted]
          /\ data.leagues \in SUBSET Leagues /\ data.drafted \in SUBSET Leagues
          /\ data.counted \in [Leagues -> [Files -> Nat]]
      BY DEF MatchesTypeOK, Data
    <3>2. Added \in [Leagues -> [Files -> Nat]]
      BY <3>1
    <3>3. data' = [data EXCEPT !.counted = Added]
      BY <1>3 DEF Play
    <3> HIDE DEF Added
    <3>4. data' = [leagues |-> data.leagues, drafted |-> data.drafted, counted |-> Added]
      BY <3>1, <3>3
    <3>5. data' \in Data
      BY <3>1, <3>2, <3>4 DEF Data
    <3> QED
      BY <3>4, <3>5 DEF Added
  <2>3. MatchesTypeOK'
    BY <2>1, <2>2 DEF MatchesTypeOK
  <2>4. Playing'
    BY <2>1, <2>2 DEF Playing
  <2>5. \A l \in Leagues, f \in Files : data.counted[l][f] \in Nat
    BY DEF MatchesTypeOK, Data
  <2>6. Accounted(data)' /\ Accounted(saved)'
    BY <2>1, <2>2, <2>5 DEF Accounted
  <2>7. Owing' /\ Kept'
    <3>1. due[cur] \subseteq Leagues
      BY <2>1 DEF MatchesTypeOK
    <3>2. \A l \in due[cur] : data'.counted[l][cur] >= 1
      BY <2>1, <2>2, <2>5, <3>1
    <3>3. ASSUME NEW f \in hidden
          PROVE  f \in skipped \cup unsaved \/ \A l \in due[f] : data'.counted[l][f] >= 1
      <4>1. f \in Files /\ f # cur /\ due[f] \subseteq Leagues
        BY <2>1 DEF MatchesTypeOK
      <4> QED
        BY <4>1, <2>2 DEF Owing
    <3>4. Owing'
      BY <2>1, <3>2, <3>3 DEF Owing
    <3> QED
      BY <2>1, <3>4 DEF Kept
  <2> QED
    BY <2>3, <2>4, <2>6, <2>7
<1>4. CASE Rename
  <2>1. /\ cur \in Files /\ hidden' = hidden \cup {cur} /\ pc = "rename" /\ pc' = "scan"
        /\ cur' = NoFile /\ listed' = {}
        /\ UNCHANGED <<file, data, saved, status, ends, due, skipped, unsaved, unhidden>>
    BY <1>4 DEF Rename, Renamed, Playing
  <2>2. MatchesTypeOK'
    BY <2>1 DEF MatchesTypeOK
  <2>3. Playing' /\ Accounted(data)' /\ Accounted(saved)' /\ Owing' /\ Kept'
    BY <2>1 DEF Playing, Accounted, Owing, Kept
  <2> QED
    BY <2>2, <2>3
<1> QED
  BY <1>1, <1>2, <1>3, <1>4 DEF MatchThread

\* Saving, ending and starting again.
LEMMA ServerSteps ==
  ASSUME MatchesInvariant, Save \/ ShutDown \/ Exit \/ Kill \/ Restart
  PROVE  MatchesInvariant'
<1> USE DEF MatchesInvariant, threadVars, serverVars, historyVars
<1>1. CASE Save \/ ShutDown
  <2>1. /\ saved' = data /\ status = "up" /\ status' \in {"up", "closing"} /\ ends' \in 0 .. MaxEnds
        /\ UNCHANGED <<file, hidden, data, pc, cur, listed, due, skipped, unsaved, unhidden>>
    BY <1>1, MatchesAssumption DEF Save, ShutDown, MatchesTypeOK
  <2>2. MatchesTypeOK'
    BY <2>1 DEF MatchesTypeOK
  <2>3. Playing' /\ Accounted(data)' /\ Accounted(saved)' /\ Owing' /\ Kept'
    BY <2>1 DEF Playing, Accounted, Owing, Kept
  <2> QED
    BY <2>2, <2>3
<1>2. CASE Exit \/ Kill
  <2>1. /\ status' = "down" /\ ends' \in 0 .. MaxEnds
        /\ unsaved' = unsaved \cup {f \in Files : Unsaved(f)}
        /\ unhidden' = IF pc = "rename" THEN unhidden \cup {cur} ELSE unhidden
        /\ UNCHANGED <<file, hidden, data, saved, pc, cur, listed, due, skipped>>
    BY <1>2, MatchesAssumption DEF Exit, Kill, Ended, MatchesTypeOK
  <2>2. MatchesTypeOK'
    BY <2>1 DEF MatchesTypeOK, Playing
  <2>3. Playing' /\ Accounted(data)' /\ Accounted(saved)' /\ Owing'
    BY <2>1 DEF Playing, Accounted, Owing
  <2>4. Kept'
    BY <2>1 DEF Kept, Unsaved
  <2> QED
    BY <2>2, <2>3, <2>4
<1>3. CASE Restart
  <2>1. /\ status = "down" /\ status' = "up" /\ data' = saved
        /\ pc' = "scan" /\ cur' = NoFile /\ listed' = {}
        /\ UNCHANGED <<file, hidden, saved, ends, due, skipped, unsaved, unhidden>>
    BY <1>3 DEF Restart
  <2>2. MatchesTypeOK'
    BY <2>1 DEF MatchesTypeOK
  <2>3. Playing' /\ Kept'
    BY <2>1 DEF Playing, Kept
  <2>4. Accounted(data)' /\ Accounted(saved)'
    BY <2>1 DEF Accounted, Kept
  <2>5. Owing'
    <3> SUFFICES ASSUME NEW f \in hidden \ (skipped \cup unsaved), NEW l \in due[f]
                 PROVE  data'.counted[l][f] >= 1
      BY <2>1 DEF Owing
    <3>1. f \in Files /\ l \in Leagues
      BY DEF MatchesTypeOK
    <3>2. data.counted[l][f] >= 1
      BY <3>1 DEF Owing
    <3> QED
      BY <2>1, <3>1, <3>2 DEF Kept
  <2> QED
    BY <2>2, <2>3, <2>4, <2>5
<1> QED
  BY <1>1, <1>2, <1>3

\* The conjuncts of MatchesInvariant hold in every state of Matches: what is
\* counted is hidden or about to be, and what is hidden is counted.
THEOREM MatchesInvariantHolds == Spec => []MatchesInvariant
<1>1. Init => MatchesInvariant
  BY MatchesStart
<1>2. MatchesInvariant /\ [Next]_vars => MatchesInvariant'
  <2> SUFFICES ASSUME MatchesInvariant, [Next]_vars PROVE MatchesInvariant'
    OBVIOUS
  <2>1. CASE MatchThread
    BY <2>1, ThreadSteps
  <2>2. CASE \/ \E f \in Files : WriteFile(f)
             \/ \E l \in Leagues : CreateLeague(l) \/ DraftLeague(l)
    BY <2>2, OutsideSteps
  <2>3. CASE Save \/ ShutDown \/ Exit \/ Kill \/ Restart
    BY <2>3, ServerSteps
  <2>4. CASE UNCHANGED vars
    BY <2>4 DEF vars, threadVars, serverVars, historyVars, MatchesInvariant, MatchesTypeOK,
                Playing, Accounted, Owing, Kept
  <2> QED
    BY <2>1, <2>2, <2>3, <2>4 DEF Next
<1> QED
  BY <1>1, <1>2, PTL DEF Spec

\* playMatch and saveThread: a match counts twice in a league only if the server
\* ended between the points and the rename.
THEOREM MatchCountsOnce == Spec => []CountedOnce
<1>1. MatchesInvariant => CountedOnce
  <2> SUFFICES ASSUME MatchesInvariant, NEW l \in Leagues, NEW f \in Files, f \notin unhidden
               PROVE  ~(data.counted[l][f] > 1)
    BY DEF CountedOnce
  <2>1. data.counted[l][f] \in Nat /\ data.counted[l][f] <= 1
    BY DEF MatchesInvariant, MatchesTypeOK, Data, Accounted
  <2> QED
    BY <2>1
<1> QED
  BY <1>1, MatchesInvariantHolds, PTL

\* playMatches: a file is not hidden before it has counted wherever it was due,
\* unless it was too short or its points were lost with the server.
THEOREM HiddenFilesHaveCounted == Spec => []HiddenHasCounted
<1>1. MatchesInvariant => HiddenHasCounted
  BY DEF MatchesInvariant, MatchesTypeOK, Owing, HiddenHasCounted
<1> QED
  BY <1>1, MatchesInvariantHolds, PTL
=============================================================================

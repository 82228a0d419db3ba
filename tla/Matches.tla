------------------------------ MODULE Matches -------------------------------
(***************************************************************************)
(* Whether a match counts: playMatches and playMatch with the directory of *)
(* match files on one side and the saves of the data on the other.  A file *)
(* is put there by hand and takes a while to write; the thread reads it,   *)
(* adds its points under saveMutex and hides it by renaming it.  The       *)
(* points outlive the server if they were saved, the name in any case.     *)
(*                                                                         *)
(* The data is what the matches tell apart: the leagues there are, those   *)
(* whose teams have players, and how often each file counted in each.      *)
(* Season says what counting does to scores and points, Store what a crash *)
(* inside a save does; here a save is one step.                            *)
(***************************************************************************)
EXTENDS Naturals

CONSTANTS
  Files,    \* match files
  Leagues,  \* leagues that may be created
  NoFile,
  MaxEnds   \* bound: how often the server ends

ASSUME MatchesAssumption == NoFile \notin Files /\ MaxEnds \in Nat

VARIABLES
  file,     \* file -> how much of it is written
  hidden,   \* the files that were renamed
  data,     \* the server's memory
  saved,    \* the data on disk
  pc,       \* where playMatches is
  cur,      \* the file it is at
  listed,   \* leaguesList
  status,   \* of the server; "closing": shutDown has freed the data
  ends,     \* how often it has ended
  due,      \* history: file -> the leagues that had players when it was found
  skipped,  \* history: files that were hidden because they were too short
  unsaved,  \* history: files whose points were not saved when the server ended
  unhidden  \* history: files that had been played when it ended, and had their name

threadVars == <<pc, cur, listed>>
serverVars == <<status, ends>>
historyVars == <<due, skipped, unsaved, unhidden>>
vars == <<file, hidden, data, saved, threadVars, serverVars, historyVars>>

Data == [leagues : SUBSET Leagues, drafted : SUBSET Leagues,
         counted : [Leagues -> [Files -> Nat]]]

MatchesTypeOK ==
  /\ file \in [Files -> {"absent", "short", "complete"}]
  /\ hidden \subseteq Files
  /\ data \in Data /\ saved \in Data
  /\ pc \in {"scan", "read", "play", "rename"}
  /\ cur \in Files \cup {NoFile}
  /\ listed \subseteq Leagues
  /\ status \in {"up", "closing", "down"} /\ ends \in 0 .. MaxEnds
  /\ due \in [Files -> SUBSET Leagues]
  /\ skipped \subseteq Files /\ unsaved \subseteq Files /\ unhidden \subseteq Files

NoData == [leagues |-> {}, drafted |-> {}, counted |-> [l \in Leagues |-> [f \in Files |-> 0]]]

Init ==
  /\ file = [f \in Files |-> "absent"] /\ hidden = {}
  /\ data = NoData /\ saved = NoData
  /\ pc = "scan" /\ cur = NoFile /\ listed = {}
  /\ status = "up" /\ ends = 0
  /\ due = [f \in Files |-> {}]
  /\ skipped = {} /\ unsaved = {} /\ unhidden = {}

-----------------------------------------------------------------------------
(* Whoever puts a match file into the directory.                           *)

WriteFile(f) ==
  /\ \/ file[f] = "absent" /\ file' = [file EXCEPT ![f] = "short"]
     \/ file[f] = "short" /\ file' = [file EXCEPT ![f] = "complete"]
  /\ UNCHANGED <<hidden, data, saved, threadVars, serverVars, historyVars>>

-----------------------------------------------------------------------------
(* The handlers that change what a match counts for, under saveMutex.      *)

CreateLeague(l) ==
  /\ status = "up" /\ l \notin data.leagues
  /\ data' = [data EXCEPT !.leagues = @ \cup {l}]
  /\ UNCHANGED <<file, hidden, saved, threadVars, serverVars, historyVars>>

\* The league's draft hands over its players.
DraftLeague(l) ==
  /\ status = "up" /\ l \in data.leagues \ data.drafted
  /\ data' = [data EXCEPT !.drafted = @ \cup {l}]
  /\ UNCHANGED <<file, hidden, saved, threadVars, serverVars, historyVars>>

-----------------------------------------------------------------------------
(* playMatches.  It goes on while shutDown, which does not stop it, is     *)
(* between freeing the data and exiting.                                   *)

Running == status # "down"

\* Mutant: the leagues of the last save.
Listed_Saved == saved.leagues

\* hashValuesList(leagues), before the mutex is taken.
Listed == data.leagues

\* readdir returns the file, and playMatch lists the leagues.
Find(f) ==
  /\ Running /\ pc = "scan" /\ file[f] # "absent" /\ f \notin hidden
  /\ pc' = "read" /\ cur' = f
  /\ listed' = Listed
  /\ due' = [due EXCEPT ![f] = data.drafted]
  /\ UNCHANGED <<file, hidden, data, saved, serverVars, skipped, unsaved, unhidden>>

\* A file with fewer lines than there are players is not played.
ReadScores ==
  /\ Running /\ pc = "read"
  /\ \/ file[cur] = "complete" /\ pc' = "play" /\ UNCHANGED skipped
     \/ file[cur] = "short" /\ pc' = "rename" /\ skipped' = skipped \cup {cur}
  /\ UNCHANGED <<file, hidden, data, saved, cur, listed, serverVars, due, unsaved, unhidden>>

\* The loop over the leagues listed, under saveMutex.
Play ==
  /\ Running /\ pc = "play" /\ pc' = "rename"
  /\ data' = [data EXCEPT !.counted = [l \in Leagues |-> [f \in Files |->
                IF l \in listed \cap data.drafted /\ f = cur
                  THEN data.counted[l][f] + 1 ELSE data.counted[l][f]]]]
  /\ UNCHANGED <<file, hidden, saved, cur, listed, serverVars, historyVars>>

\* Mutant: a file that was played keeps its name.
Renamed_ShortOnly == IF cur \in skipped THEN hidden \cup {cur} ELSE hidden

Renamed == hidden \cup {cur}

Rename ==
  /\ Running /\ pc = "rename" /\ pc' = "scan"
  /\ hidden' = Renamed
  /\ cur' = NoFile /\ listed' = {}
  /\ UNCHANGED <<file, data, saved, serverVars, historyVars>>

MatchThread == (\E f \in Files : Find(f)) \/ ReadScores \/ Play \/ Rename

-----------------------------------------------------------------------------
(* Saving, ending and starting again.                                      *)

\* saveThread, every second.
Save ==
  /\ status = "up" /\ saved # data
  /\ saved' = data
  /\ UNCHANGED <<file, hidden, data, threadVars, serverVars, historyVars>>

\* shutDown saves and frees; what is added from now on is not saved.
ShutDown ==
  /\ status = "up" /\ ends < MaxEnds
  /\ status' = "closing" /\ ends' = ends + 1
  /\ saved' = data
  /\ UNCHANGED <<file, hidden, data, threadVars, historyVars>>

\* The points of the file are in memory and not on disk.
Unsaved(f) == \E l \in Leagues : data.counted[l][f] # saved.counted[l][f]

Ended ==
  /\ status' = "down"
  /\ unsaved' = unsaved \cup {f \in Files : Unsaved(f)}
  /\ unhidden' = IF pc = "rename" THEN unhidden \cup {cur} ELSE unhidden
  /\ UNCHANGED <<file, hidden, data, saved, threadVars, due, skipped>>

\* shutDown exits, or somebody uses the freed data and crashes.
Exit == status = "closing" /\ Ended /\ UNCHANGED ends

\* SIGKILL or a crash.
Kill == status = "up" /\ ends < MaxEnds /\ ends' = ends + 1 /\ Ended

\* load, and a new playMatches.
Restart ==
  /\ status = "down"
  /\ status' = "up"
  /\ data' = saved
  /\ pc' = "scan" /\ cur' = NoFile /\ listed' = {}
  /\ UNCHANGED <<file, hidden, saved, ends, historyVars>>

Next ==
  \/ MatchThread
  \/ \E f \in Files : WriteFile(f)
  \/ \E l \in Leagues : CreateLeague(l) \/ DraftLeague(l)
  \/ Save \/ ShutDown \/ Exit \/ Kill \/ Restart

Spec == Init /\ [][Next]_vars

\* The thread goes on, and each of its passes over the directory (readdir,
\* rewinddir) comes to every file.
FairSpec ==
  /\ Spec
  /\ WF_vars(ReadScores \/ Play \/ Rename)
  /\ \A f \in Files : SF_vars(Find(f))

-----------------------------------------------------------------------------
(* Properties.                                                             *)

\* A match counts twice in a league only if the server ended after its points
\* were added and before the file was renamed.
CountedOnce ==
  \A l \in Leagues, f \in Files : data.counted[l][f] > 1 => f \in unhidden

\* A file that was hidden has counted in every league that had players when it
\* was found, although the leagues are listed before the mutex is taken; unless
\* it was read before it was complete, or the server ended before its points
\* were saved.
HiddenHasCounted ==
  \A f \in hidden \ (skipped \cup unsaved) : \A l \in due[f] : data.counted[l][f] >= 1

\* A match file does not stay in the directory while the server is up.
EveryFileIsHidden ==
  \A f \in Files : (file[f] # "absent") ~> (f \in hidden \/ status # "up")

=============================================================================

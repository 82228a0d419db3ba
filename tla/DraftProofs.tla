----------------------------- MODULE DraftProofs ----------------------------
(***************************************************************************)
(* Draft for any number of rounds, players and polls: after every turn the *)
(* players gone are those recorded, at most one a turn, so that the random *)
(* pick never counts more players than are left, and the draft is the      *)
(* board it promises.                                                      *)
(*                                                                         *)
(* Turns are counted by round and team here; Turn and TurnsOver number     *)
(* them through, with the division the random pick also does.              *)
(***************************************************************************)
EXTENDS Draft, SequenceTheorems, FiniteSetTheorems, WellFoundedInduction, TLAPS

\* The team at hand has had its pick.
HasPick == phase \in {"late", "updating"}

\* The turn of the team t in the round r has its pick.
TurnIsOver(t, r) ==
  /\ Picking
  /\ \/ r < round
     \/ r = round /\ t < team
     \/ r = round /\ t = team /\ HasPick

RoundNumbers == 0 .. Rounds - 1

\* Where the thread can be with which team and round.
DraftShape ==
  /\ phase \in {"prompting", "reading", "expired", "late", "updating"} => round < Rounds
  /\ phase \in {"picked", "ending", "done"} => round = Rounds
  /\ phase = "picked" => team = 0
  /\ ~ Picking => round = 0 /\ answers <= team /\ available = Players

\* Every turn so far recorded a player.
NoneWasted == \A t \in Teams, r \in RoundNumbers : TurnIsOver(t, r) => playerIDs[t][r] \in Players

\* A turn that recorded a player took that one, and no other turn did; a player
\* gone that no turn shows was lost to an ID that is none.
PlayersOut ==
  /\ \A t \in Teams, r \in RoundNumbers : TurnIsOver(t, r) => playerIDs[t][r] \notin available
  /\ NoneWasted => \A p \in Players \ available :
       \E t \in Teams, r \in RoundNumbers : TurnIsOver(t, r) /\ playerIDs[t][r] = p
  /\ \A t, u \in Teams, r, s \in RoundNumbers :
       TurnIsOver(t, r) /\ TurnIsOver(u, s) /\ playerIDs[t][r] = playerIDs[u][s]
         /\ playerIDs[t][r] \in Players
         => t = u /\ r = s

Left == Cardinality(available) >= MAX_PLAYERS - TurnsOver

DraftInvariant == DraftTypeOK /\ DraftShape /\ PlayersOut /\ Left

-----------------------------------------------------------------------------
\* The constants, without the product.
LEMMA Sizes ==
  /\ NTeams = 1 \/ NTeams = 2
  /\ Rounds \in Nat \ {0} /\ Polls \in Nat \ {0} /\ MAX_PLAYERS \in Nat \ {0}
  /\ MaxJoins \in Nat \ {0} /\ MaxPrompts \in Nat \ {0}
  /\ 0 \in Teams /\ 0 \in Players
<1>1. NTeams = 1 \/ NTeams = 2
  BY DraftAssumption
<1>2. CASE NTeams = 1
  BY <1>2, DraftAssumption DEF Teams, Players
<1>3. CASE NTeams = 2
  BY <1>3, DraftAssumption DEF Teams, Players
<1> QED
  BY <1>1, <1>2, <1>3

\* No ID of a player is the one outside or none at all.
LEMMA IDsApart ==
  /\ Players \subseteq IDs /\ Outside \in IDs /\ 0 \in IDs
  /\ Outside \notin Players /\ NoPick \notin Players /\ NoPick \notin IDs
BY Sizes DEF IDs, Outside, Players, NoPick

\* What is sent leaves inboxes and the one who waits in their ranges.
LEMMA SendStep ==
  ASSUME DraftTypeOK, NEW t \in Teams, Send(t)
  PROVE  /\ inbox' \in [Teams -> {"read", "room", "full"}]
         /\ waiting' \in {"nobody", "thread", "server"}
<1>1. inbox \in [Teams -> {"read", "room", "full"}] /\ Filled(t) \in {"read", "room", "full"}
  BY DEF DraftTypeOK, Filled
<1>2. inbox' = [inbox EXCEPT ![t] = IF channel[t] THEN Filled(t) ELSE @]
  BY DEF Send
<1>3. waiting' \in {"nobody", "thread", "server"}
  BY DEF Send, DraftTypeOK
<1> HIDE DEF Send
<1> QED
  BY <1>1, <1>2, <1>3

\* A client that is asked keeps no more prompts than the bound.
LEMMA AskedStep ==
  ASSUME DraftTypeOK, NEW t \in Teams,
         \/ UNCHANGED asked
         \/ asked' = [asked EXCEPT ![t] = IF CanBeAsked(t) THEN @ + 1 ELSE @]
         \/ asked' = [asked EXCEPT ![t] = IF CanBeAsked(t) /\ ~ prompted THEN @ + 1 ELSE @]
  PROVE  asked' \in [Teams -> 0 .. MaxPrompts]
<1>1. /\ owed \in [Teams -> 0 .. MaxPrompts] /\ asked \in [Teams -> 0 .. MaxPrompts]
      /\ MaxPrompts \in Nat
  BY Sizes DEF DraftTypeOK
<1>2. CanBeAsked(t) => asked[t] + 1 \in 0 .. MaxPrompts
  BY <1>1 DEF CanBeAsked
<1> QED
  BY <1>1, <1>2

\* The loop over the teams that asks who is there keeps its variables in range,
\* and begins the picks at the first team of the first round.
LEMMA AskNextStep ==
  ASSUME DraftTypeOK, DraftShape, phase \in {"asking", "listening"},
         NEW n \in 0 .. team + 1, AskNext(n), available' = available
  PROVE  /\ phase' \in {"asking", "prompting"} /\ team' \in Teams /\ round' = 0
         /\ polls' \in 0 .. Polls - 1 /\ answers' \in 0 .. NTeams /\ prompted' = prompted
         /\ phase' = "prompting" => team' = 0
         /\ DraftShape'
<1>1. /\ NTeams \in Nat \ {0} /\ Polls \in Nat \ {0} /\ Rounds \in Nat \ {0}
      /\ team \in 0 .. NTeams - 1 /\ answers \in 0 .. NTeams
  BY Sizes DEF DraftTypeOK, Teams
<1>2. /\ round = 0 /\ answers <= team /\ available = Players
  BY DEF DraftShape, Picking
<1>3. /\ phase' \in {"asking", "prompting"} /\ round' = 0
      /\ polls' \in 0 .. Polls - 1 /\ prompted' = prompted
  BY <1>1, <1>2 DEF AskNext
<1>4. /\ team' \in 0 .. NTeams - 1 /\ answers' \in 0 .. NTeams /\ answers' <= team'
      /\ phase' = "prompting" => team' = 0
  BY <1>1 DEF AskNext
<1>5. DraftShape'
  BY <1>1, <1>2, <1>3, <1>4 DEF DraftShape, Picking
<1> QED
  BY <1>3, <1>4, <1>5 DEF Teams

-----------------------------------------------------------------------------
\* The loop variables when a turn gets its pick.
LEMMA TakenStep ==
  ASSUME DraftTypeOK, DraftShape, phase \in {"reading", "expired"},
         TurnTaken, phase' \in {"late", "updating"}
  PROVE  /\ phase' \in Phases /\ team' \in Teams /\ round' \in 0 .. Rounds
         /\ polls' \in 0 .. Polls - 1 /\ answers' \in 0 .. NTeams /\ prompted' \in BOOLEAN
         /\ team \in Teams /\ round \in RoundNumbers /\ ~ TurnIsOver(team, round)
         /\ DraftShape'
         /\ \A t \in Teams, r \in RoundNumbers :
              TurnIsOver(t, r)' <=> TurnIsOver(t, r) \/ (t = team /\ r = round)
         /\ TurnsOver \in Nat /\ TurnsOver' = TurnsOver + 1 /\ TurnsOver < NTeams * Rounds
         /\ TurnsOver % NTeams = team /\ TurnsOver \div NTeams = round
<1>1. /\ UNCHANGED <<team, round, answers>> /\ polls' = 0 /\ prompted' = FALSE
      /\ Picking /\ Picking' /\ ~ HasPick /\ HasPick'
  BY DEF TurnTaken, Picking, HasPick
<1>2. /\ team \in Teams /\ round \in RoundNumbers /\ round \in 0 .. Rounds /\ round \in Nat
      /\ answers \in 0 .. NTeams /\ round < Rounds
  BY Sizes DEF DraftTypeOK, DraftShape, RoundNumbers
<1>3. 0 \in 0 .. Polls - 1
  BY Sizes
<1>4. /\ phase' \in Phases /\ team' \in Teams /\ round' \in 0 .. Rounds
      /\ polls' \in 0 .. Polls - 1 /\ answers' \in 0 .. NTeams /\ prompted' \in BOOLEAN
  BY <1>1, <1>2, <1>3 DEF Phases
<1>5. DraftShape'
  BY <1>1, <1>2 DEF DraftShape
<1>6. ~ TurnIsOver(team, round)
  BY <1>1, <1>2 DEF TurnIsOver, Teams
<1>7. \A t \in Teams, r \in RoundNumbers :
        TurnIsOver(t, r)' <=> TurnIsOver(t, r) \/ (t = team /\ r = round)
  BY <1>1, <1>2 DEF TurnIsOver, Teams, RoundNumbers
<1>8. /\ TurnsOver \in Nat /\ TurnsOver' = TurnsOver + 1 /\ TurnsOver < NTeams * Rounds
      /\ TurnsOver % NTeams = team /\ TurnsOver \div NTeams = round
  <2>1. TurnsOver = round * NTeams + team /\ TurnsOver' = round * NTeams + team + 1
    BY <1>1, <1>2, Sizes DEF TurnsOver, HasPick, Teams
  <2>2. CASE NTeams = 1
    BY <2>1, <2>2, <1>2, Sizes DEF Teams
  <2>3. CASE NTeams = 2
    BY <2>1, <2>3, <1>2, Sizes DEF Teams
  <2> QED
    BY <2>2, <2>3, Sizes
<1> QED
  BY <1>2, <1>4, <1>5, <1>6, <1>7, <1>8

\* A turn that takes the player p.
LEMMA TurnStep ==
  ASSUME DraftTypeOK, DraftShape, PlayersOut, Left, phase \in {"reading", "expired"},
         NEW p \in available, RecordPick(p), TurnTaken, phase' \in {"late", "updating"}
  PROVE  /\ available' \in SUBSET Players
         /\ playerIDs' \in [Teams -> [0 .. Rounds - 1 -> IDs \cup {NoPick}]]
         /\ PlayersOut' /\ Left'
<1>1. /\ team \in Teams /\ round \in RoundNumbers /\ ~ TurnIsOver(team, round)
      /\ \A t \in Teams, r \in RoundNumbers :
           TurnIsOver(t, r)' <=> TurnIsOver(t, r) \/ (t = team /\ r = round)
      /\ TurnsOver \in Nat /\ TurnsOver' = TurnsOver + 1
  BY TakenStep
<1>2. /\ available' = available \ {p} /\ p \in Players /\ available \subseteq Players
      /\ playerIDs' = [playerIDs EXCEPT ![team][round] = p]
      /\ playerIDs \in [Teams -> [RoundNumbers -> IDs \cup {NoPick}]]
      /\ p \in IDs
  BY IDsApart DEF RecordPick, DraftTypeOK, RoundNumbers
<1>3. /\ playerIDs' \in [Teams -> [RoundNumbers -> IDs \cup {NoPick}]]
      /\ \A t \in Teams, r \in RoundNumbers :
           playerIDs'[t][r] = IF t = team /\ r = round THEN p ELSE playerIDs[t][r]
  BY <1>1, <1>2
<1>4. PlayersOut'
  <2>1. \A t \in Teams, r \in RoundNumbers :
          TurnIsOver(t, r)' => playerIDs'[t][r] \notin available'
    BY <1>1, <1>2, <1>3 DEF PlayersOut
  <2>2. ASSUME NoneWasted', NEW q \in Players \ available'
        PROVE  \E t \in Teams, r \in RoundNumbers : TurnIsOver(t, r)' /\ playerIDs'[t][r] = q
    <3>1. CASE q = p
      BY <3>1, <1>1, <1>3
    <3>2. CASE q # p
      <4>1. NoneWasted
        BY <2>2, <1>1, <1>3 DEF NoneWasted
      <4>2. PICK t \in Teams, r \in RoundNumbers : TurnIsOver(t, r) /\ playerIDs[t][r] = q
        BY <3>2, <4>1, <1>2 DEF PlayersOut
      <4> QED
        BY <4>2, <1>1, <1>3
    <3> QED
      BY <3>1, <3>2
  <2>3. \A t, u \in Teams, r, s \in RoundNumbers :
          TurnIsOver(t, r)' /\ TurnIsOver(u, s)' /\ playerIDs'[t][r] = playerIDs'[u][s]
            /\ playerIDs'[t][r] \in Players
            => t = u /\ r = s
    BY <1>1, <1>2, <1>3 DEF PlayersOut
  <2> QED
    BY <2>1, <2>2, <2>3 DEF PlayersOut
<1>5. Left'
  <2>1. IsFiniteSet(available)
    <3>1. IsFiniteSet(0 .. MAX_PLAYERS - 1)
      BY FS_Interval, Sizes
    <3> QED
      BY <3>1, <1>2, FS_Subset DEF Players
  <2>2. Cardinality(available \ {p}) = Cardinality(available) - 1 /\ Cardinality(available) \in Nat
    BY <2>1, FS_RemoveElement, FS_CardinalityType
  <2> QED
    BY <2>2, <1>1, <1>2, Sizes DEF Left
<1> QED
  BY <1>2, <1>3, <1>4, <1>5 DEF RoundNumbers

\* A turn wasted on an ID that is no player's, which may cost an earlier one.
LEMMA WasteStep ==
  ASSUME DraftTypeOK, DraftShape, PlayersOut, Left, phase = "reading",
         RecordOutside, TurnTaken, phase' = "updating"
  PROVE  /\ available' \in SUBSET Players
         /\ playerIDs' \in [Teams -> [0 .. Rounds - 1 -> IDs \cup {NoPick}]]
         /\ PlayersOut' /\ Left'
<1>1. /\ team \in Teams /\ round \in RoundNumbers /\ ~ TurnIsOver(team, round)
      /\ \A t \in Teams, r \in RoundNumbers :
           TurnIsOver(t, r)' <=> TurnIsOver(t, r) \/ (t = team /\ r = round)
      /\ TurnsOver \in Nat /\ TurnsOver' = TurnsOver + 1
  BY TakenStep
<1>2. /\ available' = available /\ available \subseteq Players
      /\ playerIDs \in [Teams -> [RoundNumbers -> IDs \cup {NoPick}]]
  BY DEF RecordOutside, DraftTypeOK, RoundNumbers
<1>3. /\ playerIDs' \in [Teams -> [RoundNumbers -> IDs \cup {NoPick}]]
      /\ \A t \in Teams, r \in RoundNumbers :
           playerIDs'[t][r] = playerIDs[t][r] \/ playerIDs'[t][r] \in {Outside, NoPick}
      /\ playerIDs'[team][round] \in {Outside, NoPick}
  <2>1. CASE playerIDs' = [playerIDs EXCEPT ![team][round] = Outside]
    BY <2>1, <1>1, <1>2, IDsApart
  <2>2. CASE \E t \in Teams, r \in RoundNumbers :
               playerIDs' = [playerIDs EXCEPT ![team][round] = Outside, ![t][r] = NoPick]
    <3>1. PICK t \in Teams, r \in RoundNumbers :
            playerIDs' = [playerIDs EXCEPT ![team][round] = Outside, ![t][r] = NoPick]
      BY <2>2
    <3> DEFINE first == [playerIDs EXCEPT ![team][round] = Outside]
    <3>2. /\ first \in [Teams -> [RoundNumbers -> IDs \cup {NoPick}]]
          /\ first[team][round] = Outside
          /\ \A u \in Teams, s \in RoundNumbers :
               first[u][s] = playerIDs[u][s] \/ first[u][s] = Outside
      BY <1>1, <1>2, IDsApart
    <3>3. playerIDs' = [first EXCEPT ![t][r] = NoPick]
      BY <3>1
    <3> HIDE DEF first
    <3> QED
      BY <3>2, <3>3, <1>1
  <2> QED
    BY <2>1, <2>2 DEF RecordOutside, RoundNumbers
<1>4. \A t \in Teams, r \in RoundNumbers : playerIDs'[t][r] \in Players =>
        /\ playerIDs'[t][r] = playerIDs[t][r]
        /\ ~ (t = team /\ r = round)
  BY <1>3, IDsApart
<1>5. ~ NoneWasted'
  BY <1>1, <1>3, IDsApart DEF NoneWasted
<1>6. PlayersOut'
  <2>1. \A t \in Teams, r \in RoundNumbers :
          TurnIsOver(t, r)' => playerIDs'[t][r] \notin available'
    BY <1>1, <1>2, <1>4 DEF PlayersOut
  <2>2. \A t, u \in Teams, r, s \in RoundNumbers :
          TurnIsOver(t, r)' /\ TurnIsOver(u, s)' /\ playerIDs'[t][r] = playerIDs'[u][s]
            /\ playerIDs'[t][r] \in Players
            => t = u /\ r = s
    BY <1>1, <1>4 DEF PlayersOut
  <2> QED
    BY <2>1, <2>2, <1>5 DEF PlayersOut
<1>7. Left'
  <2>1. IsFiniteSet(available)
    <3>1. IsFiniteSet(0 .. MAX_PLAYERS - 1)
      BY FS_Interval, Sizes
    <3> QED
      BY <3>1, <1>2, FS_Subset DEF Players
  <2>2. Cardinality(available) \in Nat
    BY <2>1, FS_CardinalityType
  <2> QED
    BY <2>2, <1>1, <1>2, Sizes DEF Left
<1> QED
  BY <1>2, <1>3, <1>6, <1>7 DEF RoundNumbers

-----------------------------------------------------------------------------
\* No turn gets its pick: the ways the loop variables may change then.
TurnsStay ==
  \/ UNCHANGED <<team, round>> /\ (Picking' <=> Picking) /\ (HasPick' <=> HasPick)
  \/ ~ Picking /\ team' = 0 /\ round' = 0 /\ ~ HasPick'
  \/ ~ Picking /\ ~ Picking'
  \/ phase = "updating" /\ NextTurn
  \/ phase \in {"picked", "ending"} /\ phase' \in {"ending", "done"} /\ UNCHANGED round

\* The picks stay as they are then.
LEMMA NoTurn ==
  ASSUME DraftTypeOK, DraftShape, TurnsStay
  PROVE  /\ TurnsOver' = TurnsOver
         /\ \A t \in Teams, r \in RoundNumbers : TurnIsOver(t, r)' <=> TurnIsOver(t, r)
         /\ PlayersOut /\ Left /\ UNCHANGED <<available, playerIDs>> => PlayersOut' /\ Left'
<1>1. /\ team \in Teams /\ round \in 0 .. Rounds /\ Rounds \in Nat \ {0}
      /\ NTeams \in {1, 2}
  BY Sizes DEF DraftTypeOK
<1>2. /\ TurnsOver' = TurnsOver
      /\ \A t \in Teams, r \in RoundNumbers : TurnIsOver(t, r)' <=> TurnIsOver(t, r)
  <2>1. CASE UNCHANGED <<team, round>> /\ (Picking' <=> Picking) /\ (HasPick' <=> HasPick)
    BY <2>1 DEF TurnsOver, TurnIsOver, HasPick
  <2>2. CASE ~ Picking /\ team' = 0 /\ round' = 0 /\ ~ HasPick'
    BY <2>2, <1>1 DEF TurnsOver, TurnIsOver, HasPick, Teams, RoundNumbers
  <2>3. CASE ~ Picking /\ ~ Picking'
    BY <2>3 DEF TurnsOver, TurnIsOver
  <2>4. CASE phase = "updating" /\ NextTurn
    <3>1. Picking /\ Picking' /\ HasPick /\ ~ HasPick' /\ round < Rounds
      BY <2>4 DEF Picking, HasPick, NextTurn, DraftShape
    <3>2. CASE team < NTeams - 1 /\ team' = team + 1 /\ round' = round
      BY <3>1, <3>2, <1>1 DEF TurnsOver, TurnIsOver, HasPick, Teams, RoundNumbers
    <3>3. CASE team = NTeams - 1 /\ team' = 0 /\ round' = round + 1
      <4>1. CASE NTeams = 1
        BY <3>1, <3>3, <4>1, <1>1 DEF TurnsOver, TurnIsOver, HasPick, Teams, RoundNumbers
      <4>2. CASE NTeams = 2
        BY <3>1, <3>3, <4>2, <1>1 DEF TurnsOver, TurnIsOver, HasPick, Teams, RoundNumbers
      <4> QED
        BY <4>1, <4>2, <1>1
    <3> QED
      BY <2>4, <3>2, <3>3 DEF NextTurn
  <2>5. CASE phase \in {"picked", "ending"} /\ phase' \in {"ending", "done"} /\ UNCHANGED round
    <3>1. Picking /\ Picking' /\ round = Rounds /\ round' = Rounds /\ ~ HasPick /\ ~ HasPick'
      BY <2>5 DEF Picking, HasPick, DraftShape
    <3> QED
      BY <3>1, <1>1 DEF TurnsOver, TurnIsOver, RoundNumbers
  <2> QED
    BY <2>1, <2>2, <2>3, <2>4, <2>5 DEF TurnsStay
<1>3. ASSUME PlayersOut, Left, UNCHANGED <<available, playerIDs>>
      PROVE  PlayersOut' /\ Left'
  <2>1. PlayersOut'
    BY <1>2, <1>3 DEF PlayersOut, NoneWasted
  <2> QED
    BY <2>1, <1>2, <1>3 DEF Left
<1> QED
  BY <1>2, <1>3

LEMMA DraftInitial == Init => DraftInvariant
<1> SUFFICES ASSUME Init PROVE DraftInvariant
  OBVIOUS
<1>1. DraftTypeOK
  <2>1. /\ 0 \in 0 .. MaxJoins /\ 0 \in 0 .. MaxPrompts /\ 0 \in 0 .. Rounds
        /\ 0 \in 0 .. Polls - 1 /\ 0 \in 0 .. NTeams
    BY Sizes
  <2>2. << >> \in Seq(IDs)
    BY EmptySeq
  <2>3. 0 \in Teams /\ 0 \in IDs
    BY Sizes, IDsApart
  <2> QED
    BY <2>1, <2>2, <2>3 DEF Init, DraftTypeOK, Phases
<1>2. ~ Picking /\ available = Players /\ round = 0 /\ answers = 0 /\ team = 0
  BY DEF Init, Picking
<1>3. DraftShape /\ PlayersOut
  BY <1>2 DEF DraftShape, PlayersOut, TurnIsOver, Picking, Init
<1>4. Cardinality(0 .. MAX_PLAYERS - 1) = MAX_PLAYERS
  BY FS_Interval, Sizes
<1>5. Left
  BY <1>2, <1>4, Sizes DEF Left, TurnsOver, Players
<1> QED
  BY <1>1, <1>3, <1>5 DEF DraftInvariant

-----------------------------------------------------------------------------
\* What clients and servers do touches no pick.
LEMMA UserSteps ==
  ASSUME DraftInvariant, NEW t \in Teams,
         \/ JoinDraft(t) \/ QuitDraft(t) \/ AnswerAlive(t) \/ StopReading(t)
         \/ \E p \in IDs : ChoosePlayer(t, p)
  PROVE  DraftInvariant'
<1>1. UNCHANGED <<pickVars, loopVars, up>>
  BY DEF JoinDraft, QuitDraft, AnswerAlive, StopReading, ChoosePlayer
<1>2. DraftShape' /\ PlayersOut' /\ Left'
  BY <1>1, NoTurn
  DEF DraftInvariant, TurnsStay, DraftShape, Picking, HasPick, pickVars, loopVars
<1>3. CASE JoinDraft(t)
  <2>1. cant' \in 0 .. MaxJoins /\ joins' \in [Teams -> Nat]
    BY <1>3, Sizes, SMTT(30) DEF JoinDraft, DraftInvariant, DraftTypeOK
  <2>2. channel' \in [Teams -> BOOLEAN] /\ blocking' \in [Teams -> BOOLEAN]
    BY <1>3 DEF JoinDraft, DraftInvariant, DraftTypeOK
  <2>3. pipe' \in [Teams -> Seq(IDs)]
    BY <1>3, EmptySeq DEF JoinDraft, DraftInvariant, DraftTypeOK
  <2>4. second' \in [Teams -> IDs]
    BY <1>3, IDsApart DEF JoinDraft, DraftInvariant, DraftTypeOK
  <2>5. UNCHANGED <<inbox, owed, asked, waiting>>
    BY <1>3 DEF JoinDraft, clientVars
  <2>6. DraftTypeOK'
    BY <1>1, <2>1, <2>2, <2>3, <2>4, <2>5 DEF DraftInvariant, DraftTypeOK, pickVars, loopVars
  <2> QED
    BY <1>2, <2>6 DEF DraftInvariant
<1>4. CASE QuitDraft(t)
  <2>1. channel' \in [Teams -> BOOLEAN]
    <3>1. channel' = channel \/ channel' = [channel EXCEPT ![t] = FALSE]
      BY <1>4 DEF QuitDraft
    <3> QED
      BY <3>1, Zenon DEF DraftInvariant, DraftTypeOK
  <2>6. owed' \in [Teams -> 0 .. MaxPrompts] /\ asked' \in [Teams -> 0 .. MaxPrompts]
    <3>1. 0 \in 0 .. MaxPrompts
      BY Sizes
    <3>2. owed' = [owed EXCEPT ![t] = 0] /\ asked' = [asked EXCEPT ![t] = 0]
      BY <1>4 DEF QuitDraft
    <3> QED
      BY <3>1, <3>2 DEF DraftInvariant, DraftTypeOK
  <2>2. UNCHANGED <<cant, joins, pipe, blocking, second>>
    BY <1>4 DEF QuitDraft, joinVars
  <2>3. inbox' \in [Teams -> {"read", "room", "full"}]
    <3>1. inbox \in [Teams -> {"read", "room", "full"}] /\ Filled(t) \in {"read", "room", "full"}
      BY DEF DraftInvariant, DraftTypeOK, Filled
    <3>2. inbox' = [inbox EXCEPT ![t] = Filled(t)]
      BY <1>4 DEF QuitDraft
    <3> QED
      BY <3>1, <3>2
  <2>4. waiting' \in {"nobody", "thread", "server"}
    BY <1>4 DEF QuitDraft, DraftInvariant, DraftTypeOK
  <2>5. DraftTypeOK'
    BY <1>1, <2>1, <2>2, <2>3, <2>4, <2>6 DEF DraftInvariant, DraftTypeOK, pickVars, loopVars
  <2> QED
    BY <1>2, <2>5 DEF DraftInvariant
<1>5. CASE AnswerAlive(t)
  <2>1. pipe' \in [Teams -> Seq(IDs)]
    BY <1>5, AppendProperties DEF AnswerAlive, DraftInvariant, DraftTypeOK
  <2>2. owed' \in [Teams -> 0 .. MaxPrompts]
    <3>1. owed \in [Teams -> 0 .. MaxPrompts] /\ MaxPrompts \in Nat
      BY Sizes DEF DraftInvariant, DraftTypeOK
    <3>2. owed[t] > 0 /\ owed' = [owed EXCEPT ![t] = @ - 1]
      BY <1>5, SMT DEF AnswerAlive
    <3> QED
      BY <3>1, <3>2
  <2> QED
    BY <1>1, <1>2, <1>5, <2>1, <2>2
    DEF AnswerAlive, DraftInvariant, DraftTypeOK, pickVars, loopVars, joinVars
<1>6. CASE \E p \in IDs : ChoosePlayer(t, p)
  <2> PICK p \in IDs : ChoosePlayer(t, p)
    BY <1>6
  <2>1. pipe' \in [Teams -> Seq(IDs)]
    BY AppendProperties DEF ChoosePlayer, DraftInvariant, DraftTypeOK
  <2>2. asked' \in [Teams -> 0 .. MaxPrompts]
    <3>1. asked \in [Teams -> 0 .. MaxPrompts] /\ MaxPrompts \in Nat
      BY Sizes DEF DraftInvariant, DraftTypeOK
    <3>2. asked[t] > 0 /\ asked' = [asked EXCEPT ![t] = @ - 1]
      BY SMT DEF ChoosePlayer
    <3> QED
      BY <3>1, <3>2
  <2> QED
    BY <1>1, <1>2, <2>1, <2>2
    DEF ChoosePlayer, DraftInvariant, DraftTypeOK, pickVars, loopVars, joinVars
<1>7. CASE StopReading(t)
  <2>1. inbox' \in [Teams -> {"read", "room", "full"}]
    BY <1>7 DEF StopReading, DraftInvariant, DraftTypeOK
  <2>2. DraftTypeOK'
    BY <1>1, <1>7, <2>1
    DEF StopReading, DraftInvariant, DraftTypeOK, pickVars, loopVars, joinVars, wireVars
  <2> QED
    BY <1>2, <2>2 DEF DraftInvariant
<1> QED
  BY <1>3, <1>4, <1>5, <1>6, <1>7

\* What the thread does while it asks who is there.
LEMMA AskingSteps ==
  ASSUME DraftInvariant, Start \/ AskAlive \/ SkipTeam \/ Listen
  PROVE  DraftInvariant'
<1> USE DEF DraftInvariant
<1>1. CASE Start
  <2>1. DraftTypeOK'
    BY <1>1 DEF Start, DraftTypeOK, Phases, joinVars, clientVars, wireVars, pickVars
  <2>2. DraftShape' /\ PlayersOut' /\ Left'
    BY <1>1, NoTurn DEF Start, TurnsStay, DraftShape, Picking, pickVars
  <2> QED
    BY <2>1, <2>2
<1>2. CASE AskAlive
  <2>1. owed' \in [Teams -> 0 .. MaxPrompts]
    <3>1. /\ owed \in [Teams -> 0 .. MaxPrompts] /\ asked \in [Teams -> 0 .. MaxPrompts]
          /\ MaxPrompts \in Nat /\ team \in Teams
      BY Sizes DEF DraftTypeOK
    <3>2. owed' = [owed EXCEPT ![team] = IF CanBeAsked(team) THEN @ + 1 ELSE @]
      BY <1>2 DEF AskAlive
    <3>3. CanBeAsked(team) => owed[team] + 1 \in 0 .. MaxPrompts
      BY <3>1 DEF CanBeAsked
    <3> QED
      BY <3>1, <3>2, <3>3
  <2>2. /\ inbox' \in [Teams -> {"read", "room", "full"}]
        /\ waiting' \in {"nobody", "thread", "server"}
    BY <1>2, SendStep DEF AskAlive, DraftTypeOK
  <2>3. DraftTypeOK'
    BY <1>2, <2>1, <2>2 DEF AskAlive, DraftTypeOK, Phases, joinVars, pickVars
  <2>4. DraftShape' /\ PlayersOut' /\ Left'
    BY <1>2, NoTurn DEF AskAlive, TurnsStay, DraftShape, Picking, pickVars
  <2> QED
    BY <2>3, <2>4
<1>3. CASE SkipTeam
  <2>1. answers \in 0 .. team + 1 /\ phase \in {"asking", "listening"} /\ available' = available
    BY <1>3, Sizes DEF SkipTeam, DraftTypeOK, DraftShape, Picking, Teams, pickVars
  <2>2. /\ phase' \in {"asking", "prompting"} /\ team' \in Teams /\ round' = 0
        /\ polls' \in 0 .. Polls - 1 /\ answers' \in 0 .. NTeams /\ prompted' = prompted
        /\ phase' = "prompting" => team' = 0
        /\ DraftShape'
    BY <1>3, <2>1, AskNextStep DEF SkipTeam, pickVars
  <2>3. DraftTypeOK'
    <3>1. phase' \in Phases /\ round' \in 0 .. Rounds /\ prompted' \in BOOLEAN
      BY <2>2, Sizes DEF Phases, DraftTypeOK
    <3> QED
      BY <1>3, <2>2, <3>1 DEF SkipTeam, DraftTypeOK, joinVars, clientVars, wireVars, pickVars
  <2>4. PlayersOut' /\ Left'
    BY <1>3, <2>2, NoTurn DEF SkipTeam, TurnsStay, Picking, HasPick, pickVars
  <2> QED
    BY <2>2, <2>3, <2>4
<1>4. CASE Listen
  <2>1. pipe' \in [Teams -> Seq(IDs)]
    <3>1. pipe \in [Teams -> Seq(IDs)] /\ team \in Teams
      BY DEF DraftTypeOK
    <3>2. pipe[team] # << >> => Tail(pipe[team]) \in Seq(IDs)
      BY <3>1, HeadTailProperties
    <3>3. \/ pipe' = pipe
          \/ pipe[team] # << >> /\ pipe' = [pipe EXCEPT ![team] = Tail(@)]
      BY <1>4 DEF Listen
    <3> QED
      BY <3>1, <3>2, <3>3
  <2>2. CASE AskNext(answers) \/ AskNext(answers + 1)
    <3>1. answers \in 0 .. team + 1 /\ answers + 1 \in 0 .. team + 1
      BY <1>4, Sizes DEF Listen, DraftTypeOK, DraftShape, Picking, Teams
    <3>2. phase \in {"asking", "listening"} /\ available' = available
      BY <1>4 DEF Listen, pickVars
    <3>3. /\ phase' \in {"asking", "prompting"} /\ team' \in Teams /\ round' = 0
          /\ polls' \in 0 .. Polls - 1 /\ answers' \in 0 .. NTeams /\ prompted' = prompted
          /\ phase' = "prompting" => team' = 0
          /\ DraftShape'
      BY <2>2, <3>1, <3>2, AskNextStep
    <3>4. DraftTypeOK'
      <4>1. phase' \in Phases /\ round' \in 0 .. Rounds /\ prompted' \in BOOLEAN
        BY <3>3, Sizes DEF Phases, DraftTypeOK
      <4> QED
        BY <1>4, <2>1, <3>3, <4>1 DEF Listen, DraftTypeOK, joinVars, clientVars, pickVars
    <3>5. PlayersOut' /\ Left'
      BY <1>4, <3>3, NoTurn DEF Listen, TurnsStay, Picking, HasPick, pickVars
    <3> QED
      BY <3>3, <3>4, <3>5
  <2>3. CASE polls < Polls - 1 /\ polls' = polls + 1 /\ UNCHANGED <<phase, team, round, answers, prompted>>
    <3>1. polls' \in 0 .. Polls - 1
      BY <2>3, Sizes DEF DraftTypeOK
    <3>2. DraftTypeOK'
      BY <1>4, <2>1, <2>3, <3>1 DEF Listen, DraftTypeOK, Phases, joinVars, clientVars, pickVars
    <3>3. DraftShape' /\ PlayersOut' /\ Left'
      BY <1>4, <2>3, NoTurn DEF Listen, TurnsStay, DraftShape, Picking, HasPick, pickVars
    <3> QED
      BY <3>2, <3>3
  <2> QED
    BY <1>4, <2>2, <2>3 DEF Listen
<1> QED
  BY <1>1, <1>2, <1>3, <1>4

\* What the thread sends, before a turn has its pick and after.
LEMMA TellingSteps ==
  ASSUME DraftInvariant, Prompt \/ TellTeam \/ TellOther \/ HandOver \/ EndDraft
  PROVE  DraftInvariant'
<1> USE DEF DraftInvariant
<1>0. team \in Teams /\ 0 \in Teams /\ NTeams \in {1, 2}
  BY Sizes DEF DraftTypeOK
<1>1. CASE Prompt
  <2>1. asked' \in [Teams -> 0 .. MaxPrompts]
    BY <1>0, <1>1, AskedStep DEF Prompt
  <2>2. /\ inbox' \in [Teams -> {"read", "room", "full"}]
        /\ waiting' \in {"nobody", "thread", "server"}
    <3>1. CASE Send(team)
      BY <1>0, <3>1, SendStep
    <3>2. CASE UNCHANGED <<inbox, waiting>>
      BY <3>2 DEF DraftTypeOK
    <3> QED
      BY <1>1, <3>1, <3>2 DEF Prompt
  <2>3. prompted' \in BOOLEAN
    BY <1>0, <1>1 DEF Prompt, DraftTypeOK
  <2>4. DraftTypeOK'
    BY <1>1, <2>1, <2>2, <2>3 DEF Prompt, DraftTypeOK, Phases, joinVars, wireVars, pickVars
  <2>5. DraftShape' /\ PlayersOut' /\ Left'
    BY <1>1, NoTurn DEF Prompt, TurnsStay, DraftShape, Picking, HasPick, pickVars
  <2> QED
    BY <2>4, <2>5
<1>2. CASE TellTeam
  <2>1. /\ inbox' \in [Teams -> {"read", "room", "full"}]
        /\ waiting' \in {"nobody", "thread", "server"}
    BY <1>0, <1>2, SendStep DEF TellTeam
  <2>2. DraftTypeOK'
    BY <1>2, <2>1 DEF TellTeam, DraftTypeOK, Phases, joinVars, wireVars, pickVars
  <2>3. DraftShape' /\ PlayersOut' /\ Left'
    BY <1>2, NoTurn DEF TellTeam, TurnsStay, DraftShape, Picking, HasPick, pickVars
  <2> QED
    BY <2>2, <2>3
<1>3. CASE TellOther
  <2>1. /\ inbox' \in [Teams -> {"read", "room", "full"}]
        /\ waiting' \in {"nobody", "thread", "server"}
    <3>1. CASE NTeams = 2 /\ Send(1 - team)
      <4>1. 1 - team \in Teams
        BY <1>0, <3>1 DEF Teams
      <4> QED
        BY <3>1, <4>1, SendStep
    <3>2. CASE UNCHANGED <<inbox, waiting>>
      BY <3>2 DEF DraftTypeOK
    <3> QED
      BY <1>3, <3>1, <3>2 DEF TellOther
  <2>2. phase' \in Phases /\ team' \in Teams /\ round' \in 0 .. Rounds
    <3>1. team \in 0 .. NTeams - 1 /\ round < Rounds /\ round \in Nat /\ Rounds \in Nat
      BY <1>0, <1>3, Sizes DEF TellOther, DraftShape, DraftTypeOK, Teams
    <3> QED
      BY <1>0, <1>3, <3>1 DEF TellOther, NextTurn, Phases, Teams
  <2>3. DraftTypeOK'
    BY <1>3, <2>1, <2>2
    DEF TellOther, NextTurn, DraftTypeOK, joinVars, wireVars, pickVars
  <2>4. DraftShape'
    <3>1. round < Rounds /\ round \in Nat /\ Rounds \in Nat
      BY <1>3, Sizes DEF TellOther, DraftShape, DraftTypeOK
    <3> QED
      BY <1>3, <3>1 DEF TellOther, NextTurn, DraftShape, Picking
  <2>5. PlayersOut' /\ Left'
    BY <1>3, NoTurn DEF TellOther, TurnsStay, pickVars
  <2> QED
    BY <2>3, <2>4, <2>5
<1>4. CASE HandOver
  <2>1. up' \in BOOLEAN
    BY <1>4 DEF HandOver, DraftTypeOK
  <2>2. DraftTypeOK'
    BY <1>4, <2>1 DEF HandOver, DraftTypeOK, Phases, joinVars, clientVars, wireVars, pickVars
  <2>3. DraftShape' /\ PlayersOut' /\ Left'
    BY <1>4, NoTurn DEF HandOver, TurnsStay, DraftShape, Picking, pickVars
  <2> QED
    BY <2>2, <2>3
<1>5. CASE EndDraft
  <2>1. /\ inbox' \in [Teams -> {"read", "room", "full"}]
        /\ waiting' \in {"nobody", "thread", "server"}
    BY <1>0, <1>5, SendStep DEF EndDraft
  <2>2. phase' \in {"ending", "done"} /\ team' \in Teams
    BY <1>0, <1>5 DEF EndDraft, Teams
  <2>3. DraftTypeOK'
    BY <1>5, <2>1, <2>2 DEF EndDraft, DraftTypeOK, Phases, joinVars, wireVars, pickVars
  <2>4. DraftShape' /\ PlayersOut' /\ Left'
    BY <1>5, <2>2, NoTurn DEF EndDraft, TurnsStay, DraftShape, Picking, pickVars
  <2> QED
    BY <2>3, <2>4
<1> QED
  BY <1>1, <1>2, <1>3, <1>4, <1>5

\* A poll that does not end the turn.
LEMMA PollStep ==
  ASSUME DraftInvariant, phase = "reading", NextPoll, UNCHANGED pickVars
  PROVE  /\ phase' \in Phases /\ team' \in Teams /\ round' \in 0 .. Rounds
         /\ polls' \in 0 .. Polls - 1 /\ answers' \in 0 .. NTeams /\ prompted' \in BOOLEAN
         /\ DraftShape' /\ PlayersOut' /\ Left'
<1>1. phase' \in {"prompting", "expired"} /\ UNCHANGED <<team, round, answers, prompted>>
  BY DEF NextPoll
<1>2. polls' \in 0 .. Polls - 1
  BY Sizes DEF NextPoll, DraftInvariant, DraftTypeOK
<1>3. DraftShape' /\ PlayersOut' /\ Left'
  BY <1>1, NoTurn DEF DraftInvariant, TurnsStay, DraftShape, Picking, HasPick, pickVars
<1> QED
  BY <1>1, <1>2, <1>3 DEF DraftInvariant, DraftTypeOK, Phases

\* Whatever the thread reads, or does not.
LEMMA ReadSteps ==
  ASSUME DraftInvariant, ReadPick \/ ReadNothing
  PROVE  DraftInvariant'
<1>1. CASE ReadNothing
  <2>1. DraftTypeOK'
    BY <1>1, PollStep
    DEF ReadNothing, DraftInvariant, DraftTypeOK, joinVars, clientVars, wireVars, pickVars
  <2> QED
    BY <1>1, <2>1, PollStep DEF ReadNothing, DraftInvariant
<1>2. CASE ReadPick
  <2> DEFINE p == Head(pipe[team])
  <2>0. team \in Teams /\ phase = "reading"
    BY <1>2 DEF ReadPick, DraftInvariant, DraftTypeOK
  <2>1. pipe' \in [Teams -> Seq(IDs)]
    <3>1. pipe \in [Teams -> Seq(IDs)]
      BY DEF DraftInvariant, DraftTypeOK
    <3>2. pipe[team] # << >> /\ pipe' = [pipe EXCEPT ![team] = Tail(@)]
      BY <1>2 DEF ReadPick
    <3>3. Tail(pipe[team]) \in Seq(IDs)
      BY <2>0, <3>1, <3>2, HeadTailProperties
    <3> QED
      BY <3>1, <3>2, <3>3
  <2>2. UNCHANGED <<joinVars, owed, channel, blocking, second>>
    BY <1>2 DEF ReadPick
  <2>3. \/ p \in available /\ RecordPick(p) /\ Accept
        \/ RecordOutside /\ Accept
        \/ Refuse
        \/ Crash
    BY <1>2 DEF ReadPick
  <2>4. CASE Accept /\ (RecordOutside \/ (p \in available /\ RecordPick(p)))
    <3>1. TurnTaken /\ phase' = "updating" /\ Send(team) /\ UNCHANGED <<asked, up>>
      BY <2>4 DEF Accept
    <3>2. /\ phase' \in Phases /\ team' \in Teams /\ round' \in 0 .. Rounds
          /\ polls' \in 0 .. Polls - 1 /\ answers' \in 0 .. NTeams /\ prompted' \in BOOLEAN
          /\ DraftShape'
      BY <2>0, <3>1, TakenStep DEF DraftInvariant
    <3>3. /\ available' \in SUBSET Players
          /\ playerIDs' \in [Teams -> [0 .. Rounds - 1 -> IDs \cup {NoPick}]]
          /\ PlayersOut' /\ Left'
      BY <2>0, <2>4, <3>1, TurnStep, WasteStep DEF DraftInvariant
    <3>4. /\ inbox' \in [Teams -> {"read", "room", "full"}]
          /\ waiting' \in {"nobody", "thread", "server"}
      BY <2>0, <3>1, SendStep DEF DraftInvariant
    <3>5. DraftTypeOK'
      BY <2>1, <2>2, <3>1, <3>2, <3>3, <3>4 DEF DraftInvariant, DraftTypeOK, joinVars
    <3> QED
      BY <3>2, <3>3, <3>5 DEF DraftInvariant
  <2>5. CASE Refuse
    <3>1. NextPoll /\ UNCHANGED <<pickVars, up>> /\ Send(team)
      BY <2>5 DEF Refuse
    <3>2. /\ phase' \in Phases /\ team' \in Teams /\ round' \in 0 .. Rounds
          /\ polls' \in 0 .. Polls - 1 /\ answers' \in 0 .. NTeams /\ prompted' \in BOOLEAN
          /\ DraftShape' /\ PlayersOut' /\ Left'
      BY <2>0, <3>1, PollStep
    <3>3. asked' \in [Teams -> 0 .. MaxPrompts]
      BY <2>0, <2>5, AskedStep DEF Refuse, DraftInvariant
    <3>4. /\ inbox' \in [Teams -> {"read", "room", "full"}]
          /\ waiting' \in {"nobody", "thread", "server"}
      BY <2>0, <3>1, SendStep DEF DraftInvariant
    <3>5. DraftTypeOK'
      BY <2>1, <2>2, <3>1, <3>2, <3>3, <3>4 DEF DraftInvariant, DraftTypeOK, joinVars, pickVars
    <3> QED
      BY <3>2, <3>5 DEF DraftInvariant
  <2>6. CASE Crash
    <3>1. DraftShape' /\ PlayersOut' /\ Left'
      BY <2>6, NoTurn
      DEF Crash, DraftInvariant, TurnsStay, DraftShape, Picking, HasPick, pickVars, loopVars
    <3>2. DraftTypeOK'
      BY <2>1, <2>2, <2>6 DEF Crash, DraftInvariant, DraftTypeOK, joinVars, pickVars, loopVars
    <3> QED
      BY <3>1, <3>2 DEF DraftInvariant
  <2> QED
    BY <2>3, <2>4, <2>5, <2>6
<1> QED
  BY <1>1, <1>2

\* The thread's own pick.
LEMMA RandomStep ==
  ASSUME DraftInvariant, PickForTeam
  PROVE  DraftInvariant'
<1>1. PICK p \in available : RecordPick(p)
  BY DEF PickForTeam
<1>2. TurnTaken /\ phase = "expired" /\ phase' = "late"
  BY DEF PickForTeam
<1>3. /\ phase' \in Phases /\ team' \in Teams /\ round' \in 0 .. Rounds
      /\ polls' \in 0 .. Polls - 1 /\ answers' \in 0 .. NTeams /\ prompted' \in BOOLEAN
      /\ DraftShape'
  BY <1>2, TakenStep DEF DraftInvariant
<1>4. /\ available' \in SUBSET Players
      /\ playerIDs' \in [Teams -> [0 .. Rounds - 1 -> IDs \cup {NoPick}]]
      /\ PlayersOut' /\ Left'
  BY <1>1, <1>2, TurnStep DEF DraftInvariant
<1>5. DraftTypeOK'
  BY <1>3, <1>4 DEF PickForTeam, DraftInvariant, DraftTypeOK, joinVars, clientVars, wireVars
<1> QED
  BY <1>3, <1>4, <1>5 DEF DraftInvariant

\* The inductive invariant, for every size, length and bound of a draft.
THEOREM DraftInvariantHolds == Spec => []DraftInvariant
<1>1. Init => DraftInvariant
  BY DraftInitial
<1>2. DraftInvariant /\ [Next]_vars => DraftInvariant'
  <2> SUFFICES ASSUME DraftInvariant, [Next]_vars
               PROVE  DraftInvariant'
    OBVIOUS
  <2>1. CASE UNCHANGED vars
    <3>1. UNCHANGED <<pickVars, loopVars>>
      BY <2>1 DEF vars
    <3>2. DraftShape' /\ PlayersOut' /\ Left'
      BY <3>1, NoTurn
      DEF DraftInvariant, TurnsStay, DraftShape, Picking, HasPick, pickVars, loopVars
    <3>3. DraftTypeOK'
      BY <2>1 DEF vars, DraftInvariant, DraftTypeOK, pickVars, loopVars, joinVars, clientVars, wireVars
    <3> QED
      BY <3>2, <3>3 DEF DraftInvariant
  <2>2. CASE Thread
    BY <2>2, AskingSteps, TellingSteps, ReadSteps, RandomStep DEF Thread
  <2>3. CASE Next /\ ~ Thread
    BY <2>3, UserSteps DEF Next
  <2> QED
    BY <2>1, <2>2, <2>3
<1> QED
  BY <1>1, <1>2, PTL DEF Spec


-----------------------------------------------------------------------------
\* The n-th turn is one of a team and a round, and each of those has its number.
LEMMA TurnNumbers ==
  ASSUME DraftTypeOK, DraftShape
  PROVE  /\ TurnsOver \in Nat
         /\ \A n \in 0 .. TurnsOver - 1 :
              /\ n % NTeams \in Teams /\ n \div NTeams \in RoundNumbers
              /\ TurnIsOver(n % NTeams, n \div NTeams)
              /\ n = (n \div NTeams) * NTeams + (n % NTeams)
         /\ \A t \in Teams, r \in RoundNumbers : TurnIsOver(t, r) =>
              \E n \in 0 .. TurnsOver - 1 : n % NTeams = t /\ n \div NTeams = r
<1>1. CASE ~ Picking
  BY <1>1 DEF TurnsOver, TurnIsOver
<1>2. CASE Picking
  <2> DEFINE last == IF HasPick THEN 1 ELSE 0
  <2>1. /\ team \in Teams /\ round \in 0 .. Rounds /\ Rounds \in Nat
        /\ HasPick => round < Rounds
        /\ TurnsOver = IF round = Rounds THEN Rounds * NTeams ELSE round * NTeams + team + last
    BY <1>2, Sizes DEF DraftTypeOK, DraftShape, TurnsOver, HasPick
  <2>2. CASE NTeams = 1
    <3>1. TurnsOver = round + last /\ Teams = {0} /\ team = 0
      BY <2>1, <2>2 DEF Teams
    <3>2. \A n \in Nat : n % 1 = 0 /\ n \div 1 = n
      OBVIOUS
    <3>3. \A n \in 0 .. TurnsOver - 1 : n \in RoundNumbers /\ TurnIsOver(0, n)
      BY <1>2, <2>1, <3>1 DEF RoundNumbers, TurnIsOver
    <3>4. ASSUME NEW t \in Teams, NEW r \in RoundNumbers, TurnIsOver(t, r)
          PROVE  \E n \in 0 .. TurnsOver - 1 : n % NTeams = t /\ n \div NTeams = r
      <4>1. r \in 0 .. TurnsOver - 1 /\ t = 0
        BY <3>1, <3>4, <2>1 DEF TurnIsOver, RoundNumbers
      <4> QED
        BY <4>1, <3>2, <2>2
    <3>5. TurnsOver \in Nat
      BY <2>1, <3>1
    <3>6. ASSUME NEW n \in 0 .. TurnsOver - 1
          PROVE  /\ n % NTeams \in Teams /\ n \div NTeams \in RoundNumbers
                 /\ TurnIsOver(n % NTeams, n \div NTeams)
                 /\ n = (n \div NTeams) * NTeams + (n % NTeams)
      <4>1. n \in Nat /\ n % NTeams = 0 /\ n \div NTeams = n /\ 0 \in Teams
        BY <2>2, <3>1, <3>2
      <4> QED
        BY <2>2, <3>3, <4>1
    <3> QED
      BY <3>4, <3>5, <3>6
  <2>3. CASE NTeams = 2
    <3>1. /\ TurnsOver = IF round = Rounds THEN 2 * Rounds ELSE 2 * round + team + last
          /\ Teams = {0, 1}
      BY <2>1, <2>3 DEF Teams
    <3>2. ASSUME NEW n \in Nat
          PROVE  n % 2 \in {0, 1} /\ n \div 2 \in Nat /\ n = (n \div 2) * 2 + (n % 2)
      OBVIOUS
    <3>3. ASSUME NEW n \in 0 .. TurnsOver - 1
          PROVE  n \div 2 \in RoundNumbers /\ TurnIsOver(n % 2, n \div 2)
      BY <1>2, <2>1, <3>1, <3>2 DEF RoundNumbers, TurnIsOver
    <3>4. ASSUME NEW t \in Teams, NEW r \in RoundNumbers, TurnIsOver(t, r)
          PROVE  \E n \in 0 .. TurnsOver - 1 : n % NTeams = t /\ n \div NTeams = r
      <4>1. 2 * r + t \in 0 .. TurnsOver - 1 /\ r \in Nat /\ t \in {0, 1}
        BY <3>1, <3>4, <2>1 DEF TurnIsOver, RoundNumbers
      <4>2. (2 * r + t) % 2 = t /\ (2 * r + t) \div 2 = r
        BY <4>1
      <4> QED
        BY <4>1, <4>2, <2>3
    <3>5. TurnsOver \in Nat
      BY <2>1, <3>1
    <3>6. ASSUME NEW n \in 0 .. TurnsOver - 1
          PROVE  /\ n % NTeams \in Teams /\ n \div NTeams \in RoundNumbers
                 /\ TurnIsOver(n % NTeams, n \div NTeams)
                 /\ n = (n \div NTeams) * NTeams + (n % NTeams)
      <4>1. n \in Nat
        BY <3>5
      <4>2. n % 2 \in Teams /\ n = (n \div 2) * 2 + (n % 2)
        BY <4>1, <3>1, <3>2
      <4> QED
        BY <2>3, <3>3, <4>2
    <3> QED
      BY <3>4, <3>5, <3>6
  <2> QED
    BY <2>2, <2>3, Sizes
<1> QED
  BY <1>1, <1>2

\* Every turn that recorded a player has taken one of its own.
LEMMA PicksFollow ==
  ASSUME DraftInvariant
  PROVE  PicksAreGone
<1> USE DEF DraftInvariant
<1>1. Recorded \cap available = {}
  BY TurnNumbers DEF Recorded, Turn, PlayersOut
<1>2. ASSUME NEW m \in 0 .. TurnsOver - 1, NEW n \in 0 .. TurnsOver - 1,
             Turn(m) = Turn(n), Turn(m) \in Players
      PROVE  m = n
  <2>1. m % NTeams = n % NTeams /\ m \div NTeams = n \div NTeams
    BY <1>2, TurnNumbers DEF Turn, PlayersOut
  <2> QED
    BY <2>1, TurnNumbers
<1>3. ASSUME Recorded \subseteq Players
      PROVE  available = Players \ Recorded
  <2>1. NoneWasted
    <3> SUFFICES ASSUME NEW t \in Teams, NEW r \in RoundNumbers, TurnIsOver(t, r)
                 PROVE  playerIDs[t][r] \in Players
      BY DEF NoneWasted
    <3>1. PICK n \in 0 .. TurnsOver - 1 : n % NTeams = t /\ n \div NTeams = r
      BY TurnNumbers
    <3> QED
      BY <1>3, <3>1 DEF Recorded, Turn
  <2>2. ASSUME NEW p \in Players \ available
        PROVE  p \in Recorded
    <3>1. PICK t \in Teams, r \in RoundNumbers : TurnIsOver(t, r) /\ playerIDs[t][r] = p
      BY <2>1 DEF PlayersOut
    <3>2. PICK n \in 0 .. TurnsOver - 1 : n % NTeams = t /\ n \div NTeams = r
      BY <3>1, TurnNumbers
    <3> QED
      BY <3>1, <3>2 DEF Recorded, Turn
  <2> QED
    BY <1>1, <2>2 DEF DraftTypeOK
<1> QED
  BY <1>1, <1>2, <1>3 DEF PicksAreGone

\* A player recorded for a turn is gone and recorded for no other, and as long as
\* every turn recorded one no other player is gone, for any number of rounds and
\* players and whatever is read from the pipes.
THEOREM PicksStayGone == Spec => []PicksAreGone
BY DraftInvariantHolds, PicksFollow, PTL

\* The modulus of the random pick never exceeds the number of players left, nor
\* is it zero with the two players a round it is written for.
EnoughLeft ==
  phase = "expired" => /\ RandomBound <= Cardinality(available)
                       /\ 2 * Rounds <= MAX_PLAYERS => RandomBound >= 1

\* A team whose time is over always has a player to get, for any number of
\* rounds and players.
THEOREM PlayerIsLeft == Spec => []EnoughLeft
<1>1. DraftInvariant => EnoughLeft
  <2> SUFFICES ASSUME DraftInvariant, phase = "expired"
               PROVE  /\ RandomBound <= Cardinality(available)
                      /\ 2 * Rounds <= MAX_PLAYERS => RandomBound >= 1
    BY DEF EnoughLeft
  <2>1. /\ Cardinality(available) >= MAX_PLAYERS - (round * NTeams + team)
        /\ Cardinality(available) \in Nat
        /\ team \in Teams /\ round \in RoundNumbers
    <3>1. IsFiniteSet(available)
      <4>1. IsFiniteSet(0 .. MAX_PLAYERS - 1)
        BY FS_Interval, Sizes
      <4> QED
        BY <4>1, FS_Subset DEF DraftInvariant, DraftTypeOK, Players
    <3>2. team \in Teams /\ round \in RoundNumbers /\ round # Rounds
      BY Sizes DEF DraftInvariant, DraftTypeOK, DraftShape, RoundNumbers
    <3>3. TurnsOver = round * NTeams + team + 0
      BY <3>2 DEF TurnsOver, Picking
    <3> QED
      BY <3>1, <3>2, <3>3, FS_CardinalityType, Sizes
      DEF DraftInvariant, Left, Teams, RoundNumbers
  <2>2. CASE NTeams = 1
    BY <2>1, <2>2, Sizes DEF RandomBound, Teams, RoundNumbers
  <2>3. CASE NTeams = 2
    BY <2>1, <2>3, Sizes DEF RandomBound, Teams, RoundNumbers
  <2> QED
    BY <2>2, <2>3, Sizes
<1> QED
  BY <1>1, DraftInvariantHolds, PTL

-----------------------------------------------------------------------------
(* The random pick counts the players left off, one by one.  That it finds *)
(* the one it was given the number of is an induction over the players, in *)
(* the form of a smallest set for which it fails.                          *)

LEMMA SmallestSet ==
  ASSUME NEW S, IsFiniteSet(S), NEW T, T \subseteq SUBSET S, T # {}
  PROVE  \E x \in T : \A y \in T : y \subseteq x => y = x
<1>1. IsWellFoundedOn(StrictSubsetOrdering(S), FiniteSubsetsOf(S))
  BY FS_StrictSubsetOrderingWellFounded
<1>2. T \subseteq FiniteSubsetsOf(S)
  BY FS_FiniteSubsetsOfFinite
<1>3. PICK x \in T : \A y \in T : ~ (<<y, x>> \in StrictSubsetOrdering(S))
  BY <1>1, <1>2, WFMin
<1>4. \A y \in T : y \subseteq x => y = x
  BY <1>3 DEF StrictSubsetOrdering
<1> QED
  BY <1>4

LEMMA Greatest ==
  ASSUME NEW S, S \subseteq Int, IsFiniteSet(S), S # {}
  PROVE  \E m \in S : \A q \in S : q <= m
<1> DEFINE Above(p) == {q \in S : q > p}
           T == {Above(p) : p \in S}
<1>1. PICK x \in T : \A y \in T : y \subseteq x => y = x
  <2>1. IsFiniteSet(S) /\ T \subseteq SUBSET S /\ T # {}
    OBVIOUS
  <2> HIDE DEF T
  <2> QED
    BY ONLY <2>1, SmallestSet
<1>2. PICK m \in S : x = Above(m)
  BY <1>1
<1>3. ASSUME NEW q \in S, q > m
      PROVE  FALSE
  <2>1. Above(q) \in T
    OBVIOUS
  <2>2. \A y \in S : y > q => y > m
    BY <1>3
  <2>3. Above(q) \subseteq Above(m)
    BY <2>2
  <2>4. q \in Above(m) /\ q \notin Above(q)
    BY <1>3
  <2> HIDE DEF Above
  <2> QED
    BY <1>1, <1>2, <2>1, <2>3, <2>4
<1> QED
  BY <1>3

\* Counted from the least, a finite set of numbers has one at every place.
LEMMA EveryPlaceIsTaken ==
  ASSUME NEW S, S \subseteq Int, IsFiniteSet(S), NEW x \in 0 .. Cardinality(S) - 1
  PROVE  \E p \in S : Cardinality({q \in S : q < p}) = x
<1> DEFINE Found(s, k) == \E p \in s : Cardinality({q \in s : q < p}) = k
           Bad == {s \in SUBSET S : \E k \in 0 .. Cardinality(s) - 1 : ~ Found(s, k)}
<1> SUFFICES ASSUME Bad # {} PROVE FALSE
  OBVIOUS
<1>1. PICK s \in Bad : \A y \in Bad : y \subseteq s => y = s
  <2>1. IsFiniteSet(S) /\ Bad \subseteq SUBSET S /\ Bad # {}
    OBVIOUS
  <2> HIDE DEF Bad
  <2> QED
    BY ONLY <2>1, SmallestSet
<1>2. PICK k \in 0 .. Cardinality(s) - 1 : ~ Found(s, k)
  BY <1>1
<1>3. IsFiniteSet(s) /\ (\A q \in s : q \in Int) /\ Cardinality(s) \in Nat /\ s # {}
  <2>1. IsFiniteSet(S) /\ s \subseteq S /\ \A q \in s : q \in Int
    OBVIOUS
  <2>2. IsFiniteSet(s) /\ Cardinality(s) \in Nat
    BY ONLY <2>1, FS_Subset, FS_CardinalityType
  <2>3. s # {}
    <3> SUFFICES ASSUME s = {} PROVE FALSE
      OBVIOUS
    <3>1. Cardinality(s) = 0
      BY FS_EmptySet
    <3>2. k \in 0 .. Cardinality(s) - 1
      BY <1>2
    <3> QED
      BY ONLY <3>1, <3>2
  <2> QED
    BY <2>1, <2>2, <2>3
<1>4. PICK m \in s : \A q \in s : q <= m
  BY <1>3, Greatest
<1> DEFINE r == s \ {m}
<1>5. /\ r = {q \in s : q < m} /\ r \in SUBSET S /\ r \subseteq s /\ r # s
      /\ Cardinality(r) = Cardinality(s) - 1
  <2>1. r = {q \in s : q < m}
    <3>1. \A q \in s : (q \in r) = (q < m)
      BY <1>3, <1>4
    <3> QED
      BY <3>1
  <2>3. r \in SUBSET S /\ r \subseteq s /\ r # s
    BY <1>4
  <2>2. Cardinality(r) = Cardinality(s) - 1
    BY <1>3, <1>4, FS_RemoveElement
  <2> QED
    BY <2>1, <2>2, <2>3
<1>6. CASE k = Cardinality(s) - 1
  BY <1>2, <1>5, <1>6
<1>7. CASE k # Cardinality(s) - 1
  <2>1. k \in 0 .. Cardinality(r) - 1
    <3> HIDE DEF r
    <3> QED
      BY <1>2, <1>3, <1>5, <1>7
  <2>4. r \notin Bad
    BY <1>1, <1>5
  <2>2. Found(r, k)
    <3> HIDE DEF Found
    <3> QED
      BY <1>5, <2>1, <2>4
  <2>3. PICK p \in r : Cardinality({q \in r : q < p}) = k
    BY <2>2
  <2>5. {q \in r : q < p} = {q \in s : q < p} /\ p \in s
    BY <1>3, <1>5
  <2> QED
    BY <1>2, <2>3, <2>5
<1> QED
  BY <1>6, <1>7

\* Whatever rand() gives below its modulus, counting the players left that far
\* comes to one of them, for any number of rounds and players.
THEOREM RandomPickSucceeds == Spec => []RandomPickExists
<1>1. DraftInvariant /\ EnoughLeft => RandomPickExists
  <2> SUFFICES ASSUME DraftInvariant, EnoughLeft, phase = "expired",
                      NEW x \in 0 .. RandomBound - 1
               PROVE  \E p \in available : Rank(p) = x
    BY DEF RandomPickExists
  <2>1. available \subseteq Int /\ IsFiniteSet(available) /\ Cardinality(available) \in Nat
    <3>1. IsFiniteSet(Players) /\ Players \subseteq Int
      BY Sizes, FS_Interval DEF Players
    <3>2. available \subseteq Players
      BY DEF DraftInvariant, DraftTypeOK
    <3> QED
      BY <3>1, <3>2, FS_Subset, FS_CardinalityType
  <2>2. RandomBound \in Int
    BY Sizes DEF RandomBound, DraftInvariant, DraftTypeOK, Teams
  <2>3. x \in 0 .. Cardinality(available) - 1
    BY <2>1, <2>2 DEF EnoughLeft
  <2> QED
    BY <2>1, <2>3, EveryPlaceIsTaken DEF Rank
<1> QED
  BY <1>1, DraftInvariantHolds, PlayerIsLeft, PTL

-----------------------------------------------------------------------------
\* What the board shows of a recorded ID.
Shown(p) == IF p \in Players THEN p ELSE NoPick

BoardNow == [n \in 1 .. TurnsOver |->
               IF Turn(n - 1) \in Players THEN Turn(n - 1) ELSE NoPick]

Cells == Players \cup {NoPick}

\* The board is a sequence of players and of turns that took nobody.
LEMMA BoardIsSeq ==
  DraftInvariant => /\ BoardNow \in Seq(Cells) /\ Len(BoardNow) = TurnsOver
                    /\ \A i \in 1 .. TurnsOver : BoardNow[i] = Shown(Turn(i - 1))
<1> SUFFICES ASSUME DraftInvariant
             PROVE  /\ BoardNow \in Seq(Cells) /\ Len(BoardNow) = TurnsOver
                    /\ \A i \in 1 .. TurnsOver : BoardNow[i] = Shown(Turn(i - 1))
  OBVIOUS
<1>1. TurnsOver \in Nat
  BY TurnNumbers DEF DraftInvariant
<1>2. BoardNow \in [1 .. TurnsOver -> Cells]
  BY DEF BoardNow, Cells
<1>3. \A i \in 1 .. TurnsOver : BoardNow[i] = Shown(Turn(i - 1))
  BY DEF BoardNow, Shown
<1> QED
  BY <1>1, <1>2, <1>3, SeqDef, LenProperties

\* The n-th turn as the board shows it after a step.
NextShown(n) == Shown(playerIDs'[n % NTeams][n \div NTeams])

\* A turn that leaves the cells before its own as another board has them appends
\* its own to that.
LEMMA BoardGrows ==
  ASSUME DraftInvariant, DraftInvariant',
         NEW m \in Nat, TurnsOver = m, TurnsOver' = m + 1,
         NEW before \in Seq(Cells), Len(before) = m, NEW c \in Cells,
         NextShown(m) = c,
         \A n \in 0 .. m - 1 : NextShown(n) = before[n + 1]
  PROVE  BoardNow' = Append(before, c)
<1>1. /\ BoardNow' \in Seq(Cells) /\ Len(BoardNow') = m + 1
      /\ \A i \in 1 .. m + 1 : BoardNow'[i] = NextShown(i - 1)
  <2>1. (/\ BoardNow \in Seq(Cells) /\ Len(BoardNow) = TurnsOver
         /\ \A i \in 1 .. TurnsOver : BoardNow[i] = Shown(Turn(i - 1)))'
    BY BoardIsSeq, PTL
  <2> QED
    BY <2>1 DEF Cells, Shown, NextShown, Turn
<1>2. Append(before, c) \in Seq(Cells) /\ Len(Append(before, c)) = m + 1
  BY AppendProperties
<1>3. ASSUME NEW i \in 1 .. m + 1
      PROVE  BoardNow'[i] = Append(before, c)[i]
  <2>1. CASE i = m + 1
    <3>1. Append(before, c)[i] = c
      BY <2>1, AppendProperties
    <3>2. i - 1 = m
      BY <2>1
    <3>3. BoardNow'[i] = NextShown(m)
      BY <1>1, <3>2
    <3> QED
      BY <3>1, <3>3
  <2>2. CASE i \in 1 .. m
    <3>1. Append(before, c)[i] = before[i]
      BY <2>2, AppendProperties
    <3>2. i - 1 \in 0 .. m - 1 /\ (i - 1) + 1 = i
      BY <2>2
    <3>3. NextShown(i - 1) = before[i]
      BY <3>2
    <3> QED
      BY <1>1, <3>1, <3>3
  <2> QED
    BY <2>1, <2>2
<1> QED
  BY <1>1, <1>2, <1>3, SeqEqual

\* A turn that takes a free player writes him on the board.
LEMMA TurnIsTake ==
  ASSUME DraftInvariant, DraftInvariant', phase \in {"reading", "expired"},
         NEW p \in available, RecordPick(p), TurnTaken, phase' \in {"late", "updating"}
  PROVE  B!Take(p)
<1>1. /\ TurnsOver' = TurnsOver + 1 /\ TurnsOver \in Nat /\ TurnsOver < NTeams * Rounds
      /\ TurnsOver % NTeams = team /\ TurnsOver \div NTeams = round
      /\ team \in Teams /\ round \in RoundNumbers /\ ~ TurnIsOver(team, round)
  BY TakenStep DEF DraftInvariant
<1>2. /\ p \in Players /\ p \in Cells
      /\ playerIDs \in [Teams -> [RoundNumbers -> IDs \cup {NoPick}]]
  BY DEF DraftInvariant, DraftTypeOK, RoundNumbers, Cells
<1>3. PICK m \in Nat : m = TurnsOver
  BY <1>1
<1>4. BoardNow \in Seq(Cells) /\ Len(BoardNow) = m
      /\ \A i \in 1 .. m : BoardNow[i] = Shown(Turn(i - 1))
  BY <1>3, BoardIsSeq
<1>5. NextShown(m) = p
  <2>1. playerIDs'[m % NTeams][m \div NTeams] = p
    BY <1>1, <1>2, <1>3 DEF RecordPick
  <2> QED
    BY <2>1, <1>2 DEF NextShown, Shown
<1>6. ASSUME NEW n \in 0 .. m - 1
      PROVE  NextShown(n) = BoardNow[n + 1]
  <2>1. /\ n % NTeams \in Teams /\ n \div NTeams \in RoundNumbers
        /\ TurnIsOver(n % NTeams, n \div NTeams)
    BY <1>3, TurnNumbers DEF DraftInvariant
  <2>2. n % NTeams # team \/ n \div NTeams # round
    BY <2>1, <1>1
  <2>3. playerIDs'[n % NTeams][n \div NTeams] = Turn(n)
    BY <2>1, <2>2, <1>1, <1>2 DEF RecordPick, Turn
  <2>4. BoardNow[n + 1] = Shown(Turn(n))
    <3>1. n + 1 \in 1 .. m /\ (n + 1) - 1 = n
      OBVIOUS
    <3> QED
      BY <3>1, <1>4
  <2> QED
    BY <2>3, <2>4 DEF NextShown
<1>7. BoardNow' = Append(BoardNow, p)
  BY <1>1, <1>2, <1>3, <1>4, <1>5, <1>6, BoardGrows
<1>8. ASSUME NEW i \in 1 .. m
      PROVE  BoardNow[i] # p
  <2>1. BoardNow[i] = Shown(Turn(i - 1)) /\ i - 1 \in 0 .. m - 1
    BY <1>4
  <2>2. Turn(i - 1) \notin available
    BY <2>1, <1>3, PicksFollow DEF PicksAreGone, Recorded
  <2> QED
    BY <2>1, <2>2, <1>2, IDsApart DEF Shown
<1>9. (phase = "done")' = (phase = "done")
  OBVIOUS
<1> QED
  BY <1>1, <1>3, <1>4, <1>7, <1>8, <1>9 DEF B!Take, B!TurnsLeft, BoardNow

\* A turn that records an ID outside the array takes nobody, and at most one
\* earlier turn loses its player.
LEMMA TurnIsWaste ==
  ASSUME DraftInvariant, DraftInvariant', phase = "reading",
         RecordOutside, TurnTaken, phase' = "updating"
  PROVE  B!Waste
<1>1. /\ TurnsOver' = TurnsOver + 1 /\ TurnsOver \in Nat /\ TurnsOver < NTeams * Rounds
      /\ TurnsOver % NTeams = team /\ TurnsOver \div NTeams = round
      /\ team \in Teams /\ round \in RoundNumbers /\ ~ TurnIsOver(team, round)
  BY TakenStep DEF DraftInvariant
<1>2. /\ playerIDs \in [Teams -> [RoundNumbers -> IDs \cup {NoPick}]]
      /\ NoPick \in Cells /\ Shown(Outside) = NoPick /\ Shown(NoPick) = NoPick
  BY IDsApart DEF DraftInvariant, DraftTypeOK, RoundNumbers, Cells, Shown
<1>3. PICK m \in Nat : m = TurnsOver
  BY <1>1
<1>4. /\ BoardNow \in Seq(Cells) /\ Len(BoardNow) = m
      /\ \A i \in 1 .. m : BoardNow[i] = Shown(Turn(i - 1))
  BY <1>3, BoardIsSeq
<1>5. ASSUME NEW n \in 0 .. m - 1
      PROVE  /\ n % NTeams \in Teams /\ n \div NTeams \in RoundNumbers
             /\ n % NTeams # team \/ n \div NTeams # round
             /\ n = (n \div NTeams) * NTeams + (n % NTeams)
             /\ BoardNow[n + 1] = Shown(playerIDs[n % NTeams][n \div NTeams])
  <2>1. /\ n % NTeams \in Teams /\ n \div NTeams \in RoundNumbers
        /\ TurnIsOver(n % NTeams, n \div NTeams)
        /\ n = (n \div NTeams) * NTeams + (n % NTeams)
    BY <1>3, TurnNumbers DEF DraftInvariant
  <2>2. n % NTeams # team \/ n \div NTeams # round
    BY <2>1, <1>1
  <2>3. n + 1 \in 1 .. m /\ (n + 1) - 1 = n
    OBVIOUS
  <2> QED
    BY <2>1, <2>2, <2>3, <1>4 DEF Turn
<1>6. (phase = "done")' = (phase = "done")
  OBVIOUS
<1>7. CASE playerIDs' = [playerIDs EXCEPT ![team][round] = Outside]
  <2>1. NextShown(m) = NoPick
    BY <1>1, <1>2, <1>3, <1>7 DEF NextShown
  <2>2. \A n \in 0 .. m - 1 : NextShown(n) = BoardNow[n + 1]
    BY <1>1, <1>2, <1>5, <1>7 DEF NextShown
  <2>3. BoardNow' = Append(BoardNow, NoPick)
    BY <1>1, <1>2, <1>3, <1>4, <2>1, <2>2, BoardGrows
  <2> QED
    BY <1>1, <1>3, <1>4, <1>6, <2>3 DEF B!Waste, B!TurnsLeft, BoardNow
<1>8. CASE \E t \in Teams, r \in RoundNumbers :
             playerIDs' = [playerIDs EXCEPT ![team][round] = Outside, ![t][r] = NoPick]
  <2>1. PICK t \in Teams, r \in RoundNumbers :
          playerIDs' = [playerIDs EXCEPT ![team][round] = Outside, ![t][r] = NoPick]
    BY <1>8
  <2> DEFINE first == [playerIDs EXCEPT ![team][round] = Outside]
  <2>2. /\ first \in [Teams -> [RoundNumbers -> IDs \cup {NoPick}]]
        /\ \A u \in Teams, s \in RoundNumbers :
             first[u][s] = IF u = team /\ s = round THEN Outside ELSE playerIDs[u][s]
    BY <1>1, <1>2, IDsApart
  <2>3. playerIDs' = [first EXCEPT ![t][r] = NoPick]
    BY <2>1
  <2> HIDE DEF first
  <2>4. \A u \in Teams, s \in RoundNumbers :
          playerIDs'[u][s] = IF u = t /\ s = r THEN NoPick ELSE first[u][s]
    BY <2>2, <2>3
  <2>5. NextShown(m) = NoPick
    BY <1>1, <1>2, <1>3, <2>2, <2>4 DEF NextShown
  <2>6. CASE \E n \in 0 .. m - 1 : n % NTeams = t /\ n \div NTeams = r
    <3>1. PICK k \in 0 .. m - 1 : k % NTeams = t /\ k \div NTeams = r
      BY <2>6
    <3> DEFINE before == [BoardNow EXCEPT ![k + 1] = NoPick]
    <3>2. /\ before \in Seq(Cells) /\ Len(before) = m
          /\ \A i \in 1 .. m : before[i] = IF i = k + 1 THEN NoPick ELSE BoardNow[i]
      <4>1. BoardNow \in [1 .. m -> Cells] /\ k + 1 \in 1 .. m
        BY <1>4, LenProperties
      <4>2. before \in [1 .. m -> Cells]
        BY <4>1, <1>2
      <4>3. before \in Seq(Cells)
        BY <4>2, SeqDef
      <4>4. Len(before) = m
        BY <4>2, <4>3, LenProperties
      <4>5. \A i \in 1 .. m : before[i] = IF i = k + 1 THEN NoPick ELSE BoardNow[i]
        BY <4>1
      <4> QED
        BY <4>3, <4>4, <4>5
    <3> HIDE DEF before
    <3>3. ASSUME NEW n \in 0 .. m - 1
          PROVE  NextShown(n) = before[n + 1]
      <4>1. n + 1 \in 1 .. m /\ (n + 1 = k + 1 <=> n = k)
        OBVIOUS
      <4>2. CASE n = k
        BY <4>1, <4>2, <3>1, <3>2, <2>4, <1>2 DEF NextShown
      <4>3. CASE n # k
        <5>1. n % NTeams # t \/ n \div NTeams # r
          BY <4>3, <3>1, <1>5
        <5>2. playerIDs'[n % NTeams][n \div NTeams] = playerIDs[n % NTeams][n \div NTeams]
          BY <5>1, <1>5, <2>2, <2>4
        <5> QED
          BY <5>2, <4>1, <4>3, <3>2, <1>5 DEF NextShown
      <4> QED
        BY <4>2, <4>3
    <3>4. BoardNow' = Append(before, NoPick)
      BY <1>1, <1>2, <1>3, <3>2, <3>3, <2>5, BoardGrows
    <3>5. k + 1 \in 1 .. Len(BoardNow) /\ BoardNow' = Append([BoardNow EXCEPT ![k + 1] = NoPick], NoPick)
      BY <1>4, <3>4 DEF before
    <3> QED
      BY <1>1, <1>3, <1>4, <1>6, <3>5 DEF B!Waste, B!TurnsLeft, BoardNow
  <2>7. CASE ~ \E n \in 0 .. m - 1 : n % NTeams = t /\ n \div NTeams = r
    <3>1. \A n \in 0 .. m - 1 : NextShown(n) = BoardNow[n + 1]
      BY <2>7, <2>2, <2>4, <1>5 DEF NextShown
    <3>2. BoardNow' = Append(BoardNow, NoPick)
      BY <1>1, <1>2, <1>3, <1>4, <2>5, <3>1, BoardGrows
    <3> QED
      BY <1>1, <1>3, <1>4, <1>6, <3>2 DEF B!Waste, B!TurnsLeft, BoardNow
  <2> QED
    BY <2>6, <2>7
<1> QED
  BY <1>7, <1>8 DEF RecordOutside, RoundNumbers

\* The board stays as it is when no turn gets its pick.
LEMMA BoardStays ==
  ASSUME DraftInvariant, UNCHANGED playerIDs, TurnsStay
  PROVE  BoardNow' = BoardNow
<1>1. TurnsOver' = TurnsOver
  BY NoTurn DEF DraftInvariant
<1>2. ASSUME NEW n \in 1 .. TurnsOver
      PROVE  Turn(n - 1)' = Turn(n - 1)
  BY DEF Turn
<1> QED
  BY <1>1, <1>2 DEF BoardNow

\* The draft is a sequence of turns that each take one free player or waste the
\* turn, and ends when every team has had all its turns, for any number of rounds
\* and players.
THEOREM DraftImplementsBoard == Spec => DraftFollowsBoard
<1> DEFINE done == phase = "done"
<1>1. Init => B!BoardInit
  <2> SUFFICES ASSUME Init
               PROVE  B!BoardInit
    OBVIOUS
  <2>1. TurnsOver = 0
    BY DEF Init, TurnsOver, Picking
  <2>2. BoardNow \in Seq(Cells) /\ Len(BoardNow) = 0
    BY <2>1, DraftInitial, BoardIsSeq
  <2>3. BoardNow = << >>
    BY <2>2, EmptySeq
  <2> QED
    BY <2>3 DEF B!BoardInit, BoardNow, Init
<1>2. ASSUME DraftInvariant, DraftInvariant', [Next]_vars
      PROVE  [B!BoardNext]_<<BoardNow, done>>
  <2>1. CASE \E p \in available : B!Take(p)
    BY <1>2, <2>1 DEF DraftInvariant, DraftTypeOK, B!BoardNext
  <2>2. CASE B!Waste
    BY <2>2 DEF B!BoardNext
  <2>3. CASE UNCHANGED playerIDs /\ TurnsStay /\ done' = done
    BY <1>2, <2>3, BoardStays
  <2>4. CASE EndDraft
    <3>1. TurnsStay /\ UNCHANGED playerIDs
      BY <2>4 DEF EndDraft, TurnsStay, pickVars
    <3>2. BoardNow' = BoardNow
      BY <1>2, <3>1, BoardStays
    <3>3. CASE phase' = "ending"
      BY <2>4, <3>2, <3>3 DEF EndDraft
    <3>4. CASE phase' = "done"
      <4>1. Len(BoardNow) = TurnsOver /\ round = Rounds /\ Picking
        BY <1>2, <2>4, BoardIsSeq DEF EndDraft, DraftInvariant, DraftShape, Picking
      <4>2. ~ (Len(BoardNow) < NTeams * Rounds)
        <5>1. CASE NTeams = 1
          BY <4>1, <5>1, Sizes DEF TurnsOver
        <5>2. CASE NTeams = 2
          BY <4>1, <5>2, Sizes DEF TurnsOver
        <5> QED
          BY <5>1, <5>2, Sizes
      <4> QED
        BY <3>2, <3>4, <4>2 DEF B!BoardNext, B!EndDraft, B!TurnsLeft, BoardNow
    <3> QED
      BY <2>4, <3>3, <3>4 DEF EndDraft
  <2>5. CASE UNCHANGED <<pickVars, loopVars>>
    BY <2>3, <2>5 DEF TurnsStay, pickVars, loopVars, Picking, HasPick
  <2>6. CASE UNCHANGED vars
    BY <2>5, <2>6 DEF vars
  <2>7. ASSUME NEW t \in Teams,
               \/ JoinDraft(t) \/ QuitDraft(t) \/ AnswerAlive(t) \/ StopReading(t)
               \/ \E p \in IDs : ChoosePlayer(t, p)
        PROVE  UNCHANGED <<pickVars, loopVars>>
    BY <2>7 DEF JoinDraft, QuitDraft, AnswerAlive, StopReading, ChoosePlayer
  <2>8. CASE Start \/ AskAlive \/ Prompt \/ ReadNothing
    BY <2>3, <2>8
    DEF Start, AskAlive, Prompt, ReadNothing, NextPoll, pickVars, TurnsStay, Picking, HasPick
  <2>9. CASE SkipTeam \/ Listen
    <3>1. phase \in {"asking", "listening"} /\ UNCHANGED pickVars
      BY <2>9 DEF SkipTeam, Listen
    <3>2. /\ phase' \in {"asking", "listening", "prompting"} /\ UNCHANGED round
          /\ phase' = "prompting" => team' = 0
      BY <2>9 DEF SkipTeam, Listen, AskNext
    <3>3. ~ Picking /\ round = 0
      BY <1>2, <3>1 DEF DraftInvariant, DraftShape, Picking
    <3> QED
      BY <2>3, <3>1, <3>2, <3>3 DEF Picking, HasPick, TurnsStay, pickVars
  <2>10. CASE ReadPick
    <3>1. \/ \E p \in available : RecordPick(p) /\ Accept
          \/ RecordOutside /\ Accept
          \/ Refuse
          \/ Crash
      BY <2>10 DEF ReadPick
    <3>2. phase = "reading" /\ (Accept => TurnTaken /\ phase' = "updating")
      BY <2>10 DEF ReadPick, Accept
    <3>3. CASE \E p \in available : RecordPick(p) /\ Accept
      BY <1>2, <2>1, <3>2, <3>3, TurnIsTake
    <3>4. CASE RecordOutside /\ Accept
      BY <1>2, <2>2, <3>2, <3>4, TurnIsWaste
    <3>5. CASE Refuse
      BY <2>3, <3>2, <3>5 DEF Refuse, NextPoll, pickVars, TurnsStay, Picking, HasPick
    <3>6. CASE Crash
      BY <2>5, <3>6 DEF Crash
    <3> QED
      BY <3>1, <3>3, <3>4, <3>5, <3>6
  <2>11. CASE PickForTeam
    <3>1. /\ phase = "expired" /\ TurnTaken /\ phase' = "late"
          /\ \E p \in available : RecordPick(p)
      BY <2>11 DEF PickForTeam
    <3> QED
      BY <1>2, <2>1, <3>1, TurnIsTake
  <2>12. CASE TellTeam \/ TellOther \/ HandOver
    BY <2>3, <2>12
    DEF TellTeam, TellOther, HandOver, NextTurn, TurnsStay, Picking, HasPick, pickVars
  <2> QED
    BY <1>2, <2>4, <2>5, <2>6, <2>7, <2>8, <2>9, <2>10, <2>11, <2>12 DEF Next, Thread
<1>3. Spec => []DraftInvariant
  BY DraftInvariantHolds
<1>4. B!BoardSpec <=> B!BoardInit /\ [][B!BoardNext]_<<BoardNow, done>>
  BY DEF B!BoardSpec, BoardNow
<1> QED
  BY <1>1, <1>2, <1>3, <1>4, PTL DEF Spec, DraftFollowsBoard
=============================================================================

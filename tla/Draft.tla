-------------------------------- MODULE Draft ------------------------------
(***************************************************************************)
(* One draft (draft() in servstub.c): its thread asks the teams of a full  *)
(* league whether they are there, lets them pick in turns, and picks for   *)
(* a team that lets its time pass.  The servers of the clients put what    *)
(* the clients answer into pipes, one message a read.                      *)
(*                                                                         *)
(* A message is the number the thread reads from it: the second string of  *)
(* the buffer it comes in.  An answer to IS_ALIVE has none of its own and  *)
(* carries the one left there by the request before.  The user may type    *)
(* any number; all those that are no player's ID are one, Outside.         *)
(*                                                                         *)
(* What is sent to a client waits in sendPacket until the client has read  *)
(* what came before (shmem.c).  A client reads at once, so that the wait   *)
(* is part of the send, until it stops reading: it was killed, or lost a   *)
(* permit of its semaphores.  Such a client has room for one message or    *)
(* none, and a send that finds none never returns.                         *)
(*                                                                         *)
(* Time is the count of polls; the thread's sleeps let the clients act     *)
(* between any two of its steps.  A client is external: it answers, when   *)
(* it likes, the prompts it was sent.  The model ends with the draft.      *)
(***************************************************************************)
EXTENDS Integers, Sequences, FiniteSets

CONSTANTS
  NTeams,       \* league->maxSize
  MAX_PLAYERS,  \* 5 in the code
  Rounds,       \* 2 in the code
  Polls,        \* 10 in the code
  MaxJoins,     \* bound: joins, of all teams together
  MaxPrompts,   \* bound: prompts a client keeps while it does not answer
  Silent        \* bound: the teams whose client may stop reading

\* The random pick (servstub.c:445) counts on two teams at most.
ASSUME DraftAssumption ==
  /\ NTeams \in 1 .. 2
  /\ Rounds \in Nat \ {0} /\ Polls \in Nat \ {0}
  /\ MAX_PLAYERS \in Nat /\ NTeams * Rounds <= MAX_PLAYERS
  /\ MaxJoins \in Nat \ {0} /\ MaxPrompts \in Nat \ {0}

Teams   == 0 .. (NTeams - 1)
Players == 0 .. (MAX_PLAYERS - 1)
NoPick  == -1
Outside == MAX_PLAYERS
IDs     == Players \cup {Outside}

VARIABLES
  cant,       \* joins so far (Draft.cant)
  joins,      \* team -> how often it joined; it has a pipe once it did
  channel,    \* team -> its channel is not NULL
  pipe,       \* team -> messages not read yet
  blocking,   \* team -> its pipe has not been made O_NONBLOCK
  second,     \* team -> the second string in its server's buffer
  inbox,      \* team -> its client reads, or has "room" for a message or is "full"
  owed,       \* team -> IS_ALIVE prompts its client has not answered
  asked,      \* team -> CHOOSE_PLAYER prompts its client has not answered
  phase,      \* where the thread is
  team,       \* the team it is at: i in the first loop, j in the second
  round,      \* i in the second loop
  polls,      \* k
  answers,    \* answers in this pass of the first loop
  prompted,   \* flag1: the team has been sent the players in this turn
  available,  \* playersAux
  playerIDs,  \* team -> round -> the ID recorded
  waiting,    \* who waits for ever, with draftMutex, in a send
  up          \* FALSE once the server process has crashed

joinVars   == <<cant, joins>>
clientVars == <<inbox, owed, asked>>
wireVars   == <<channel, pipe, blocking, second>>
pickVars   == <<available, playerIDs>>
loopVars   == <<phase, team, round, polls, answers, prompted>>
vars == <<joinVars, clientVars, wireVars, pickVars, loopVars, waiting, up>>

\* In "reading" the thread is inside a poll and holds draftMutex.
Phases == {"gathering", "asking", "listening",
           "prompting", "reading", "expired", "late", "updating",
           "picked", "ending", "done"}

DraftTypeOK ==
  /\ cant \in 0 .. MaxJoins
  /\ joins \in [Teams -> Nat]
  /\ channel \in [Teams -> BOOLEAN]
  /\ pipe \in [Teams -> Seq(IDs)]
  /\ blocking \in [Teams -> BOOLEAN]
  /\ second \in [Teams -> IDs]
  /\ inbox \in [Teams -> {"read", "room", "full"}]
  /\ owed \in [Teams -> 0 .. MaxPrompts]
  /\ asked \in [Teams -> 0 .. MaxPrompts]
  /\ phase \in Phases
  /\ team \in Teams
  /\ round \in 0 .. Rounds
  /\ polls \in 0 .. Polls - 1
  /\ answers \in 0 .. NTeams
  /\ prompted \in BOOLEAN
  /\ available \in SUBSET Players
  /\ playerIDs \in [Teams -> [0 .. Rounds - 1 -> IDs \cup {NoPick}]]
  /\ waiting \in {"nobody", "thread", "server"}
  /\ up \in BOOLEAN

Init ==
  /\ cant = 0
  /\ joins = [t \in Teams |-> 0]
  /\ channel = [t \in Teams |-> FALSE]
  /\ pipe = [t \in Teams |-> << >>]
  /\ blocking = [t \in Teams |-> FALSE]
  /\ second = [t \in Teams |-> 0]
  /\ inbox = [t \in Teams |-> "read"]
  /\ owed = [t \in Teams |-> 0]
  /\ asked = [t \in Teams |-> 0]
  /\ phase = "gathering"
  /\ team = 0 /\ round = 0 /\ polls = 0 /\ answers = 0
  /\ prompted = FALSE
  /\ available = Players
  /\ playerIDs = [t \in Teams |-> [r \in 0 .. Rounds - 1 |-> NoPick]]
  /\ waiting = "nobody"
  /\ up = TRUE

-----------------------------------------------------------------------------
(* The clients and their servers.                                          *)

\* The draft is there, and so are the structures its messages go to.
Open == up /\ phase # "done"

\* JOIN_DRAFT: a new pipe, blocking until the first loop gets to it, and the
\* answer "0" in the server's buffer.  From the shell, so not while in it.
JoinDraft(t) ==
  /\ Open
  /\ ~ channel[t] /\ inbox[t] = "read"
  /\ cant < MaxJoins
  /\ joins' = [joins EXCEPT ![t] = @ + 1]
  /\ cant' = cant + 1
  /\ channel' = [channel EXCEPT ![t] = TRUE]
  /\ pipe' = [pipe EXCEPT ![t] = << >>]
  /\ blocking' = [blocking EXCEPT ![t] = TRUE]
  /\ second' = [second EXCEPT ![t] = 0]
  /\ UNCHANGED <<clientVars, pickVars, loopVars, waiting, up>>

\* The inbox of a client after one more message.
Filled(t) == IF inbox[t] = "room" THEN "full" ELSE inbox[t]

\* QUIT_DRAFT: the user is back in the shell, whatever he was asked.  His
\* server answers before it takes the channel away, both with draftMutex.
QuitDraft(t) ==
  /\ Open
  /\ channel[t]
  /\ phase # "reading" /\ waiting = "nobody"
  /\ \/ inbox[t] # "full" /\ channel' = [channel EXCEPT ![t] = FALSE] /\ UNCHANGED waiting
     \/ inbox[t] = "full" /\ waiting' = "server" /\ UNCHANGED channel
  /\ inbox' = [inbox EXCEPT ![t] = Filled(t)]
  /\ owed' = [owed EXCEPT ![t] = 0]
  /\ asked' = [asked EXCEPT ![t] = 0]
  /\ UNCHANGED <<joinVars, pipe, blocking, second, pickVars, loopVars, up>>

AnswerAlive(t) ==
  /\ Open
  /\ owed[t] > 0
  /\ owed' = [owed EXCEPT ![t] = @ - 1]
  /\ pipe' = [pipe EXCEPT ![t] = Append(@, second[t])]
  /\ UNCHANGED <<joinVars, inbox, asked, channel, blocking, second,
                 pickVars, loopVars, waiting, up>>

ChoosePlayer(t, p) ==
  /\ Open
  /\ asked[t] > 0
  /\ asked' = [asked EXCEPT ![t] = @ - 1]
  /\ second' = [second EXCEPT ![t] = p]
  /\ pipe' = [pipe EXCEPT ![t] = Append(@, p)]
  /\ UNCHANGED <<joinVars, inbox, owed, channel, blocking,
                 pickVars, loopVars, waiting, up>>

\* The client of a team that joined reads no more; the last message sent to it
\* may be there unread.
StopReading(t) ==
  /\ Open
  /\ t \in Silent
  /\ channel[t] /\ inbox[t] = "read"
  /\ \E left \in {"room", "full"} : inbox' = [inbox EXCEPT ![t] = left]
  /\ UNCHANGED <<joinVars, owed, asked, wireVars, pickVars, loopVars, waiting, up>>

-----------------------------------------------------------------------------
(* The thread: who is there?                                               *)

\* The thread is not in a send that never returns, and may take draftMutex.
Running == up /\ waiting # "thread"
Locking == up /\ waiting = "nobody"

\* What the thread sends to a team with a channel.
Send(t) ==
  /\ inbox' = [inbox EXCEPT ![t] = IF channel[t] THEN Filled(t) ELSE @]
  /\ waiting' = IF channel[t] /\ inbox[t] = "full" THEN "thread" ELSE waiting

Start ==
  /\ Running
  /\ phase = "gathering"
  /\ cant >= NTeams
  /\ phase' = "asking"
  /\ UNCHANGED <<joinVars, clientVars, wireVars, pickVars,
                 team, round, polls, answers, prompted, waiting, up>>

\* The client hears the prompt, and keeps fewer than the bound.
CanBeAsked(t) == channel[t] /\ inbox[t] = "read" /\ owed[t] + asked[t] < MaxPrompts

\* On to the next team, the next pass, or the picks.
AskNext(n) ==
  /\ polls' = 0
  /\ \/ /\ team < NTeams - 1
        /\ team' = team + 1 /\ answers' = n /\ phase' = "asking"
     \/ /\ team = NTeams - 1 /\ n < NTeams
        /\ team' = 0 /\ answers' = 0 /\ phase' = "asking"
     \/ /\ team = NTeams - 1 /\ n = NTeams
        /\ team' = 0 /\ answers' = 0 /\ phase' = "prompting"
  /\ UNCHANGED <<round, prompted>>

\* IS_ALIVE to a team that has a pipe and a channel.
AskAlive ==
  /\ Locking
  /\ phase = "asking"
  /\ joins[team] > 0
  /\ blocking' = [blocking EXCEPT ![team] = FALSE]
  /\ owed' = [owed EXCEPT ![team] = IF CanBeAsked(team) THEN @ + 1 ELSE @]
  /\ Send(team)
  /\ phase' = "listening"
  /\ UNCHANGED <<joinVars, asked, channel, pipe, second, pickVars,
                 team, round, polls, answers, prompted, up>>

SkipTeam ==
  /\ Running
  /\ phase = "asking"
  /\ joins[team] = 0
  /\ AskNext(answers)
  /\ UNCHANGED <<joinVars, clientVars, wireVars, pickVars, waiting, up>>

\* One read: any message will do; an empty pipe that blocks is waited for.
Listen ==
  /\ Running
  /\ phase = "listening"
  /\ \/ /\ pipe[team] # << >>
        /\ pipe' = [pipe EXCEPT ![team] = Tail(@)]
        /\ AskNext(answers + 1)
     \/ /\ pipe[team] = << >> /\ ~ blocking[team]
        /\ polls < Polls - 1
        /\ polls' = polls + 1
        /\ UNCHANGED <<pipe, phase, team, round, answers, prompted>>
     \/ /\ pipe[team] = << >> /\ ~ blocking[team]
        /\ polls = Polls - 1
        /\ AskNext(answers)
        /\ UNCHANGED pipe
  /\ UNCHANGED <<joinVars, clientVars, channel, blocking, second, pickVars, waiting, up>>

-----------------------------------------------------------------------------
(* The thread: the picks.                                                  *)

\* On to the next turn, and with the last turn out of the picks.
NextTurn ==
  /\ \/ /\ team < NTeams - 1
        /\ team' = team + 1 /\ UNCHANGED round /\ phase' = "prompting"
     \/ /\ team = NTeams - 1
        /\ team' = 0 /\ round' = round + 1
        /\ phase' = IF round + 1 < Rounds THEN "prompting" ELSE "picked"
  /\ UNCHANGED <<polls, answers, prompted>>

NextPoll ==
  /\ \/ polls < Polls - 1 /\ polls' = polls + 1 /\ phase' = "prompting"
     \/ polls = Polls - 1 /\ polls' = polls /\ phase' = "expired"
  /\ UNCHANGED <<team, round, answers, prompted>>

\* The turn has its pick; k and flag1 begin the next one anew.
TurnTaken ==
  /\ polls' = 0 /\ prompted' = FALSE
  /\ UNCHANGED <<team, round, answers>>

\* Mutant: the player stays among the available ones.
RecordPick_KeepsAvailable(p) ==
  /\ playerIDs' = [playerIDs EXCEPT ![team][round] = p]
  /\ available' = available

RecordPick(p) ==
  /\ playerIDs' = [playerIDs EXCEPT ![team][round] = p]
  /\ available' = available \ {p}

\* The same with an ID outside playersAux: the -1 goes to memory of something
\* else, which may be that of an earlier pick.
RecordOutside ==
  /\ \/ playerIDs' = [playerIDs EXCEPT ![team][round] = Outside]
     \/ \E t \in Teams, r \in 0 .. Rounds - 1 :
          /\ playerIDs[t][r] # NoPick
          /\ playerIDs' = [playerIDs EXCEPT ![team][round] = Outside, ![t][r] = NoPick]
  /\ UNCHANGED available

\* The first half of a poll: the available players, once a turn, to a team
\* with a channel.
Prompt ==
  /\ Locking
  /\ phase = "prompting"
  /\ prompted' = channel[team]
  /\ asked' = [asked EXCEPT ![team] =
                 IF CanBeAsked(team) /\ ~ prompted THEN @ + 1 ELSE @]
  /\ IF prompted THEN UNCHANGED <<inbox, waiting>> ELSE Send(team)
  /\ phase' = "reading"
  /\ UNCHANGED <<joinVars, owed, wireVars, pickVars, team, round, polls, answers, up>>

\* A player not available, or a -1 found outside playersAux, is refused, which
\* asks the user again.
Refuse ==
  /\ asked' = [asked EXCEPT ![team] = IF CanBeAsked(team) THEN @ + 1 ELSE @]
  /\ Send(team)
  /\ NextPoll
  /\ UNCHANGED <<pickVars, up>>

Accept ==
  /\ Send(team)
  /\ TurnTaken
  /\ phase' = "updating"
  /\ UNCHANGED <<asked, up>>

Crash ==
  /\ up' = FALSE
  /\ UNCHANGED <<pickVars, loopVars, asked, inbox, waiting>>

\* The second half.  Nobody asks whether the ID is one of a player, nor whether
\* the channel the answer goes through is still there.
ReadPick ==
  LET p == Head(pipe[team])
  IN  /\ Running
      /\ phase = "reading"
      /\ pipe[team] # << >>
      /\ pipe' = [pipe EXCEPT ![team] = Tail(@)]
      /\ \/ channel[team] /\ p \in available /\ RecordPick(p) /\ Accept
         \/ channel[team] /\ p \in Players \ available /\ Refuse
         \/ channel[team] /\ p = Outside /\ RecordOutside /\ Accept
         \/ channel[team] /\ p = Outside /\ Refuse
         \/ /\ ~ channel[team] \/ p = Outside
            /\ Crash
      /\ UNCHANGED <<joinVars, owed, channel, blocking, second>>

\* Mutant: the poll is over only when something was read.
ReadNothing_Waits ==
  /\ Running
  /\ phase = "reading"
  /\ pipe[team] = << >> /\ ~ channel[team]
  /\ NextPoll
  /\ UNCHANGED <<joinVars, clientVars, wireVars, pickVars, waiting, up>>

\* Nothing to read in a pipe that does not block.
ReadNothing ==
  /\ Running
  /\ phase = "reading"
  /\ pipe[team] = << >> /\ ~ blocking[team]
  /\ NextPoll
  /\ UNCHANGED <<joinVars, clientVars, wireVars, pickVars, waiting, up>>

\* How many available players come before this one.
Rank(p) == Cardinality({q \in available : q < p})

\* Mutant: the modulus forgets the picks of the round.
RandomBound_IgnoresTeam == MAX_PLAYERS - round * 2

\* The modulus rand() is taken by.
RandomBound == MAX_PLAYERS - (round * 2 + team)

\* The time is over: the thread picks the rand()-th available player, and
\* tells the team next.
PickForTeam ==
  /\ Running
  /\ phase = "expired"
  /\ \E p \in available : Rank(p) < RandomBound /\ RecordPick(p)
  /\ TurnTaken
  /\ phase' = "late"
  /\ UNCHANGED <<joinVars, clientVars, wireVars, waiting, up>>

\* DRAFT_TIMEOUT.
TellTeam ==
  /\ Locking
  /\ phase = "late"
  /\ Send(team)
  /\ phase' = "updating"
  /\ UNCHANGED <<joinVars, owed, asked, wireVars, pickVars,
                 team, round, polls, answers, prompted, up>>

\* DRAFT_UPDATE to the other team, if there is one, ends the turn.
TellOther ==
  /\ phase = "updating"
  /\ \/ NTeams = 1 /\ Running /\ UNCHANGED <<inbox, waiting>>
     \/ NTeams = 2 /\ Locking /\ Send(1 - team)
  /\ NextTurn
  /\ UNCHANGED <<joinVars, owed, asked, wireVars, pickVars, up>>

\* The IDs are handed to the teams (League's DraftDone and ChoosePlayer); the
\* player of one outside the array is looked for in foreign memory.
HandOver ==
  /\ Running
  /\ phase = "picked"
  /\ phase' = "ending"
  /\ \/ UNCHANGED up
     \/ /\ \E t \in Teams, r \in 0 .. Rounds - 1 : playerIDs[t][r] \notin Players
        /\ up' = FALSE
  /\ UNCHANGED <<joinVars, clientVars, wireVars, pickVars,
                 team, round, polls, answers, prompted, waiting>>

\* END_DRAFT to one team after the other; then the draft is freed.
EndDraft ==
  /\ Locking
  /\ phase = "ending"
  /\ Send(team)
  /\ \/ team < NTeams - 1 /\ team' = team + 1 /\ UNCHANGED phase
     \/ /\ team = NTeams - 1 /\ team' = 0
        /\ phase' = IF waiting' = "nobody" THEN "done" ELSE "ending"
  /\ UNCHANGED <<joinVars, owed, asked, wireVars, pickVars,
                 round, polls, answers, prompted, up>>

Thread == \/ Start \/ AskAlive \/ SkipTeam \/ Listen
          \/ Prompt \/ ReadPick \/ ReadNothing
          \/ PickForTeam \/ TellTeam \/ TellOther \/ HandOver \/ EndDraft

Next ==
  \/ Thread
  \/ \E t \in Teams :
       \/ JoinDraft(t) \/ QuitDraft(t) \/ AnswerAlive(t) \/ StopReading(t)
       \/ \E p \in IDs : ChoosePlayer(t, p)

Spec == Init /\ [][Next]_vars

\* The thread waits for nothing but what its guards say: a send to a client
\* that reads returns, because the client does nothing but read and hand on
\* what it read.  Nothing is assumed of the users: they may never join, answer
\* or quit, and their clients may be killed.
FairSpec == Spec /\ WF_vars(Thread)

-----------------------------------------------------------------------------
(* Properties.                                                             *)

Picking == phase \in {"prompting", "reading", "expired", "late", "updating",
                      "picked", "ending", "done"}

\* How many turns have their pick.
TurnsOver ==
  IF ~ Picking THEN 0
  ELSE IF round = Rounds THEN Rounds * NTeams
  ELSE round * NTeams + team + (IF phase \in {"late", "updating"} THEN 1 ELSE 0)

Turn(n) == playerIDs[n % NTeams][n \div NTeams]

Recorded == {Turn(n) : n \in 0 .. TurnsOver - 1}

\* However many stale, late, refused or impossible answers came, a player
\* recorded for a turn is gone from playersAux and recorded for no other turn;
\* and as long as every turn recorded a player, no other player is gone.
PicksAreGone ==
  /\ Recorded \cap available = {}
  /\ \A m, n \in 0 .. TurnsOver - 1 : Turn(m) = Turn(n) /\ Turn(m) \in Players => m = n
  /\ Recorded \subseteq Players => available = Players \ Recorded

\* Whatever rand() gives, a team whose time is over gets a player: the modulus
\* never exceeds the number of players left.
RandomPickExists ==
  phase = "expired" => \A x \in 0 .. RandomBound - 1 : \E p \in available : Rank(p) = x

B == INSTANCE DraftBoard WITH
       BoardTeams <- NTeams, BoardPlayers <- Players, BoardRounds <- Rounds,
       Nobody <- NoPick,
       board <- [n \in 1 .. TurnsOver |->
                   IF Turn(n - 1) \in Players THEN Turn(n - 1) ELSE NoPick],
       over <- phase = "done"

\* The draft is a sequence of turns that each take one free player or, with an
\* ID that is none, nobody, at the price of one earlier turn at most; it ends
\* when every team has had all its turns.
DraftFollowsBoard == B!BoardSpec

\* Once the picks have begun they end, even if every user leaves or sleeps,
\* unless a message left in the pipe of one who left or an ID that is no
\* player's ends the server, one who left comes back with a pipe that blocks, or
\* a client has stopped reading: the send it has no room for never returns.
PicksEnd ==
  phase = "prompting"
    ~> \/ phase = "done" \/ ~ up
       \/ \E t \in Teams : blocking[t] /\ joins[t] > 1
       \/ \E t \in Teams : inbox[t] = "full" /\ waiting # "nobody"

-----------------------------------------------------------------------------
(* What a text of the program says and the code does not do; violated in a *)
(* run of its own.                                                         *)

\* "A partir de ahora tienes 1 minuto para elegir" (client.c:742): a turn is
\* over after some time.
TurnEnds == \A t \in Teams, r \in 0 .. Rounds - 1 :
  (Picking /\ team = t /\ round = r) ~> (~ up \/ team # t \/ round # r)

=============================================================================

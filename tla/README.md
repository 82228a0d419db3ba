# Fantasy league: a TLA+ verification project

Models, model-checking runs and machine-checked proofs of the fantasy-league
client/server program in `src/` (C, pthreads and System V IPC).  Paths below
are relative to `src/src/`.

A user signs up, creates or joins *leagues* with *teams*, drafts players in a
live *draft*, and from then on changes them with *trades* and free-agent
swaps; match files give points to players and teams; a thread saves everything
to a small database every few seconds.

## 1. Inventory

| Component | State | Operations | Modelled by |
|---|---|---|---|
| League data and trades (`server/server.c`) | maps `leagues`, `teams`, `trades`; per league `teams`, `nonDraftedPlayers`, `maxSize`; per team `players`, `sentTrades`, `incomingTrades`, `points`; `max*ID` | createLeague, joinLeague, choosePlayer, requestTrade, removeTrade, negotiateTrade, tradeAccept, expiry | `League`, `Market` |
| Matches (`playMatch`, `playMatches`) | `Player.score` in every league's copy, `Team.points`; the directory of match files | one match file; the thread that finds, plays and renames them | `Season`, `Matches` |
| `saveMutex` | one mutex over all of the above | lock and unlock of every call, of saveThread and of expiryDateThread; `shutDown`, a signal handler that locks it on top of any of them | `SaveMutex` |
| Draft thread (`server/servstub.c` `draft`) | `Draft`: cant, pipes, channels; `playersAux`, `playerIDs` | the IS_ALIVE loop, the picking loop, JOIN_DRAFT, QUIT_DRAFT, answers | `Draft`, `DraftBoard` |
| Drafts table (`joinDraft`) | `drafts`, each draft's `cant`, hash and pipes | concurrent JOIN_DRAFTs, the thread's start and end, late draft messages | `DraftJoin` |
| Database (`db/dbms.c`) | four files | save, load, shutDown, saveThread | `Store` |
| Hash map and lists (`ADT/`) | array of lists | addToHash, getFromHash, removeFromHash, removeFromListI | `HashMapADT`, `Dictionary` |
| Shared-memory channel (`transport/shmem.c`) | two buffers, four semaphores | createChannel, connectToChannel, sendPacket, receivePacket | `Shmem` |
| Accounts (`signUp`, `login`, `logOut`) | map `users`, `User.isConnected` | register, log in, log out | `Sessions` |
| Connections (`main`, `miniServer`, `timeout`) | miniServers, TOArray, envs, `newChannel`, `maxThreadID` | the accept loop, a miniServer's start, requests and answers, expiry | `Connecting`, `Sessions` |
| Client (`client/`) | shell and receiver processes, syncPipe, `name` | menu, commands, signals, expiry | `Sessions`; its packets in `Shmem`, its prompts in `Draft`, its first request in `Connecting` |
| Other transports (`fifo.c`, `msgqueue.c`, `socket.c`) | the default channel, the numbers of channels | what each does while clients connect | `Connecting` |
| Request parsing, menus, trie, queue, `db/load.c` | | | not modelled (section 8) |

**Interactions.**  Every client has a `miniServer` thread that calls the
handlers directly; three background threads (save, expiry, matches) and one
thread per draft share the same data.  `saveMutex` is meant to protect it.  A
draft's thread talks to the clients through *their* channels and gets their
answers through pipes the miniServers write into, under `draftMutex`.  On one
channel four processes meet: the client's shell and receiver, the miniServer
and the draft thread.  All clients share the *default* channel, on which each asks
for a channel of its own.

**What is hard.** Old trades whose players have moved; the mutex given back in
the middle of `requestTradeAux`; late, stale, refused or impossible answers in a
draft, users who quit and come back, clients that stop reading; two drafts of a
league that both hand over; `joinDraft`, which several miniServers run at once
without a lock; a crash anywhere in a save, which removes all files before it
writes them, or between a match's points, the rename of its file and the save of
either; a signal handler that wants the mutex its own thread holds; several
clients on the default channel, and threads that count themselves and copy a
global that main goes on writing; SETVALs on semaphores another process uses; a
connection ended by one thread while another serves it; clients that vanish, or
log out a name that is no longer, or never was, theirs.

**What makes each part correct.**

* League: a player of a league is undrafted or on exactly one team; a trade is
  in the map and two lists or in none; a roster never exceeds a draft; a user
  has one team in a league; a trade always ends.
* Season: the points of a league's teams are its players' scores.
* Matches: a match counts once in a league; a file that is hidden has counted.
* saveMutex: exclusion; a locked mutex has somebody to unlock it.
* Draft: each turn takes one free player; the random pick finds one; the picks
  end.  It begins when every team has joined, and not before.
* Database: a restart brings the last save back, and nothing inconsistent.
* Hash map: a key added is found, one removed is not, a value is listed once.
* Accounts: a user has one session; one who is connected has a client.
* Connections: a client gets a channel of its own with somebody at the other
  end; IDs stay inside the arrays they index; whoever asks is answered or told
  that his connection expired.
* Channel: exclusive buffers, no message overwritten or read twice, a reply to
  every request.

## 2. Modules

| Module | Lines of code it stands for, and how |
|---|---|
| `League` | One variable per field of the structs (a HashMap is a function of the ID, a list is a set), one action per handler.  A call that returns -1 changes nothing, so it is the action being disabled. The end of a draft is `DraftDone` (any picks, distinct but for IDs that are no player's) followed by one `ChoosePlayer` per call; a second draft that began before the first handed over does the same.  `negotiateTrade` is two steps where the code gives the mutex back (`NegotiateTrade`, `FinishNegotiate`).  `SwapCrashes` is the NULL dereference of a swap that offers a player the team has not. |
| `Market` | Abstract: each player has one holder; a free player is picked, later two players change hands. |
| `Season` | `League` with scores and points; `PlayMatch` is `playMatch`. |
| `Store` | `Season` with the files: save is one step per `remove`, `fopen` and `fclose`, and one per league that an `fseek` writes to `Leagues` before (`WriteLeagues`); `Restart` is `load`; `Kill`, `ShutDown`, `SaveFreed` and `Exit` are the ways the process ends. |
| `Matches` | The match thread step by step (find, read, play, rename) with leagues created and drafted meanwhile, saves, `shutDown`, crashes and restarts.  `data` is in memory and `saved` on disk; a match is reduced to how often it has counted in each league. |
| `SaveMutex` | Threads, the mutex and where each thread is in its call; the three kinds of call by how they lock and unlock (`plain`, `signUp`, `swap`); `shutDown` as a handler that runs on top of one of the threads. |
| `HashMapADT`, `Dictionary` | The table of lists and what the header promises of it. |
| `Draft`, `DraftBoard` | The draft's thread poll by poll and message by message, with the servers and clients around it.  A message is the number read from it, any that is no player's being `Outside`; a client that stops reading has room for one message or none (`inbox`), and who sends to it then waits for ever (`waiting`).  Abstract: a board of turns, some of them wasted. |
| `DraftJoin` | The calls of `joinDraft` of one league's teams, each read and write of shared memory a step; the thread up to its first question and after its last pick; the users who leave, also while they wait for the others; the messages of clients to drafts that were freed. |
| `Connecting` | `main`'s loop, the default channel under each of the four transports, the starts of client and miniServer, the arrays `main` grows and the timeout thread copies.  `queue` is whether there is a message queue of ID 0, the only one the code ever uses. |
| `Sessions` | The clients, each with its shell (`pc`, `name`), a buffer in each direction and its miniServer; handlers of REGISTER, LOGIN and LOGOUT (every other request is `COMMAND`); the timeout thread entry by entry.  Leaving is `Quit`, `Interrupt` (a signal handled by logging out) or `Kill` (no handler). |
| `Shmem` | The semaphore operations of each packet, one a step. |
| `LeagueProofs`, `StoreProofs`, `MatchesProofs`, `MutexProofs`, `TableProofs`, `DraftProofs`, `ChannelProofs`, `SessionsProofs` | Theorems: about `League` and `Market`; `Season` and `Store`; `Matches`; `SaveMutex`; `HashMapADT` and `DraftJoin`; `Draft`; `Connecting` and `Shmem`; `Sessions`. |
| `MCSeason`, `MCStore`, `MCHashMap` | Values and symmetry for TLC. |

`Season` extends `League`, `Store` extends `Season`.  `DraftJoin` ends where
`Draft` begins (with as many joins as teams and a thread that polls), and `Draft`
where `League`'s `DraftDone` begins: its `PicksAreGone` says that the picks it
hands over are distinct but for IDs that are no player's, which is what
`DraftDone` assumes.
`SaveMutex` justifies, for calls other than free-agent swaps, that a handler of
`League` is one step; behind a second unlock it does not hold, and the models
of the data do not cover what two threads inside the lists at once can do.

## 3. Runs

Operators of mutants (`X_SomeBug`) stand beside the definition they replace;
each property is known to fail under one of them.

| Run | Question | Bounds |
|---|---|---|
| `LeagueLive` | partition and size of rosters, refinement of `Market`, liveness | 1 league of 2 teams, 3 players, 1 pick a team, 2 drafts that hand over, 1 trade |
| `LeagueTwo` | ownership, trade index, size of a league, points | 2 leagues of 1 or 2 teams, 3 users, 2 players, 1 draft a league, 2 trades, 2 matches; symmetric in users and names |
| `Matches` | counted once, hidden has counted, every file is dealt with | 2 files, 2 leagues, 1 end of the server |
| `MutexProgress` | exclusion, owed lock, progress | 3 threads, all kinds of call, 1 shutDown |
| `HashShared` | listed once; acts as a dictionary | 7 keys in 2 lists, 3 tags |
| `DraftRounds` | one player a turn, random pick, board, the picks end | 2 teams, 1 round, 2 players, 2 polls, 3 joins, 2 prompts, 1 client that may stop reading |
| `DraftTurn` | expected violation, section 6 | 3 players, 3 joins, 1 prompt |
| `DraftJoin` | starts full, one draft, begins | 2 teams, 5 joins |
| `Connecting` | own channels, IDs in bounds, everyone connects | 2 clients, each of 4 transports, with and without a queue of ID 0, arrays that grow by 1 |
| `StoreRestart` | what survives shutDown and crashes | 1 league, 3 players, 1 draft, 1 trade, 1 match, all faults |
| `ShmemTraffic` | exclusive buffers, order, replies | 3 requests, 2 prompts |
| `SessionsTwo` | sessions, connected users, answers, sweeps | 2 clients, 1 user name |

**Why the bounds are enough.**  A trade is stale in `LeagueLive` when a swap has
taken its player; two trades, of which one answers the other or takes its
players, are in `LeagueTwo`.  Three players leave one undrafted with two full
rosters, so swaps, trades and the calls of two drafts meet.  All invariants and step
properties the runs check are theorems for larger instances too (section 5);
what the bounds have to be enough for is liveness.  Two leagues are what ownership and per-league
scores need, and two matches enclose a trade.  In `Matches` two leagues are one
that was there when the thread listed them and one that was not; after one end
and restart of the server the state is again one that a first run reaches.
Three threads are what the second unlock needs: one that unlocks twice, one
inside, one that enters.  In `SessionsTwo` one name is all that two clients can
quarrel about: every way to be locked out, to be evicted by a stale name or to
end unheard needs one user and two clients.  With two names (2.2 million states)
the properties hold too, but TLC takes more than five minutes; for the third client
that two sessions after an eviction need beside the evicting one there are the
theorems.  Lists of four keys have an entry that is neither first nor last.
Three joins let one of two users quit and return; two polls and two prompts make
an answer to the first arrive at the second; one client that stops reading blocks
the thread and the other's server, and a second would only find them blocked.
Later rounds, which repeat the first with fewer players, are covered by the
theorems.  In `DraftJoin` two teams are two whose calls meet, and three more joins
are users who leave and come back, before the draft begins and after it; with more
teams the invariants are theorems.  In `Connecting` two clients are what it takes to share or miss a channel; arrays
that grow by one grow at every thread, and the invariants are theorems for any
number of clients and any step.  In `ShmemTraffic` three requests reuse each
buffer after a lost permit could bite.
IDs stay below `TABLE_ENTRIES` (100) in `League`; what happens beyond is
`HashMapADT`'s subject.  `LeagueSizes` holds 1 and 2: the random pick of a
draft is written for at most two teams.

`CHECK_DEADLOCK FALSE` stands where the system really stops: a crashed server,
a leaked mutex, a draft that is over, traffic at its bound, clients that have all
left, match files that are all hidden.

## 4. Fairness

* `League!FairSpec`: `expiryDateThread` wakes every second; the thread that
  left a trade for later and each draft thread wait for nothing but the mutex.
  No user action is fair.
* `Matches!FairSpec`: the thread goes on, and each pass over the directory
  (`readdir`, `rewinddir`) comes to every file; hence strong fairness of finding
  one, which is disabled while another is played.  Nothing forces a league, a
  save, an end or a restart.
* `SaveMutex!FairSpec`: a thread inside a call goes on, and so does a handler
  unless it waits for the mutex; a free mutex goes to
  *some* waiting thread (a pthread mutex promises no more), so `LockProgress` is
  about some thread and not each.
* `Draft!FairSpec`: the thread runs.  What it sends to a client waits in `semop`
  (shmem.c:115) for what came before to be read; the receiver of a client does
  nothing but read and hand on, so that the wait ends and is part of the send,
  until the client is killed or has lost a permit: then it has room for one message
  or none, and the thread or the server that finds none is stopped for good, with
  `draftMutex`.  Users may do nothing for ever.
* `DraftJoin!FairSpec`: calls of `joinDraft` and the thread up to its first
  question wait for nothing; users need not join, answer or quit.
* `Connecting!FairSpec`: main, the threads, and a client that has begun to connect
  go on unless blocked, and a receive without its queue fails at once; nobody
  needs to come.
* `Sessions!FairSpec`: receivers, miniServers and the timeout thread go on when
  no buffer stops them, and a minute passes; users need not do anything.
* `Shmem!ShmemFairSpec`: a process that is not blocked goes on; users need not type.

`StoreSpec` and `SeasonSpec` have no liveness: nothing forces a save or a
restart.

## 5. Proofs

All are checked by TLAPS for every value of the constants that the named
assumptions allow.  The assumptions are on constants only and are stated where
the constants are declared.  Every invariant and every step property of the runs
is a theorem, and so are the refinements of `Market`, `DraftBoard` and, with its
exceptions, `Dictionary`.

* **`TypeCorrect`** (`LeagueProofs`): `Spec => []TypeOK`, one step per action over
  lemmas about the shared helpers (CreateTeam, PutTrade, DropTrades, SwapFreeAgent).
* **`InvariantHolds`, `RostersPartition`, `TradesStayIndexed`** (`LeagueProofs`).
  Neither `RosterPartition` nor `TradesIndexed` is inductive: an accepted trade
  moves players between `mine` and `teamFrom`, and that these are two teams of
  *one* league is `TradesIndexed`; that no other league is touched needs that a
  team is in the one league it names.  The inductive invariant is
  `LeagueInvariant == TypeOK /\ LeagueShape /\ TradesIndexed /\ RosterPartition`.
* **`TeamsAreOwned`** (`LeagueProofs`): `TeamOwnership` over `LeagueInvariant` and
  `Owned`, that a league's teams have distinct owners and names: a name is all
  that tells two teams apart, and `joinLeague` compares with the league's only.
* **`RostersStayBounded`** (`LeagueProofs`): `RosterBounded` over `LeagueInvariant`.
  While drafts are handed over, a team's players *and* the calls still due to it
  together are at most `Rounds` for each draft of its league that has handed over:
  a second draft, whose joins passed the test of server.c:581 in time, gives a team
  `Rounds` more and no further ones.  A draft makes each call once (`OneEach`);
  swaps and trades exchange one player for one, also when they come between two.
* **`LeagueImplementsMarket`** (`LeagueProofs`): the refinement mapping `Holder`
  is a CHOOSE, made unique by `RosterPartition`; creating teams and changing
  trades stutter, `ChoosePlayer` picks, swaps and accepted trades exchange.
* **`CapacityRespected`** (`LeagueProofs`): `LeagueNotOverfull`, although
  `joinLeague` only tests for equality.
* **`PointsAreScores`** (`StoreProofs`): `SeasonInvariant` is `LeagueInvariant`, the
  equation for every league there may be, and that a team not created yet has no
  points to bring.  A swap or a trade changes neither points nor scores; a match
  adds to both sums of a league what the file gives its drafted players, and that
  no player is counted for two teams is `RosterPartition`.  The lemmas about `Sum`
  stand before it.
* **`StoreInvariantHolds`, `LoadedDataAgrees`, `LastSaveComesBack`,
  `NoHalfOfTheTeams`** (`StoreProofs`).  `StoreInvariant == Memory /\ SaveShape /\
  Loadable`: what is in memory satisfies `LeagueInvariant` (and what was never
  created is blank, for a load rebuilds it so); which files are there, empty or
  written is told by how far save is, and that `Leagues` has leagues in it before
  the others have anything; and what a load of the files *would* bring
  is the last save, the data being saved, or no team.  A league without its team
  makes load refuse (dbms.c:208), so that a load that finds no team finds no league
  either: nothing comes back from files with nothing in them only.  The step that carries it is
  the pair of lemmas that save writes data a load accepts (`WrittenFiles`) and that
  a load of such files restores `LeagueInvariant`, rebuilding leagues and
  undrafted players from the teams.
* **`DraftInvariantHolds`, `PicksStayGone`, `PlayerIsLeft`, `RandomPickSucceeds`,
  `DraftImplementsBoard`** (`DraftProofs`): for any number of rounds, polls and
  joins, clients that stop reading, and leagues of up to two teams.
  `DraftInvariant` ties the players still on the thread's list to the ones in
  `playerIDs` and to how far the turns have come: what is recorded is gone from
  the list, no player twice, and as many are gone as turns recorded one.  An ID
  that is no player's is recorded too, and its -1 may fall on an earlier turn's
  record: then a player is gone whom no team will get, which is the case
  `PicksAreGone` leaves out and the board calls a wasted turn.  That a player is *left* when the
  random pick starts follows by counting, and that its loop comes to one of them
  from there being, in a finite set of n numbers, one with k below it for each
  k < n.
* **`JoinInvariantHolds`, `DraftNeedsItsTeams`, `OneDraftIfNoneMeet`**
  (`TableProofs`): for any number of teams and joins.  `JoinCounts`: the joins
  that were stored in a draft, which is those made less those still between read
  and write, bound `cant` and every value a call has read of it, so a lost update
  only lowers the count.  Under `~ met`, `OneByOne` and `DraftFills` follow the
  single call through its loop: how much of the hash is filled, who has a pipe,
  and, unless somebody joined twice (`returned`), that the count of joins is the
  number of pipes until the thread begins.
* **`MatchesInvariantHolds`, `MatchCountsOnce`, `HiddenFilesHaveCounted`**
  (`MatchesProofs`): for any files, leagues and ends.  `CountedOnce` is about memory,
  and a restart replaces memory by what was saved, so the invariant says the same
  of both (`Accounted`); what a file that is being played still owes each league
  (`Owing`), and what a server that is down has lost (`Kept`).
* **`IDsStayInBounds`, `ChannelsAreNotShared`** (`ChannelProofs`): for any number
  of clients.  `CountInvariant`: threads that count themselves may lose counts,
  never gain them, so `maxThreadID` is at most the number of threads main has
  made room for.  `ChannelInvariant`: channels are made in the order of the
  requests, and between a client that asks alone, main and the reply there is
  one token; without a second client in between the reply is his.  Whether the
  message queue is there makes no difference to either.
* **`ShmemInvariantHolds`, `ShmemTypeCorrect`, `BufferIsExclusive`,
  `MessagesInOrder`** (`ChannelProofs`): for any number of requests and prompts.
  To the client, the permit, the processes in the buffer and the unread message
  add up to at most one (`ClientPermit`); to the server to at most two, since the
  server declares the buffer free that the next message may already be in, and
  `ServerPermit` says when the second is harmless.  Both rest on there being one
  request or reply under way while the shell waits (`OneReply`), on what cannot
  have happened before the first request was read (`ShmemStart`), and on a prompt
  being owed for every answer (`PromptsOwed`).
* **`SessionsInvariantHolds`, `SessionsTypeCorrect`, `SessionsAreSingle`,
  `ConnectedUsersHaveClients`** (`SessionsProofs`): for any number of clients and
  users.  For each client, `ClientInvariant`: at most one request of it is on its
  way (`OneRequest`), what its shell may conclude from the answer (`Known`,
  `Told`) and who has told it that it expired (`Expiry`); across clients, that a
  user who was never evicted was let in by one of them (`OneGrant`).
* **`LockIsAlwaysOwed`, `ExclusionHolds`, `ExclusionWithoutSwaps`**
  (`MutexProofs`): for any number of threads, with the handler.  `ExclusionHolds` needs
  `MutexInvariant`: unless reopened, the mutex is locked while anybody is inside.
* **`ValuesListedOnce`, `HashActsAsDictionary`, `UnsharedIsDictionary`,
  `GrowingIsDictionary`** (`TableProofs`): for every hash, tag and size.
  `HashInvariant` adds that a key is only ever in its own list.  The two
  conditional theorems say when the table is a dictionary throughout: if no keys
  share a list, or if nothing is removed and the tags tell the keys apart.

Two of these need induction over finite sets (sums and counts).  The library's
induction theorems take an operator, which no backend can instantiate; the
proofs go by a smallest counterexample instead: the subsets of a finite set are
well founded (`SmallestSet`), and a smallest one that lacks a property cannot
lack it.

**Only model-checked**: liveness, since fairness and ENABLED are out of the
prover's reach (`EveryTradeEnds`, `DraftIsApplied`, `NegotiatedTradeEnds`,
`EveryFileIsHidden`, `LockProgress`, `PicksEnd`, `DraftBegins`,
`EveryoneConnects`, `ReplyOrLost`, `EveryoneIsAnswered`, `SweepsGoOn`).

## 6. Where the code and its texts disagree

One is a run: in `DraftTurn` a user who quits a draft and joins again gets a
pipe that blocks (server.c:614); the thread reads it for ever, holding
`draftMutex`, although the client is told of a minute to choose (client.c:742).

Others are in the models, as branches that the properties allow for:

* `removeFromListI` never advances its index, so only the head of a list can be
  removed, and `removeFromHash` returns 0 (`Behind` in `HashMapADT`; ListADT.c:282);
* `requestTradeAux` unlocks `saveMutex` in its free-agent branch (server.c:198),
  its caller unlocks it again, and two threads may be inside (`reopened` in
  `SaveMutex`);
* a client whose connection expired, or that was killed, leaves its user
  connected for good: after a TIMEOUT `logout` runs in the receiver, whose copy
  of `name` is empty (`Receive`; clstub.c:347), and SIGHUP has no handler;
* an interrupted client logs out the name it was last given, although that
  login failed or another client has logged in since (`evicted` in `Sessions`;
  client.c:189);
* the timeout thread sends TIMEOUT itself, and waits for ever for a client that
  left an answer unread (`EndConnection`; servstub.c:680); its jump into another
  thread's environment is undefined, and modelled as working or crashing;
* a swap that offers a player the team has not crashes the server
  (`SwapCrashes`; server.c:194);
* a refused counter-offer removes the trade it answers and returns 0
  (`NegotiateTrade`, last branch; server.c:517);
* teams are compared by name (`Belongs`; misc.c:50), which `TeamOwnership` shows
  to be enough within a league and not across leagues;
* a league of size 0 or less takes any number of teams (`HasRoom` tests for
  equality; server.c:324);
* a pick of a draft may be gone when it is handed over, and the draft thread
  ignores it (`ChoosePlayer`; servstub.c:493);
* a picked ID is not checked (`ReadPick`; servstub.c:422): one that is no player's
  is refused or recorded by what lies outside `playersAux`, the -1 may fall on an
  earlier pick, and `choosePlayer` reads a pointer outside `players` (`ChoosePlayer`
  in `League`; server.c:170);
* the draft thread sends while it holds `draftMutex` (servstub.c:370, 392, 460): a
  client that was killed, or has lost a permit, stops the draft and everybody's
  QUIT_DRAFT for good (`waiting` in `Draft`; shmem.c:115);
* whether a team has players is tested before the draft (server.c:581), and two
  drafts of a league may both hand over: its teams get more than `Rounds` players
  each (`handOvers` in `League`);
* a user who leaves while he waits for a draft and joins again counts twice, and the
  draft begins without another (`returned` in `DraftJoin`; server.c:615);
* any message in a pipe is taken for a pick (`AnswerAlive`, `ReadPick`;
  servstub.c:417), and what a user who quit had sent is answered through a NULL
  channel (`ReadPick`; servstub.c:436);
* `shutDown` unlocks between freeing and exiting, and the waiting saveThread
  removes the files just written (`SaveFreed`; servstub.c:704);
* `Leagues` reaches the disk at the first `fseek` (dbms.c:379), before `Teams` is
  closed: a server that dies in between leaves leagues without teams, which load
  refuses from then on (`WriteLeagues`, `LoadSucceeds`; dbms.c:208);
* scores of undrafted players are saved and not loaded (`Kept`; dbms.c:224);
* `addToHash` compares values with the comparator of keys (`TagTaken`;
  HashMapADT.c:61);
* the SETVALs of `sendPacket` and `receivePacket` may take a permit, and the
  channel stops (`lost` in `Shmem`; shmem.c:123);
* calls of `joinDraft` that meet may make two drafts of a league, enter one whose
  hash is still being filled, or lose a count, and the draft never begins
  (`met` in `DraftJoin`; server.c:585, 615);
* the end of a draft leaves its entry in the table, because `removeFromHash` is
  given the address of a pointer (servstub.c:506): a later message uses freed
  memory, and the entry turns away a second draft of the league;
* a match file is renamed although it is too short to be played (`skipped` in
  `Matches`), and its points are lost if the server ends before the next save, or
  count twice if it ends before the rename (`unsaved`, `unhidden`); between the
  save of `shutDown` and its exit the match thread goes on;
* `shutDown` runs as a signal handler and locks `saveMutex`, which the thread
  under it may hold: it then waits for itself (`SaveMutex`; servstub.c:693);
* `miniServer` copies `newChannel` when main may have filled it in for the next
  client: two threads serve one and none the other (`CopiedLate` in `Connecting`;
  servstub.c:628);
* a client that connects sets the semaphores of the shared-memory default channel
  again, whoever is in the middle of it, and two clients may read one reply
  (shmem.c:56); a fifo may give main the requests of two clients in one read
  (fifo.c:55);
* the message-queue transport compares `msgid` with what `msgget` returns and never
  assigns it, so both sides use the queue of ID 0: for all but the first queue since
  the system started nobody connects, main and the clients copying the -1 of their
  first receive as a length (`Works`, `ServerFails`, `ClientFails`; msgqueue.c:33,
  53, 67);
* all channels of that transport are one queue, which the first connection that
  expires removes (`Expire`; msgqueue.c:42).

## 7. Plan

Done: every module and theorem above; no invariant or step property is without
its theorem.  Left, in this order:

1. A draft interrupted by a crash between two calls of `choosePlayer`, which leaves
   its league unable to draft again, as a property of `Store`.
2. The safety behind two liveness properties as invariants with theorems: in
   `Shmem`, that permits are conserved until one is lost, so that somebody can
   always go on; in `Sessions`, that whoever waits has somebody to wait for.
3. `DraftJoin` composed with `Draft`: the questions asked of a draft whose calls met.
4. `Draft` beyond two teams, as far as the random pick's loop stays inside its array.

## 8. Not modelled, and why

* What `fifo.c`, `msgqueue.c` and `socket.c` do on a client's own channel.  The
  makefile builds the program once with each transport; `Connecting` has all four,
  and traffic on a channel is modelled for shared memory, the one whose processes
  synchronise by themselves.
* FIFOs, semaphores and queues that a crashed server leaves to the next one.
* `realloc` of `miniServers`, `TOArray` and `envs` while the timeout thread or a
  miniServer uses the old array: undefined behaviour that depends on the heap.
* Request parsing (`process_*`), the client's menus and formatting: conversion
  and I/O without a decision.
* `QueueADT.c` (unused), `TrieADT.c` (dispatch of commands), `db/load.c` (not built),
  the transport test programs.
* Memory: allocation failures other than signUp's, leaks, and the out-of-bounds
  loops of `draft` (servstub.c:358, and the random pick beyond two teams), whose
  effect depends on the stack's layout.  Of what a -1 outside `playersAux` may
  overwrite, `Draft` has the recorded picks and the end of the server.
* What two threads inside the lists at the same time do to them: `SaveMutex` says
  when it can happen, the models of the data assume it does not.
* In `Store`, a file but for `Leagues` is empty from its fopen to its fclose: what
  save writes fits the stream's buffer (a database below 4096 bytes a file).
* A queue of ID 0 that belongs to another program: `Connecting` takes it as its own.
* In `Draft`, a client that reads does so before it is sent the next message; that
  it may be late is only the time the send takes.

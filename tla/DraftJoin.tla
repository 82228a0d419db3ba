------------------------------ MODULE DraftJoin -----------------------------
(***************************************************************************)
(* How a draft comes to be and how it goes (joinDraft in server.c, the     *)
(* ends of draft() and the draft messages of miniServer in servstub.c).    *)
(* The miniServers of the teams of one full league call joinDraft, which   *)
(* takes no lock: each of its reads and writes of the shared table and of  *)
(* the draft is a step here.  What happens between the first question and  *)
(* the last pick is module Draft's subject.                                *)
(*                                                                         *)
(* The table drafts is a hash map (HashMapADT), here the list of the       *)
(* league's entries, the newest first.  Memory that was freed may still    *)
(* hold what it did, or not: whoever uses it goes on or crashes.           *)
(***************************************************************************)
EXTENDS Naturals, Sequences

CONSTANTS
  NTeams,   \* league->maxSize
  MaxJoins  \* bound: JOIN_DRAFT requests, of all teams together

ASSUME JoinAssumption == NTeams \in Nat \ {0} /\ MaxJoins \in Nat \ {0}

Teams  == 0 .. (NTeams - 1)
Drafts == 1 .. MaxJoins    \* the drafts the calls allocate, in this order
NoDraft == 0

VARIABLES
  drafts,   \* the league's entries of the table
  made,     \* how many drafts were allocated
  cant,     \* draft -> cant
  hash,     \* draft -> the teams in its hash
  pipe,     \* draft -> the teams that have a pipe in its array
  freed,    \* the drafts that were freed
  drafted,  \* the teams have players
  pc,       \* team -> where its call of joinDraft is
  obj,      \* team -> draftObj of that call
  index,    \* team -> i of that call
  read,     \* team -> what it has read of cant
  thread,   \* draft -> where the thread made with it is
  of,       \* draft -> the draft that thread found in the table
  client,   \* team -> where its user is
  mail,     \* team -> the draft message its miniServer has still to read
  joins,    \* JOIN_DRAFT requests so far
  entered,  \* history: draft -> pipes made in it
  returned, \* history: a team with a pipe in a draft joined again
  met,      \* history: two calls of joinDraft were under way at once
  up        \* FALSE once the server process has crashed

callVars  == <<pc, obj, index, read>>
draftVars == <<cant, hash, pipe>>
tableVars == <<drafts, made>>
endVars   == <<freed, drafted>>
userVars  == <<client, mail, joins>>
threadVars == <<thread, of>>
vars == <<tableVars, draftVars, endVars, callVars, threadVars, userVars,
          entered, returned, met, up>>

JoinTypeOK ==
  /\ drafts \in Seq(Drafts) /\ made \in 0 .. MaxJoins
  /\ cant \in [Drafts -> Nat]
  /\ hash \in [Drafts -> SUBSET Teams] /\ pipe \in [Drafts -> SUBSET Teams]
  /\ freed \subseteq Drafts /\ drafted \in BOOLEAN
  /\ pc \in [Teams -> {"idle", "create", "list", "clear", "start", "enter", "count", "store"}]
  /\ obj \in [Teams -> Drafts \cup {NoDraft}]
  /\ index \in [Teams -> Teams] /\ read \in [Teams -> Nat]
  /\ thread \in [Drafts -> {"none", "created", "waiting", "drafting", "over", "done"}]
  /\ of \in [Drafts -> Drafts \cup {NoDraft}]
  /\ client \in [Teams -> {"shell", "joining", "drafting"}]
  /\ mail \in [Teams -> {"none", "ANSWER", "QUIT_DRAFT"}]
  /\ joins \in 0 .. MaxJoins
  /\ entered \in [Drafts -> Nat]
  /\ returned \in BOOLEAN /\ met \in BOOLEAN /\ up \in BOOLEAN

Init ==
  /\ drafts = << >> /\ made = 0
  /\ cant = [d \in Drafts |-> 0]
  /\ hash = [d \in Drafts |-> {}] /\ pipe = [d \in Drafts |-> {}]
  /\ freed = {} /\ drafted = FALSE
  /\ pc = [t \in Teams |-> "idle"] /\ obj = [t \in Teams |-> NoDraft]
  /\ index = [t \in Teams |-> 0] /\ read = [t \in Teams |-> 0]
  /\ thread = [d \in Drafts |-> "none"] /\ of = [d \in Drafts |-> NoDraft]
  /\ client = [t \in Teams |-> "shell"] /\ mail = [t \in Teams |-> "none"]
  /\ joins = 0 /\ entered = [d \in Drafts |-> 0]
  /\ returned = FALSE /\ met = FALSE /\ up = TRUE

-----------------------------------------------------------------------------
(* joinDraft, called by the miniServer of the team t.                      *)

At(t, step) == up /\ pc[t] = step
GoTo(t, step) == pc' = [pc EXCEPT ![t] = step]

\* Reading or writing a draft: it may be freed memory.
Touch(d) == up' \in {TRUE, d \notin freed}

\* Mutant: looked up by the address of a pointer, as the removal at the end is.
Found_ByPointer(t) ==
  /\ obj' = [obj EXCEPT ![t] = NoDraft]
  /\ GoTo(t, "create")

\* getFromHash(drafts, &league->leagueID)
Found(t) ==
  \/ /\ drafts # << >>
     /\ obj' = [obj EXCEPT ![t] = Head(drafts)]
     /\ GoTo(t, "enter")
  \/ /\ drafts = << >>
     /\ obj' = [obj EXCEPT ![t] = NoDraft]
     /\ GoTo(t, "create")

\* A team that has players already is refused.
LookUp(t) ==
  /\ At(t, "idle") /\ client[t] = "shell" /\ mail[t] = "none"
  /\ joins < MaxJoins /\ ~ drafted
  /\ Found(t)
  /\ joins' = joins + 1
  /\ client' = [client EXCEPT ![t] = "joining"]
  /\ returned' = (returned \/ \E d \in Drafts : t \in pipe[d])
  /\ met' = (met \/ \E u \in Teams \ {t} : pc[u] # "idle")
  /\ UNCHANGED <<tableVars, draftVars, endVars, index, read, threadVars, mail, entered, up>>

\* addToHash turns an entry away whose value starts with the same integer as
\* one that is there, and the integer a Draft starts with is cant.
TurnedAway == \E i \in 1 .. Len(drafts) : cant[drafts[i]] = 0

Create(t) ==
  /\ At(t, "create")
  /\ made' = made + 1
  /\ obj' = [obj EXCEPT ![t] = made']
  /\ index' = [index EXCEPT ![t] = 0]
  /\ \/ ~ TurnedAway /\ drafts' = <<made'>> \o drafts
     \/ (TurnedAway \/ freed # {}) /\ UNCHANGED drafts
  /\ GoTo(t, "list")
  /\ UNCHANGED <<draftVars, endVars, read, threadVars, userVars,
                 entered, returned, met, up>>

\* The loop over the league's teams: into the hash first, ...
ListTeam(t) ==
  /\ At(t, "list")
  /\ hash' = [hash EXCEPT ![obj[t]] = @ \cup {index[t]}]
  /\ GoTo(t, "clear")
  /\ UNCHANGED <<tableVars, cant, pipe, endVars, obj, index, read, threadVars, userVars,
                 entered, returned, met, up>>

\* ... then a place in the array without channel and pipe.
ClearPlace(t) ==
  /\ At(t, "clear")
  /\ pipe' = [pipe EXCEPT ![obj[t]] = @ \ {index[t]}]
  /\ \/ index[t] < NTeams - 1 /\ index' = [index EXCEPT ![t] = @ + 1] /\ GoTo(t, "list")
     \/ index[t] = NTeams - 1 /\ GoTo(t, "start") /\ UNCHANGED index
  /\ UNCHANGED <<tableVars, cant, hash, endVars, obj, read, threadVars, userVars,
                 entered, returned, met, up>>

StartThread(t) ==
  /\ At(t, "start")
  /\ thread' = [thread EXCEPT ![obj[t]] = "created"]
  /\ GoTo(t, "enter")
  /\ UNCHANGED <<tableVars, draftVars, endVars, obj, index, read, of, userVars,
                 entered, returned, met, up>>

\* The team's index, its channel and its pipe.  A team that is not in the hash
\* yet has no index: NULL is dereferenced.
Enter(t) ==
  /\ At(t, "enter")
  /\ \/ /\ t \in hash[obj[t]]
        /\ pipe' = [pipe EXCEPT ![obj[t]] = @ \cup {t}]
        /\ entered' = [entered EXCEPT ![obj[t]] = @ + 1]
        /\ GoTo(t, "count")
        /\ UNCHANGED up
     \/ /\ t \notin hash[obj[t]] \/ obj[t] \in freed
        /\ up' = FALSE
        /\ UNCHANGED <<pipe, entered, pc>>
  /\ UNCHANGED <<tableVars, cant, hash, endVars, obj, index, read, threadVars, userVars,
                 returned, met>>

\* draftObj->cant++, which is a read ...
ReadCant(t) ==
  /\ At(t, "count")
  /\ read' = [read EXCEPT ![t] = cant[obj[t]]]
  /\ GoTo(t, "store")
  /\ Touch(obj[t])
  /\ UNCHANGED <<tableVars, draftVars, endVars, obj, index, threadVars, userVars,
                 entered, returned, met>>

\* Mutant: whoever joins is the first.
Counted_First(t) == 1

Counted(t) == read[t] + 1

\* ... and a write; then the client is told.
StoreCant(t) ==
  /\ At(t, "store")
  /\ cant' = [cant EXCEPT ![obj[t]] = Counted(t)]
  /\ GoTo(t, "idle")
  /\ Touch(obj[t])
  /\ client' = [client EXCEPT ![t] = "drafting"]
  /\ UNCHANGED <<tableVars, hash, pipe, endVars, obj, index, read, threadVars, mail, joins,
                 entered, returned, met>>

JoinDraft(t) ==
  \/ Create(t) \/ ListTeam(t) \/ ClearPlace(t) \/ StartThread(t)
  \/ Enter(t) \/ ReadCant(t) \/ StoreCant(t)

-----------------------------------------------------------------------------
(* The thread that was made with the draft d.                              *)

\* It looks for its draft in the table, where it may find another.
FindDraft(d) ==
  /\ up /\ thread[d] = "created"
  /\ of' = [of EXCEPT ![d] = Head(drafts)]
  /\ thread' = [thread EXCEPT ![d] = "waiting"]
  /\ UNCHANGED <<tableVars, draftVars, endVars, callVars, userVars,
                 entered, returned, met, up>>

\* Mutant: the wait ends one team early.
EveryoneCame_OneShort(d) == cant[d] >= NTeams - 1

\* while (draftObj->cant < size)
EveryoneCame(d) == cant[d] >= NTeams

Begin(d) ==
  /\ up /\ thread[d] = "waiting"
  /\ EveryoneCame(of[d])
  /\ Touch(of[d])
  /\ thread' = [thread EXCEPT ![d] = "drafting"]
  /\ UNCHANGED <<tableVars, draftVars, endVars, callVars, of, userVars,
                 entered, returned, met>>

\* Every team has answered and every turn is over: the teams get their players
\* and those who are still there hear END_DRAFT.
FinishPicks(d) ==
  /\ up /\ thread[d] = "drafting"
  /\ pipe[of[d]] = Teams
  /\ thread' = [thread EXCEPT ![d] = "over"]
  /\ drafted' = TRUE
  /\ Touch(of[d])
  /\ client' = [t \in Teams |-> IF client[t] = "drafting" THEN "shell" ELSE client[t]]
  /\ UNCHANGED <<tableVars, draftVars, freed, callVars, of, mail, joins,
                 entered, returned, met>>

\* removeFromHash is given the address of a pointer: the entry stays, or the
\* table is read before its start.  Then the draft is freed.
FreeDraft(d) ==
  /\ up /\ thread[d] = "over"
  /\ thread' = [thread EXCEPT ![d] = "done"]
  /\ freed' = freed \cup {of[d]}
  /\ up' \in {of[d] \notin freed, FALSE}
  /\ UNCHANGED <<tableVars, draftVars, drafted, callVars, of, userVars,
                 entered, returned, met>>

DraftThread(d) == FindDraft(d) \/ Begin(d) \/ FinishPicks(d) \/ FreeDraft(d)

-----------------------------------------------------------------------------
(* What a client sends while it drafts, and its miniServer.                *)

Asked == \E d \in Drafts : thread[d] = "drafting"

\* IS_ALIVE or CHOOSE_PLAYER, when asked; or the user leaves, which he may do
\* while he waits for the others too.
Send(t) ==
  /\ up /\ client[t] = "drafting" /\ mail[t] = "none"
  /\ \/ Asked /\ mail' = [mail EXCEPT ![t] = "ANSWER"] /\ UNCHANGED client
     \/ mail' = [mail EXCEPT ![t] = "QUIT_DRAFT"] /\ client' = [client EXCEPT ![t] = "shell"]
  /\ UNCHANGED <<tableVars, draftVars, endVars, callVars, threadVars, joins,
                 entered, returned, met, up>>

\* The miniServer looks the draft up and uses it (its pipes and channels are
\* Draft's): one that was freed is still in the table.
Handle(t) ==
  /\ At(t, "idle") /\ mail[t] # "none"
  /\ mail' = [mail EXCEPT ![t] = "none"]
  /\ \/ t \in hash[Head(drafts)] /\ UNCHANGED up
     \/ (t \notin hash[Head(drafts)] \/ Head(drafts) \in freed) /\ up' = FALSE
  /\ UNCHANGED <<tableVars, draftVars, endVars, callVars, threadVars, client, joins,
                 entered, returned, met>>

Next ==
  \/ \E t \in Teams : LookUp(t) \/ JoinDraft(t) \/ Send(t) \/ Handle(t)
  \/ \E d \in Drafts : DraftThread(d)

Spec == Init /\ [][Next]_vars

\* A call of joinDraft and the draft's thread up to its first question wait
\* for nothing.  Users need not do anything, so picks may take for ever.
FairSpec ==
  /\ Spec
  /\ \A t \in Teams : WF_vars(JoinDraft(t))
  /\ \A d \in Drafts : WF_vars(FindDraft(d) \/ Begin(d))

-----------------------------------------------------------------------------
(* Properties.                                                             *)

Begun == {d \in Drafts : thread[d] \in {"drafting", "over", "done"}}

\* No thread begins its questions before as many joins as the league has teams
\* were made to the very draft it asks, however the calls and the lost counts
\* mix: a count may be lost, never gained.
DraftStartsFull ==
  /\ \A d \in Begun : entered[of[d]] >= NTeams
  /\ \A d \in Drafts : cant[d] <= entered[d]

\* Calls that do not meet share one draft and one thread, which finds that
\* draft and begins when every team has its pipe, unless a user left while he
\* waited and came back: he counts twice.  Neither the calls nor a message of a
\* client ends the server before the draft has ended.
OneDraft ==
  ~ met => /\ made <= 1
           /\ \A d \in Drafts : thread[d] \notin {"none", "created"} => of[d] = d
           /\ \A d \in Begun : pipe[d] = Teams \/ returned
           /\ up \/ \E d \in Drafts : thread[d] \in {"over", "done"}

\* Once every team has joined, the draft begins, unless two calls met: then a
\* count may be lost, or the teams may be split over two drafts, and all wait.
DraftBegins ==
  (\A t \in Teams : client[t] = "drafting") ~> (Begun # {} \/ met \/ ~ up)

=============================================================================

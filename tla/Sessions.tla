------------------------------ MODULE Sessions ------------------------------
(***************************************************************************)
(* Who is logged in: signUp, login and logOut with User.isConnected, the   *)
(* clients that call them, and the timeout thread that ends the connection *)
(* of a client it has not heard of for a minute.                           *)
(*                                                                         *)
(* Every client has a channel of its own, a buffer in each direction (see  *)
(* Shmem), and a miniServer thread of its own; it is numbered as its       *)
(* thread is in TOArray.  A client is the process that reads the user and  *)
(* the receiver it has forked; only the former knows the user's name.      *)
(***************************************************************************)
EXTENDS Naturals

CONSTANTS
  NClients,  \* clients that connect
  Users,     \* the names their users may give
  NoUser     \* the empty name

ASSUME ClientAssumption == NClients \in Nat \ {0} /\ NoUser \notin Users

Clients == 0 .. (NClients - 1)

\* ok: of a LOGIN, that the password is right; of an answer, that it is 0.
Message == [op : {"REGISTER", "LOGIN", "LOGOUT", "COMMAND", "TIMEOUT"},
            user : Users \cup {NoUser}, ok : BOOLEAN]
Nothing == [op |-> "NOTHING", user |-> NoUser, ok |-> FALSE]

VARIABLES
  registered,  \* the users there are
  isConnected, \* the users whose flag is 1
  pc,          \* client -> where its user is, or how it ended
  name,        \* client -> what its shell has in name
  mail,        \* client -> the message to its server not read yet
  answer,      \* client -> the answer its server has still to send
  reply,       \* client -> the message to the client not read yet
  heard,       \* client -> its TOArray entry differs from the copy of the sweep
  expired,     \* client -> its TOArray entry is -1
  at,          \* the entry the timeout thread looks at; NClients: it sleeps
  ending,      \* it is ending that connection
  granted,     \* history: client -> the user its server has last let in
  evicted,     \* history: users logged out by a client that was not let in as them
  up           \* FALSE once the server process has crashed

userVars    == <<registered, isConnected, granted, evicted>>
clientVars  == <<pc, name>>
channelVars == <<mail, answer, reply>>
sweepVars   == <<heard, expired, at, ending>>
vars == <<userVars, clientVars, channelVars, sweepVars, up>>

Gone == {"left", "killed", "expired"}

SessionsTypeOK ==
  /\ registered \subseteq Users /\ isConnected \subseteq registered
  /\ pc \in [Clients -> {"menu", "asked", "shell", "busy"} \cup Gone]
  /\ name \in [Clients -> Users \cup {NoUser}]
  /\ mail \in [Clients -> Message \cup {Nothing}]
  /\ answer \in [Clients -> Message \cup {Nothing}]
  /\ reply \in [Clients -> Message \cup {Nothing}]
  /\ heard \in [Clients -> BOOLEAN] /\ expired \in [Clients -> BOOLEAN]
  /\ at \in 0 .. NClients /\ ending \in BOOLEAN
  /\ granted \in [Clients -> Users \cup {NoUser}] /\ evicted \subseteq Users
  /\ up \in BOOLEAN

Init ==
  /\ registered = {} /\ isConnected = {}
  /\ pc = [c \in Clients |-> "menu"]
  /\ name = [c \in Clients |-> NoUser]
  /\ mail = [c \in Clients |-> Nothing]
  /\ answer = [c \in Clients |-> Nothing]
  /\ reply = [c \in Clients |-> Nothing]
  /\ heard = [c \in Clients |-> FALSE] /\ expired = [c \in Clients |-> FALSE]
  /\ at = NClients /\ ending = FALSE
  /\ granted = [c \in Clients |-> NoUser] /\ evicted = {}
  /\ up = TRUE

-----------------------------------------------------------------------------
(* The client.                                                             *)

\* A packet waits for the buffer; of an expired connection it goes nowhere.
SendRequest(c, op, u, ok) ==
  /\ mail[c] = Nothing
  /\ mail' = [mail EXCEPT ![c] = [op |-> op, user |-> u, ok |-> ok]]
  /\ UNCHANGED <<userVars, answer, reply, sweepVars, up>>

Goto(c, place) == pc' = [pc EXCEPT ![c] = place]

\* (1) and (2) of the menu keep the name before anybody has said it is right.
Register(c, u) ==
  /\ pc[c] = "menu"
  /\ SendRequest(c, "REGISTER", u, TRUE)
  /\ name' = [name EXCEPT ![c] = u]
  /\ Goto(c, "asked")

LogIn(c, u, right) ==
  /\ pc[c] = "menu"
  /\ SendRequest(c, "LOGIN", u, right)
  /\ name' = [name EXCEPT ![c] = u]
  /\ Goto(c, "asked")

\* Any command of the shell that waits for its answer.
Command(c) ==
  /\ pc[c] = "shell"
  /\ SendRequest(c, "COMMAND", NoUser, TRUE)
  /\ Goto(c, "busy")
  /\ UNCHANGED name

\* Back to the menu without waiting, and with the name kept.
LogOutCommand(c) ==
  /\ pc[c] = "shell"
  /\ SendRequest(c, "LOGOUT", name[c], TRUE)
  /\ Goto(c, "menu")
  /\ UNCHANGED name

\* (3) of the menu.
Quit(c) ==
  /\ pc[c] = "menu"
  /\ Goto(c, "left")
  /\ UNCHANGED <<userVars, name, channelVars, sweepVars, up>>

\* Mutant: the client leaves without a word.
Interrupt_Silently(c) ==
  /\ pc[c] \notin Gone
  /\ Goto(c, "left")
  /\ UNCHANGED <<userVars, name, channelVars, sweepVars, up>>

\* SIGINT or SIGTSTP, wherever the user is: logs out whoever the name says.
Interrupt(c) ==
  /\ pc[c] \notin Gone
  /\ Goto(c, "left")
  /\ UNCHANGED name
  /\ \/ name[c] # NoUser /\ SendRequest(c, "LOGOUT", name[c], TRUE)
     \/ name[c] = NoUser /\ UNCHANGED <<userVars, channelVars, sweepVars, up>>

\* The terminal is closed.
Kill(c) ==
  /\ pc[c] \notin Gone
  /\ Goto(c, "killed")
  /\ UNCHANGED <<userVars, name, channelVars, sweepVars, up>>

\* The receiver reads a packet and wakes the shell if it waits for it.  On a
\* TIMEOUT it calls logout, but with its own copy of name, which is empty.
Receive(c) ==
  /\ pc[c] \notin Gone
  /\ reply[c] # Nothing
  /\ reply' = [reply EXCEPT ![c] = Nothing]
  /\ \/ reply[c].op \in {"REGISTER", "LOGIN"} /\ Goto(c, IF reply[c].ok THEN "shell" ELSE "menu")
     \/ reply[c].op = "COMMAND" /\ Goto(c, "shell")
     \/ reply[c].op = "LOGOUT" /\ UNCHANGED pc
     \/ reply[c].op = "TIMEOUT" /\ Goto(c, "expired")
  /\ UNCHANGED <<userVars, name, mail, answer, sweepVars, up>>

-----------------------------------------------------------------------------
(* The server of a client: each handler runs under saveMutex.              *)

\* Mutant: signUp leaves the flag alone.
SignUp_NotConnected(u) ==
  /\ registered' = registered \cup {u}
  /\ UNCHANGED isConnected

SignUp(u) ==
  /\ registered' = registered \cup {u}
  /\ isConnected' = isConnected \cup {u}

\* Mutant: login does not look whether there is such a user.
MayLogIn_Unknown(u, right) == u \notin isConnected /\ right

MayLogIn(u, right) == u \in registered /\ u \notin isConnected /\ right

\* What the handler of a message does, and whether it answers 0.
Handle(c, m, ok) ==
  \/ /\ m.op = "REGISTER" /\ m.user \notin registered /\ ok = TRUE
     /\ SignUp(m.user)
     /\ granted' = [granted EXCEPT ![c] = m.user]
     /\ UNCHANGED evicted
  \/ /\ m.op = "LOGIN" /\ MayLogIn(m.user, m.ok) /\ ok = TRUE
     /\ isConnected' = isConnected \cup {m.user}
     /\ granted' = [granted EXCEPT ![c] = m.user]
     /\ UNCHANGED <<registered, evicted>>
  \/ /\ \/ m.op = "REGISTER" /\ m.user \in registered
        \/ m.op = "LOGIN" /\ ~ MayLogIn(m.user, m.ok)
     /\ ok = FALSE
     /\ UNCHANGED userVars
  \/ /\ m.op = "LOGOUT" /\ ok = TRUE
     /\ isConnected' = isConnected \ {m.user}
     /\ granted' = [granted EXCEPT ![c] = IF @ = m.user THEN NoUser ELSE @]
     /\ evicted' = IF granted[c] # m.user /\ m.user \in isConnected
                     THEN evicted \cup {m.user} ELSE evicted
     /\ UNCHANGED registered
  \/ m.op = "COMMAND" /\ ok = TRUE /\ UNCHANGED userVars

\* miniServer receives a packet and calls its handler ...
Serve(c) ==
  /\ up
  /\ ~ expired[c] /\ mail[c] # Nothing /\ answer[c] = Nothing
  /\ heard' = [heard EXCEPT ![c] = TRUE]
  /\ mail' = [mail EXCEPT ![c] = Nothing]
  /\ \E ok \in BOOLEAN :
       /\ Handle(c, mail[c], ok)
       /\ answer' = [answer EXCEPT ![c] = [mail[c] EXCEPT !.ok = ok]]
  /\ UNCHANGED <<clientVars, reply, expired, at, ending, up>>

\* ... and sends the answer once the last one is read.
SendAnswer(c) ==
  /\ up
  /\ ~ expired[c] /\ answer[c] # Nothing /\ reply[c] = Nothing
  /\ reply' = [reply EXCEPT ![c] = answer[c]]
  /\ answer' = [answer EXCEPT ![c] = Nothing]
  /\ UNCHANGED <<userVars, clientVars, mail, sweepVars, up>>

-----------------------------------------------------------------------------
(* The timeout thread.                                                     *)

\* On to the next entry; after the last one it copies TOArray and sleeps.
NextEntry ==
  /\ at' = at + 1
  /\ heard' = IF at + 1 = NClients THEN [c \in Clients |-> FALSE] ELSE heard

WakeUp ==
  /\ up
  /\ at = NClients
  /\ at' = 0
  /\ UNCHANGED <<userVars, clientVars, channelVars, heard, expired, ending, up>>

\* Mutant: the loop stays at an entry that is -1.
Check_StaysAtExpired ==
  /\ up
  /\ at \in Clients /\ ~ ending
  /\ \/ heard[at] /\ NextEntry /\ UNCHANGED ending
     \/ ~ heard[at] /\ ~ expired[at] /\ ending' = TRUE /\ UNCHANGED <<at, heard>>
     \/ ~ heard[at] /\ expired[at] /\ UNCHANGED <<at, heard, ending>>
  /\ UNCHANGED <<userVars, clientVars, channelVars, expired, up>>

\* An entry that has not changed since it was copied.
Check ==
  /\ up
  /\ at \in Clients /\ ~ ending
  /\ \/ (heard[at] \/ expired[at]) /\ NextEntry /\ UNCHANGED ending
     \/ ~ heard[at] /\ ~ expired[at] /\ ending' = TRUE /\ UNCHANGED <<at, heard>>
  /\ UNCHANGED <<userVars, clientVars, channelVars, expired, up>>

\* Mutant: the connection ends without a TIMEOUT.
EndConnection_Silently ==
  /\ up
  /\ ending
  /\ \/ /\ answer' = [answer EXCEPT ![at] = Nothing]
        /\ expired' = [expired EXCEPT ![at] = TRUE]
        /\ ending' = FALSE
        /\ NextEntry
        /\ UNCHANGED <<reply, up>>
     \/ up' = FALSE /\ UNCHANGED <<reply, answer, expired, ending, at, heard>>
  /\ UNCHANGED <<userVars, clientVars, mail>>

\* It jumps into the miniServer's environment, which is undefined in another
\* thread, sends TIMEOUT from there and cancels the miniServer; or the process
\* crashes on a stack that two threads use, or in the channel one of them has
\* destroyed.  Whatever the miniServer has received since goes unanswered.
EndConnection ==
  /\ up
  /\ ending
  /\ \/ /\ reply[at] = Nothing
        /\ reply' = [reply EXCEPT ![at] = [op |-> "TIMEOUT", user |-> NoUser, ok |-> TRUE]]
        /\ answer' = [answer EXCEPT ![at] = Nothing]
        /\ expired' = [expired EXCEPT ![at] = TRUE]
        /\ ending' = FALSE
        /\ NextEntry
        /\ UNCHANGED up
     \/ up' = FALSE /\ UNCHANGED <<reply, answer, expired, ending, at, heard>>
  /\ UNCHANGED <<userVars, clientVars, mail>>

-----------------------------------------------------------------------------
Next ==
  \/ \E c \in Clients :
       \/ \E u \in Users : Register(c, u) \/ \E right \in BOOLEAN : LogIn(c, u, right)
       \/ Command(c) \/ LogOutCommand(c)
       \/ Quit(c) \/ Interrupt(c) \/ Kill(c)
       \/ Receive(c)
       \/ Serve(c) \/ SendAnswer(c)
  \/ WakeUp \/ Check \/ EndConnection

Spec == Init /\ [][Next]_vars

\* Threads and receivers go on when they are not waiting for a buffer; a minute
\* passes; nothing is assumed of the users.
FairSpec ==
  /\ Spec
  /\ \A c \in Clients : WF_vars(Receive(c)) /\ WF_vars(Serve(c)) /\ WF_vars(SendAnswer(c))
  /\ WF_vars(WakeUp \/ Check \/ EndConnection)

-----------------------------------------------------------------------------
(* Properties.                                                             *)

InSession(c, u) == pc[c] \in {"shell", "busy"} /\ name[c] = u

\* Nobody is in the shell twice, and who is there has his flag set, unless a
\* client that keeps the name of a login that failed, or of an earlier session,
\* was interrupted and logged him out.
OneSession ==
  \A u \in Users \ evicted :
    \A c1, c2 \in Clients :
      InSession(c1, u) => /\ u \in isConnected
                          /\ InSession(c2, u) => c1 = c2

\* A user nobody can log in as has the client that was let in as him: in the
\* shell or waiting for the answer, with its LOGOUT on the way, or ended in one
\* of the two ways that send none, which leave him connected for good.
ConnectedHasClient ==
  \A u \in isConnected : \E c \in Clients :
    /\ granted[c] = u
    /\ \/ name[c] = u /\ pc[c] \in {"asked", "shell", "busy", "killed"}
       \/ mail[c].op = "LOGOUT" /\ mail[c].user = u
       \/ expired[c]

\* A client that waits in the menu or the shell is answered, or told that its
\* connection has expired, also if it asks while the timeout thread ends it.
EveryoneIsAnswered ==
  \A c \in Clients : pc[c] \in {"asked", "busy"} ~> (pc[c] \notin {"asked", "busy"} \/ ~ up)

\* The timeout thread gets through its sweeps unless it waits for the buffer of
\* a client that has gone without reading its last answer.
SweepsGoOn ==
  (at \in Clients)
    ~> (at = NClients \/ ~ up \/ \E c \in Clients : pc[c] \in Gone /\ reply[c] # Nothing)

=============================================================================

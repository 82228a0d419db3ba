--------------------------- MODULE SessionsProofs ---------------------------
(***************************************************************************)
(* Sessions for any number of clients and users: nobody has two sessions   *)
(* unless he was evicted, and who is connected has the client that was let *)
(* in as him.                                                              *)
(***************************************************************************)
EXTENDS Sessions, TLAPS

\* Requests a client waits for the answer of.
Asks     == {"REGISTER", "LOGIN"}
Requests == Asks \cup {"COMMAND"}

\* One request of a client is on the way at a time.
OneRequest(c) ==
  /\ mail[c].op \in Requests => answer[c].op \notin Requests /\ reply[c].op \notin Requests
  /\ answer[c].op \in Requests => reply[c].op \notin Requests

\* The one its user waits for; a LOGOUT may be behind it, and before it in the
\* menu.
Awaited(c) ==
  /\ pc[c] = "menu" => /\ mail[c].op \in {"NOTHING", "LOGOUT"}
                       /\ answer[c].op \notin Requests /\ reply[c].op \notin Requests
  /\ pc[c] = "shell" => /\ mail[c].op = "NOTHING"
                        /\ answer[c].op \notin Requests /\ reply[c].op \notin Requests
  /\ pc[c] = "asked" => /\ mail[c].op \in Asks \cup {"NOTHING"}
                        /\ answer[c].op # "COMMAND" /\ reply[c].op # "COMMAND"
  /\ pc[c] = "busy" => /\ mail[c].op \in {"COMMAND", "NOTHING"}
                       /\ answer[c].op \notin Asks /\ reply[c].op \notin Asks

\* An answer the user has not seen yet says whether he was let in.
Told(c, m) ==
  pc[c] = "asked" /\ m.op \in Asks =>
    /\ m.ok => granted[c] = name[c]
    /\ ~ m.ok => granted[c] = NoUser \/ expired[c]

\* Whom the server takes the client for.
Known(c) ==
  /\ pc[c] \in {"shell", "busy"} => granted[c] = name[c]
  /\ Told(c, answer[c]) /\ Told(c, reply[c])
  /\ pc[c] = "menu" => \/ granted[c] = NoUser
                       \/ expired[c]
                       \/ mail[c].op = "LOGOUT" /\ mail[c].user = granted[c]
  /\ mail[c].op \in Asks => /\ mail[c].user = name[c] /\ name[c] \in Users
                            /\ \/ expired[c]
                               \/ pc[c] \in {"asked", "killed"} /\ granted[c] = NoUser

\* Only the timeout thread says TIMEOUT.
Expiry(c) ==
  /\ mail[c].op # "TIMEOUT" /\ answer[c].op # "TIMEOUT"
  /\ reply[c].op = "TIMEOUT" \/ pc[c] = "expired" => expired[c]

ClientInvariant(c) == OneRequest(c) /\ Awaited(c) /\ Known(c) /\ Expiry(c)

\* A user who has not been evicted was let in by one client, and is connected.
OneGrant ==
  \A u \in Users \ evicted : \A c \in Clients :
    granted[c] = u => /\ u \in isConnected
                      /\ \A d \in Clients : granted[d] = u => d = c

SessionsInvariant ==
  /\ SessionsTypeOK
  /\ ending => at \in Clients
  /\ \A c \in Clients : ClientInvariant(c)
  /\ OneGrant
  /\ ConnectedHasClient

-----------------------------------------------------------------------------
(* Types.                                                                  *)

LEMMA EmptyBuffer ==
  ASSUME SessionsTypeOK, NEW c \in Clients
  PROVE  /\ (mail[c] = Nothing) = (mail[c].op = "NOTHING")
         /\ (answer[c] = Nothing) = (answer[c].op = "NOTHING")
         /\ (reply[c] = Nothing) = (reply[c].op = "NOTHING")
<1>1. \A m \in Message \cup {Nothing} : (m = Nothing) = (m.op = "NOTHING")
  BY DEF Message, Nothing
<1>2. /\ mail[c] \in Message \cup {Nothing}
      /\ answer[c] \in Message \cup {Nothing}
      /\ reply[c] \in Message \cup {Nothing}
  BY DEF SessionsTypeOK
<1> QED
  BY <1>1, <1>2

\* What a client puts into the buffer is a message.
LEMMA RequestType ==
  ASSUME SessionsTypeOK, NEW c \in Clients, NEW op \in {"REGISTER", "LOGIN", "LOGOUT", "COMMAND"},
         NEW u \in Users \cup {NoUser}, NEW ok \in BOOLEAN, SendRequest(c, op, u, ok)
  PROVE  mail' \in [Clients -> Message \cup {Nothing}]
<1>1. [op |-> op, user |-> u, ok |-> ok] \in Message
  BY DEF Message
<1> QED
  BY <1>1 DEF SendRequest, SessionsTypeOK

LEMMA EntryType ==
  ASSUME SessionsTypeOK, at \in Clients, NextEntry
  PROVE  at' \in 0 .. NClients /\ heard' \in [Clients -> BOOLEAN]
  BY ClientAssumption DEF NextEntry, Clients, SessionsTypeOK

LEMMA HandleType ==
  ASSUME SessionsTypeOK, NEW c \in Clients, NEW m \in Message, NEW ok \in BOOLEAN,
         m.op \in Asks => m.user \in Users, Handle(c, m, ok)
  PROVE  /\ registered' \subseteq Users /\ isConnected' \subseteq registered'
         /\ granted' \in [Clients -> Users \cup {NoUser}] /\ evicted' \subseteq Users
<1>1. m.user \in Users \cup {NoUser}
  BY DEF Message
<1>2. CASE m.op = "REGISTER" /\ SignUp(m.user) /\ UNCHANGED evicted
           /\ granted' = [granted EXCEPT ![c] = m.user]
  BY <1>1, <1>2 DEF SignUp, SessionsTypeOK, Asks
<1>3. CASE m.op = "LOGIN" /\ MayLogIn(m.user, m.ok) /\ isConnected' = isConnected \cup {m.user}
           /\ granted' = [granted EXCEPT ![c] = m.user] /\ UNCHANGED <<registered, evicted>>
  BY <1>1, <1>3 DEF MayLogIn, SessionsTypeOK, Asks
<1>4. CASE UNCHANGED userVars
  BY <1>4 DEF userVars, SessionsTypeOK
<1>5. CASE /\ isConnected' = isConnected \ {m.user}
           /\ granted' = [granted EXCEPT ![c] = IF @ = m.user THEN NoUser ELSE @]
           /\ evicted' = IF granted[c] # m.user /\ m.user \in isConnected
                           THEN evicted \cup {m.user} ELSE evicted
           /\ UNCHANGED registered
  BY <1>1, <1>5 DEF SessionsTypeOK
<1> QED
  BY <1>2, <1>3, <1>4, <1>5 DEF Handle

LEMMA TypeStep == SessionsInvariant /\ [Next]_vars => SessionsTypeOK' /\ (ending => at \in Clients)'
<1> SUFFICES ASSUME SessionsInvariant, [Next]_vars
             PROVE  SessionsTypeOK' /\ (ending => at \in Clients)'
  OBVIOUS
<1> USE DEF SessionsInvariant, userVars, clientVars, channelVars, sweepVars
<1>1. ASSUME NEW c \in Clients, NEW u \in Users, NEW right \in BOOLEAN,
             Register(c, u) \/ LogIn(c, u, right)
      PROVE  SessionsTypeOK' /\ (ending => at \in Clients)'
  <2>1. mail' \in [Clients -> Message \cup {Nothing}]
    BY <1>1, RequestType DEF Register, LogIn
  <2> QED
    BY <1>1, <2>1 DEF Register, LogIn, SendRequest, Goto, SessionsTypeOK
<1>2. ASSUME NEW c \in Clients, Command(c) \/ LogOutCommand(c)
      PROVE  SessionsTypeOK' /\ (ending => at \in Clients)'
  <2>1. mail' \in [Clients -> Message \cup {Nothing}]
    BY <1>2, RequestType DEF Command, LogOutCommand, SessionsTypeOK
  <2> QED
    BY <1>2, <2>1 DEF Command, LogOutCommand, SendRequest, Goto, SessionsTypeOK
<1>3. ASSUME NEW c \in Clients, Quit(c) \/ Kill(c)
      PROVE  SessionsTypeOK' /\ (ending => at \in Clients)'
  BY <1>3 DEF Quit, Kill, Goto, Gone, SessionsTypeOK
<1>4. ASSUME NEW c \in Clients, Interrupt(c)
      PROVE  SessionsTypeOK' /\ (ending => at \in Clients)'
  <2>1. mail' \in [Clients -> Message \cup {Nothing}]
    BY <1>4, RequestType DEF Interrupt, SessionsTypeOK
  <2>2. pc' \in [Clients -> {"menu", "asked", "shell", "busy"} \cup Gone]
    BY <1>4 DEF Interrupt, Goto, Gone, SessionsTypeOK
  <2>3. UNCHANGED <<userVars, name, answer, reply, sweepVars, up>>
    BY <1>4 DEF Interrupt, SendRequest
  <2> QED
    BY <2>1, <2>2, <2>3 DEF SessionsTypeOK
<1>5. ASSUME NEW c \in Clients, Receive(c)
      PROVE  SessionsTypeOK' /\ (ending => at \in Clients)'
  <2>1. reply' \in [Clients -> Message \cup {Nothing}]
    BY <1>5 DEF Receive, SessionsTypeOK
  <2>2. pc' \in [Clients -> {"menu", "asked", "shell", "busy"} \cup Gone]
    BY <1>5 DEF Receive, Goto, Gone, SessionsTypeOK
  <2> QED
    BY <1>5, <2>1, <2>2 DEF Receive, SessionsTypeOK
<1>6. ASSUME NEW c \in Clients, Serve(c)
      PROVE  SessionsTypeOK' /\ (ending => at \in Clients)'
  <2>1. mail[c] \in Message /\ (mail[c].op \in Asks => mail[c].user \in Users)
    BY <1>6 DEF Serve, SessionsTypeOK, ClientInvariant, Known
  <2>2. PICK ok \in BOOLEAN : /\ Handle(c, mail[c], ok)
                              /\ answer' = [answer EXCEPT ![c] = [mail[c] EXCEPT !.ok = ok]]
    BY <1>6 DEF Serve
  <2>3. [mail[c] EXCEPT !.ok = ok] \in Message
    BY <2>1 DEF Message
  <2>4. answer' \in [Clients -> Message \cup {Nothing}]
    BY <2>2, <2>3 DEF SessionsTypeOK
  <2>5. /\ registered' \subseteq Users /\ isConnected' \subseteq registered'
        /\ granted' \in [Clients -> Users \cup {NoUser}] /\ evicted' \subseteq Users
    BY <2>1, <2>2, HandleType
  <2> QED
    BY <1>6, <2>4, <2>5 DEF Serve, SessionsTypeOK
<1>7. ASSUME NEW c \in Clients, SendAnswer(c)
      PROVE  SessionsTypeOK' /\ (ending => at \in Clients)'
  BY <1>7 DEF SendAnswer, SessionsTypeOK
<1>8. CASE WakeUp
  <2>1. 0 \in 0 .. NClients
    BY ClientAssumption
  <2>2. ~ ending
    BY <1>8 DEF WakeUp, Clients
  <2> QED
    BY <1>8, <2>1, <2>2 DEF WakeUp, SessionsTypeOK
<1>9. CASE Check
  <2>1. UNCHANGED <<userVars, clientVars, channelVars, expired, up>>
    BY <1>9 DEF Check
  <2>2. CASE NextEntry /\ UNCHANGED ending /\ ~ ending
    <3>1. at' \in 0 .. NClients /\ heard' \in [Clients -> BOOLEAN]
      BY <1>9, <2>2, EntryType DEF Check
    <3> QED
      BY <2>1, <2>2, <3>1 DEF SessionsTypeOK
  <2>3. CASE ending' = TRUE /\ UNCHANGED <<at, heard>>
    <3>1. at' \in Clients
      BY <1>9, <2>3 DEF Check
    <3> QED
      BY <2>1, <2>3, <3>1 DEF SessionsTypeOK
  <2> QED
    BY <1>9, <2>2, <2>3 DEF Check
<1>10. CASE EndConnection
  <2>1. [op |-> "TIMEOUT", user |-> NoUser, ok |-> TRUE] \in Message
    BY DEF Message
  <2> QED
    BY <1>10, <2>1, EntryType DEF EndConnection, SessionsTypeOK
<1>11. CASE UNCHANGED vars
  BY <1>11 DEF vars, SessionsTypeOK
<1> QED
  BY <1>1, <1>2, <1>3, <1>4, <1>5, <1>6, <1>7, <1>8, <1>9, <1>10, <1>11 DEF Next

-----------------------------------------------------------------------------
(* The clients.                                                            *)

\* What ConnectedHasClient asks of a client.
Stands(c, u) ==
  /\ granted[c] = u
  /\ \/ name[c] = u /\ pc[c] \in {"asked", "shell", "busy", "killed"}
     \/ mail[c].op = "LOGOUT" /\ mail[c].user = u
     \/ expired[c]

Rest == (\A c \in Clients : ClientInvariant(c)) /\ OneGrant /\ ConnectedHasClient

\* A client nothing has happened to, but that it may have expired.
LEMMA Untouched ==
  ASSUME NEW c \in Clients, ClientInvariant(c),
         pc'[c] = pc[c], name'[c] = name[c], granted'[c] = granted[c],
         mail'[c] = mail[c], answer'[c] = answer[c], reply'[c] = reply[c],
         expired[c] => expired'[c]
  PROVE  ClientInvariant(c)' /\ \A u \in Users : Stands(c, u) => Stands(c, u)'
<1>1. OneRequest(c)' /\ Awaited(c)'
  BY DEF ClientInvariant, OneRequest, Awaited
<1>2. Known(c)' /\ Expiry(c)'
  BY DEF ClientInvariant, Known, Told, Expiry
<1>3. \A u \in Users : Stands(c, u) => Stands(c, u)'
  BY DEF Stands
<1> QED
  BY <1>1, <1>2, <1>3 DEF ClientInvariant

\* A step of one client that leaves the users alone.
LEMMA LocalStep ==
  ASSUME SessionsInvariant, NEW c \in Clients, UNCHANGED userVars,
         \A d \in Clients \ {c} :
           /\ pc'[d] = pc[d] /\ name'[d] = name[d]
           /\ mail'[d] = mail[d] /\ answer'[d] = answer[d] /\ reply'[d] = reply[d]
           /\ expired'[d] = expired[d],
         ClientInvariant(c)', \A u \in Users : Stands(c, u) => Stands(c, u)'
  PROVE  Rest'
<1> USE DEF SessionsInvariant, userVars
<1>1. \A d \in Clients \ {c} :
        ClientInvariant(d)' /\ \A u \in Users : Stands(d, u) => Stands(d, u)'
  BY Untouched
<1>2. \A d \in Clients : ClientInvariant(d)'
  BY <1>1
<1>3. OneGrant'
  BY DEF OneGrant
<1>4. ConnectedHasClient'
  <2>1. \A u \in isConnected : \E d \in Clients : Stands(d, u)
    BY DEF ConnectedHasClient, Stands
  <2>2. \A u \in isConnected : \E d \in Clients : Stands(d, u)'
    BY <1>1, <2>1 DEF SessionsTypeOK
  <2> QED
    BY <2>2 DEF ConnectedHasClient, Stands
<1> QED
  BY <1>2, <1>3, <1>4 DEF Rest

\* Something is sent only through an empty buffer.
LEMMA SendStep ==
  ASSUME SessionsInvariant, NEW c \in Clients, NEW op, NEW u, NEW ok,
         SendRequest(c, op, u, ok)
  PROVE  /\ mail[c].op = "NOTHING"
         /\ mail'[c].op = op /\ mail'[c].user = u
         /\ \A d \in Clients \ {c} : mail'[d] = mail[d]
         /\ UNCHANGED <<userVars, answer, reply, expired>>
<1>1. mail[c].op = "NOTHING"
  BY EmptyBuffer DEF SendRequest, SessionsInvariant
<1> QED
  BY <1>1 DEF SendRequest, SessionsInvariant, SessionsTypeOK, sweepVars

LEMMA GotoStep ==
  ASSUME SessionsTypeOK, NEW c \in Clients, NEW place, Goto(c, place)
  PROVE  pc'[c] = place /\ \A d \in Clients \ {c} : pc'[d] = pc[d]
  BY DEF Goto, SessionsTypeOK

LEMMA AskStep ==
  ASSUME SessionsInvariant, NEW c \in Clients, NEW u \in Users, NEW right \in BOOLEAN,
         Register(c, u) \/ LogIn(c, u, right)
  PROVE  Rest'
<1> DEFINE op == mail'[c].op
<1>1. /\ mail[c].op = "NOTHING" /\ op \in Asks /\ mail'[c].user = u
      /\ \A d \in Clients \ {c} : mail'[d] = mail[d]
      /\ UNCHANGED <<userVars, answer, reply, expired>>
  BY SendStep DEF Register, LogIn, Asks
<1>2. /\ pc[c] = "menu" /\ pc'[c] = "asked" /\ name'[c] = u
      /\ \A d \in Clients \ {c} : pc'[d] = pc[d] /\ name'[d] = name[d]
  BY GotoStep DEF Register, LogIn, SessionsInvariant, SessionsTypeOK
<1>3. ClientInvariant(c)
  BY DEF SessionsInvariant
<1> USE DEF userVars
<1>4. OneRequest(c)' /\ Awaited(c)' /\ Expiry(c)'
  BY <1>1, <1>2, <1>3 DEF ClientInvariant, OneRequest, Awaited, Expiry, Requests, Asks
<1>5. Known(c)'
  BY <1>1, <1>2, <1>3 DEF ClientInvariant, Known, Told, Awaited, Requests, Asks
<1>6. \A v \in Users : Stands(c, v) => Stands(c, v)'
  BY <1>1, <1>2 DEF Stands
<1> QED
  BY <1>1, <1>2, <1>4, <1>5, <1>6, LocalStep DEF ClientInvariant

LEMMA CommandStep ==
  ASSUME SessionsInvariant, NEW c \in Clients, Command(c)
  PROVE  Rest'
<1>1. /\ mail[c].op = "NOTHING" /\ mail'[c].op = "COMMAND"
      /\ \A d \in Clients \ {c} : mail'[d] = mail[d]
      /\ UNCHANGED <<userVars, answer, reply, expired, name>>
  BY SendStep DEF Command
<1>2. pc[c] = "shell" /\ pc'[c] = "busy" /\ \A d \in Clients \ {c} : pc'[d] = pc[d]
  BY GotoStep DEF Command, SessionsInvariant
<1>3. ClientInvariant(c)
  BY DEF SessionsInvariant
<1> USE DEF userVars
<1>4. OneRequest(c)' /\ Awaited(c)' /\ Expiry(c)'
  BY <1>1, <1>2, <1>3 DEF ClientInvariant, OneRequest, Awaited, Expiry, Requests, Asks
<1>5. Known(c)'
  BY <1>1, <1>2, <1>3 DEF ClientInvariant, Known, Told, Awaited, Requests, Asks
<1>6. \A v \in Users : Stands(c, v) => Stands(c, v)'
  BY <1>1, <1>2 DEF Stands
<1> QED
  BY <1>1, <1>2, <1>4, <1>5, <1>6, LocalStep DEF ClientInvariant

LEMMA LogOutStep ==
  ASSUME SessionsInvariant, NEW c \in Clients, LogOutCommand(c)
  PROVE  Rest'
<1>1. /\ mail[c].op = "NOTHING" /\ mail'[c].op = "LOGOUT" /\ mail'[c].user = name[c]
      /\ \A d \in Clients \ {c} : mail'[d] = mail[d]
      /\ UNCHANGED <<userVars, answer, reply, expired, name>>
  BY SendStep DEF LogOutCommand
<1>2. pc[c] = "shell" /\ pc'[c] = "menu" /\ \A d \in Clients \ {c} : pc'[d] = pc[d]
  BY GotoStep DEF LogOutCommand, SessionsInvariant
<1>3. ClientInvariant(c)
  BY DEF SessionsInvariant
<1> USE DEF userVars
<1>4. OneRequest(c)' /\ Awaited(c)' /\ Expiry(c)'
  BY <1>1, <1>2, <1>3 DEF ClientInvariant, OneRequest, Awaited, Expiry, Requests, Asks
<1>5. Known(c)'
  BY <1>1, <1>2, <1>3 DEF ClientInvariant, Known, Told, Awaited, Requests, Asks
<1>6. \A v \in Users : Stands(c, v) => Stands(c, v)'
  BY <1>1, <1>2 DEF Stands
<1> QED
  BY <1>1, <1>2, <1>4, <1>5, <1>6, LocalStep DEF ClientInvariant

\* A client that is gone waits for nothing; it was let in as nobody, its LOGOUT
\* is on the way, or it was killed.
LEMMA LeaveStep ==
  ASSUME SessionsInvariant, NEW c \in Clients, Quit(c) \/ Interrupt(c) \/ Kill(c)
  PROVE  Rest'
<1> USE DEF userVars
<1>1. /\ pc[c] \notin Gone /\ pc'[c] \in Gone /\ pc'[c] # "expired"
      /\ \A d \in Clients \ {c} : pc'[d] = pc[d]
  <2>1. PICK place \in Gone \ {"expired"} : Goto(c, place)
    BY DEF Quit, Interrupt, Kill, Gone
  <2>2. pc[c] \notin Gone
    BY DEF Quit, Interrupt, Kill, Gone
  <2> QED
    BY <2>1, <2>2, GotoStep DEF SessionsInvariant
<1>2. /\ \A d \in Clients \ {c} : mail'[d] = mail[d]
      /\ UNCHANGED <<userVars, answer, reply, expired, name>>
  BY SendStep DEF Quit, Interrupt, Kill, channelVars, sweepVars
<1>3. ClientInvariant(c)
  BY DEF SessionsInvariant
<1>4. /\ mail'[c] # mail[c] => /\ mail[c].op = "NOTHING" /\ mail'[c].op = "LOGOUT"
                               /\ mail'[c].user = name[c]
      /\ mail'[c] = mail[c] => \/ pc[c] = "menu"
                               \/ pc'[c] = "killed"
                               \/ name[c] = NoUser
  <2>1. CASE Quit(c)
    BY <2>1 DEF Quit, channelVars
  <2>2. CASE Kill(c)
    <3>1. Goto(c, "killed") /\ UNCHANGED mail
      BY <2>2 DEF Kill, channelVars
    <3> QED
      BY <3>1, GotoStep DEF SessionsInvariant
  <2>3. CASE name[c] # NoUser /\ SendRequest(c, "LOGOUT", name[c], TRUE)
    BY <2>3, SendStep, ZenonT(30)
  <2>4. CASE name[c] = NoUser /\ UNCHANGED mail
    BY <2>4
  <2> QED
    BY <2>1, <2>2, <2>3, <2>4 DEF Interrupt, channelVars
<1>5. OneRequest(c)' /\ Awaited(c)' /\ Expiry(c)'
  BY <1>1, <1>2, <1>3, <1>4 DEF ClientInvariant, OneRequest, Awaited, Expiry, Requests, Asks, Gone
<1>6. Known(c)'
  BY <1>1, <1>2, <1>3, <1>4, ClientAssumption
  DEF ClientInvariant, Known, Told, Awaited, Requests, Asks, Gone
<1>7. \A v \in Users : Stands(c, v) => Stands(c, v)'
  BY <1>1, <1>2, <1>4, ClientAssumption DEF Stands, Gone
<1> QED
  BY <1>1, <1>2, <1>5, <1>6, <1>7, LocalStep DEF ClientInvariant

\* The client reads an answer; the timeout thread's is the last one.
LEMMA ReceiveStep ==
  ASSUME SessionsInvariant, NEW c \in Clients, Receive(c)
  PROVE  Rest'
<1> USE DEF userVars
<1>1. /\ reply'[c].op = "NOTHING" /\ \A d \in Clients \ {c} : reply'[d] = reply[d]
      /\ UNCHANGED <<userVars, name, mail, answer, expired>>
  BY DEF Receive, SessionsInvariant, SessionsTypeOK, Nothing, sweepVars
<1>2. /\ \A d \in Clients \ {c} : pc'[d] = pc[d]
      /\ pc[c] \notin Gone
      /\ \/ reply[c].op \in Asks /\ pc'[c] = IF reply[c].ok THEN "shell" ELSE "menu"
         \/ reply[c].op = "COMMAND" /\ pc'[c] = "shell"
         \/ reply[c].op = "LOGOUT" /\ pc'[c] = pc[c]
         \/ reply[c].op = "TIMEOUT" /\ pc'[c] = "expired"
  <2>1. CASE reply[c].op \in Asks /\ Goto(c, IF reply[c].ok THEN "shell" ELSE "menu")
    BY <2>1, GotoStep DEF Receive, SessionsInvariant
  <2>2. CASE reply[c].op = "COMMAND" /\ Goto(c, "shell")
    BY <2>2, GotoStep DEF Receive, SessionsInvariant
  <2>3. CASE reply[c].op = "LOGOUT" /\ UNCHANGED pc
    BY <2>3 DEF Receive
  <2>4. CASE reply[c].op = "TIMEOUT" /\ Goto(c, "expired")
    BY <2>4, GotoStep DEF Receive, SessionsInvariant
  <2> QED
    BY <2>1, <2>2, <2>3, <2>4 DEF Receive, Asks
<1>3. ClientInvariant(c) /\ pc[c] \in {"menu", "asked", "shell", "busy"} \cup Gone
  BY DEF SessionsInvariant, SessionsTypeOK
<1>4. /\ reply[c].op \in Asks => pc[c] = "asked"
      /\ reply[c].op = "COMMAND" => pc[c] = "busy"
  BY <1>2, <1>3 DEF ClientInvariant, Awaited, Requests, Asks
<1>5. OneRequest(c)' /\ Expiry(c)'
  BY <1>1, <1>2, <1>3 DEF ClientInvariant, OneRequest, Expiry, Requests, Asks
<1>6. Awaited(c)'
  BY <1>1, <1>2, <1>3, <1>4 DEF ClientInvariant, OneRequest, Awaited, Requests, Asks
<1>7. Known(c)'
  BY <1>1, <1>2, <1>3, <1>4
  DEF ClientInvariant, OneRequest, Awaited, Known, Told, Expiry, Requests, Asks
<1>8. \A v \in Users : Stands(c, v) => Stands(c, v)'
  BY <1>1, <1>2, <1>3, <1>4, ClientAssumption
  DEF Stands, ClientInvariant, Known, Told, Expiry
<1> QED
  BY <1>1, <1>2, <1>5, <1>6, <1>7, <1>8, LocalStep DEF ClientInvariant

LEMMA SendAnswerStep ==
  ASSUME SessionsInvariant, NEW c \in Clients, SendAnswer(c)
  PROVE  Rest'
<1> USE DEF userVars
<1>1. /\ answer'[c].op = "NOTHING" /\ \A d \in Clients \ {c} : answer'[d] = answer[d]
      /\ reply'[c] = answer[c] /\ \A d \in Clients \ {c} : reply'[d] = reply[d]
      /\ UNCHANGED <<userVars, pc, name, mail, expired>>
  BY DEF SendAnswer, SessionsInvariant, SessionsTypeOK, Nothing, clientVars, sweepVars
<1>2. ClientInvariant(c)
  BY DEF SessionsInvariant
<1>3. OneRequest(c)' /\ Awaited(c)' /\ Expiry(c)'
  BY <1>1, <1>2 DEF ClientInvariant, OneRequest, Awaited, Expiry, Requests, Asks
<1>4. Known(c)'
  BY <1>1, <1>2 DEF ClientInvariant, Known, Told, Requests, Asks
<1>5. \A v \in Users : Stands(c, v) => Stands(c, v)'
  BY <1>1 DEF Stands
<1> QED
  BY <1>1, <1>3, <1>4, <1>5, LocalStep DEF ClientInvariant

\* The timeout thread only ends the connection of the entry it is at.
LEMMA SweepStep ==
  ASSUME SessionsInvariant, WakeUp \/ Check \/ EndConnection \/ UNCHANGED vars
  PROVE  Rest'
<1> USE DEF userVars, clientVars, channelVars, sweepVars
<1>1. CASE UNCHANGED <<userVars, clientVars, channelVars, expired>>
  <2>1. \A d \in Clients : ClientInvariant(d)'
    BY <1>1, Untouched DEF SessionsInvariant
  <2> QED
    BY <1>1, <2>1 DEF SessionsInvariant, Rest, OneGrant, ConnectedHasClient
<1>2. CASE EndConnection
  <2>1. PICK c \in Clients : c = at
    BY <1>2 DEF EndConnection, SessionsInvariant
  <2>2. CASE UNCHANGED <<reply, answer, expired>>
    BY <1>1, <1>2, <2>2 DEF EndConnection
  <2>3. CASE /\ reply' = [reply EXCEPT ![at] = [op |-> "TIMEOUT", user |-> NoUser, ok |-> TRUE]]
             /\ answer' = [answer EXCEPT ![at] = Nothing]
             /\ expired' = [expired EXCEPT ![at] = TRUE]
    <3>1. /\ answer'[c].op = "NOTHING" /\ \A d \in Clients \ {c} : answer'[d] = answer[d]
          /\ reply'[c].op = "TIMEOUT" /\ \A d \in Clients \ {c} : reply'[d] = reply[d]
          /\ expired'[c] /\ \A d \in Clients \ {c} : expired'[d] = expired[d]
          /\ UNCHANGED <<userVars, pc, name, mail>>
      BY <1>2, <2>1, <2>3 DEF EndConnection, SessionsInvariant, SessionsTypeOK, Nothing
    <3>2. ClientInvariant(c)
      BY <2>1 DEF SessionsInvariant
    <3>3. OneRequest(c)' /\ Awaited(c)' /\ Expiry(c)'
      BY <3>1, <3>2 DEF ClientInvariant, OneRequest, Awaited, Expiry, Requests, Asks
    <3>4. Known(c)'
      BY <3>1, <3>2 DEF ClientInvariant, Known, Told, Requests, Asks
    <3>5. \A v \in Users : Stands(c, v) => Stands(c, v)'
      BY <3>1 DEF Stands
    <3> QED
      BY <2>1, <3>1, <3>3, <3>4, <3>5, LocalStep DEF ClientInvariant
  <2> QED
    BY <1>2, <2>2, <2>3 DEF EndConnection
<1> QED
  BY <1>1, <1>2 DEF WakeUp, Check, vars

-----------------------------------------------------------------------------
(* The handlers.                                                           *)

\* Serving a message changes nothing for other clients but the flags.
LEMMA ServeFacts ==
  ASSUME SessionsInvariant, NEW c \in Clients, Serve(c)
  PROVE  /\ ~ expired[c] /\ mail[c].op # "NOTHING" /\ answer[c].op = "NOTHING"
         /\ mail'[c].op = "NOTHING" /\ \A d \in Clients \ {c} : mail'[d] = mail[d]
         /\ \A d \in Clients \ {c} : answer'[d] = answer[d]
         /\ UNCHANGED <<pc, name, reply, expired>>
         /\ mail[c] \in Message
         /\ \E ok \in BOOLEAN : /\ Handle(c, mail[c], ok)
                                /\ answer'[c].op = mail[c].op /\ answer'[c].ok = ok
<1> USE DEF SessionsInvariant
<1>1. mail[c] \in Message /\ mail[c].op # "NOTHING" /\ answer[c].op = "NOTHING"
  BY EmptyBuffer DEF Serve, SessionsTypeOK
<1>2. PICK ok \in BOOLEAN : /\ Handle(c, mail[c], ok)
                            /\ answer' = [answer EXCEPT ![c] = [mail[c] EXCEPT !.ok = ok]]
  BY DEF Serve
<1>3. [mail[c] EXCEPT !.ok = ok].op = mail[c].op /\ [mail[c] EXCEPT !.ok = ok].ok = ok
  BY <1>1 DEF Message
<1>4. answer'[c].op = mail[c].op /\ answer'[c].ok = ok
  BY <1>2, <1>3 DEF SessionsTypeOK
<1>5. /\ ~ expired[c] /\ UNCHANGED <<pc, name, reply, expired>>
      /\ mail'[c].op = "NOTHING" /\ \A d \in Clients \ {c} : mail'[d] = mail[d]
  BY DEF Serve, clientVars, SessionsTypeOK, Nothing
<1>6. \A d \in Clients \ {c} : answer'[d] = answer[d]
  BY <1>2 DEF SessionsTypeOK
<1> QED
  BY <1>1, <1>2, <1>4, <1>5, <1>6

\* The user is let in.
LEMMA AdmitStep ==
  ASSUME SessionsInvariant, NEW c \in Clients, Serve(c),
         mail[c].op \in Asks, answer'[c].op = mail[c].op, answer'[c].ok = TRUE,
         mail[c].user \notin isConnected,
         isConnected' = isConnected \cup {mail[c].user},
         granted' = [granted EXCEPT ![c] = mail[c].user], evicted' = evicted
  PROVE  Rest'
<1>0. PICK u : u = mail[c].user
  OBVIOUS
<1>1. ClientInvariant(c) /\ granted \in [Clients -> Users \cup {NoUser}]
  BY DEF SessionsInvariant, SessionsTypeOK
<1>2. u = name[c] /\ u \in Users /\ pc[c] \in {"asked", "killed"} /\ granted[c] = NoUser
  BY <1>0, <1>1, ServeFacts DEF ClientInvariant, Known
<1>3. granted'[c] = u /\ \A d \in Clients \ {c} : granted'[d] = granted[d]
  BY <1>0, <1>1
<1>4. \A d \in Clients \ {c} : ClientInvariant(d)' /\ \A v \in Users : Stands(d, v) => Stands(d, v)'
  BY <1>3, ServeFacts, Untouched DEF SessionsInvariant
<1>5. OneRequest(c)' /\ Awaited(c)' /\ Expiry(c)'
  BY <1>1, <1>2, ServeFacts DEF ClientInvariant, OneRequest, Awaited, Expiry, Requests, Asks
<1>6. Known(c)'
  BY <1>1, <1>2, <1>3, ServeFacts
  DEF ClientInvariant, Known, Told, OneRequest, Requests, Asks
<1>7. OneGrant'
  <2>1. \A v \in Users \ evicted, d \in Clients :
          granted[d] = v => v \in isConnected /\ \A e \in Clients : granted[e] = v => e = d
    BY DEF SessionsInvariant, OneGrant
  <2>2. u \notin evicted => \A d \in Clients : granted[d] # u
    BY <1>0, <1>2, <2>1
  <2> QED
    BY <1>0, <1>2, <1>3, <2>1, <2>2 DEF OneGrant
<1>8. ConnectedHasClient'
  <2>1. Stands(c, u)'
    BY <1>2, <1>3, ServeFacts DEF Stands
  <2>2. ASSUME NEW v \in isConnected
        PROVE  \E d \in Clients : Stands(d, v)'
    <3>1. PICK d \in Clients : Stands(d, v)
      BY DEF SessionsInvariant, ConnectedHasClient, Stands
    <3>2. v \in Users
      BY DEF SessionsInvariant, SessionsTypeOK
    <3>3. d # c
      BY <1>2, <3>1, <3>2, ClientAssumption DEF Stands
    <3> QED
      BY <1>4, <3>1, <3>2, <3>3
  <2> QED
    BY <1>0, <2>1, <2>2 DEF ConnectedHasClient, Stands
<1> QED
  BY <1>4, <1>5, <1>6, <1>7, <1>8 DEF Rest, ClientInvariant

\* The handler leaves the users alone: a refusal or a command.
LEMMA RefuseStep ==
  ASSUME SessionsInvariant, NEW c \in Clients, Serve(c), UNCHANGED userVars,
         mail[c].op \in Requests, answer'[c].op = mail[c].op,
         mail[c].op \in Asks => answer'[c].ok = FALSE
  PROVE  Rest'
<1> USE DEF userVars
<1>1. ClientInvariant(c)
  BY DEF SessionsInvariant
<1>2. OneRequest(c)' /\ Awaited(c)' /\ Expiry(c)'
  BY <1>1, ServeFacts DEF ClientInvariant, OneRequest, Awaited, Known, Expiry, Requests, Asks
<1>3. Known(c)'
  BY <1>1, ServeFacts DEF ClientInvariant, Known, Told, OneRequest, Awaited, Requests, Asks
<1>4. \A v \in Users : Stands(c, v) => Stands(c, v)'
  BY ServeFacts DEF Stands, Requests, Asks
<1> QED
  BY <1>2, <1>3, <1>4, ServeFacts, LocalStep DEF ClientInvariant

\* logOut clears the flag, whoever it was that asked for it.
LEMMA DismissStep ==
  ASSUME SessionsInvariant, NEW c \in Clients, Serve(c),
         mail[c].op = "LOGOUT", answer'[c].op = "LOGOUT",
         isConnected' = isConnected \ {mail[c].user},
         granted' = [granted EXCEPT ![c] = IF @ = mail[c].user THEN NoUser ELSE @],
         evicted' = IF granted[c] # mail[c].user /\ mail[c].user \in isConnected
                      THEN evicted \cup {mail[c].user} ELSE evicted
  PROVE  Rest'
<1> DEFINE u == mail[c].user
<1>1. ClientInvariant(c) /\ granted \in [Clients -> Users \cup {NoUser}]
  BY DEF SessionsInvariant, SessionsTypeOK
<1>2. /\ granted'[c] = IF granted[c] = u THEN NoUser ELSE granted[c]
      /\ \A d \in Clients \ {c} : granted'[d] = granted[d]
  BY <1>1
<1>3. \A d \in Clients \ {c} : ClientInvariant(d)' /\ \A v \in Users : Stands(d, v) => Stands(d, v)'
  BY <1>2, ServeFacts, Untouched DEF SessionsInvariant
<1>4. OneRequest(c)' /\ Awaited(c)' /\ Expiry(c)'
  BY <1>1, ServeFacts DEF ClientInvariant, OneRequest, Awaited, Expiry, Requests, Asks
<1>5. pc[c] \notin {"shell", "asked", "busy"}
  BY <1>1 DEF ClientInvariant, Awaited, Asks
<1>6. Known(c)'
  BY <1>1, <1>2, <1>5, ServeFacts DEF ClientInvariant, Known, Told, Requests, Asks
<1>7. OneGrant'
  <2>1. \A v \in Users \ evicted, d \in Clients :
          granted[d] = v => v \in isConnected /\ \A e \in Clients : granted[e] = v => e = d
    BY DEF SessionsInvariant, OneGrant
  <2>2. evicted \subseteq evicted'
    OBVIOUS
  <2>3. u \in Users \ evicted' => \A d \in Clients : granted'[d] # u
    BY <1>2, <2>1, ClientAssumption
  <2>4. \A v \in Users, d \in Clients : granted'[d] = v => granted[d] = v
    BY <1>2, ClientAssumption
  <2> QED
    BY <2>1, <2>2, <2>3, <2>4 DEF OneGrant
<1>8. ConnectedHasClient'
  <2> SUFFICES ASSUME NEW v \in isConnected, v # u
               PROVE  \E d \in Clients : Stands(d, v)'
    BY DEF ConnectedHasClient, Stands
  <2>1. PICK d \in Clients : Stands(d, v)
    BY DEF SessionsInvariant, ConnectedHasClient, Stands
  <2>2. v \in Users
    BY DEF SessionsInvariant, SessionsTypeOK
  <2>3. CASE d = c
    BY <1>2, <2>1, <2>3, ServeFacts DEF Stands
  <2> QED
    BY <1>3, <2>1, <2>2, <2>3
<1> QED
  BY <1>3, <1>4, <1>6, <1>7, <1>8 DEF Rest, ClientInvariant

LEMMA ServeStep ==
  ASSUME SessionsInvariant, NEW c \in Clients, Serve(c)
  PROVE  Rest'
<1>1. PICK ok \in BOOLEAN : /\ Handle(c, mail[c], ok)
                            /\ answer'[c].op = mail[c].op /\ answer'[c].ok = ok
  BY ServeFacts
<1>2. isConnected \subseteq registered
  BY DEF SessionsInvariant, SessionsTypeOK
<1>3. CASE /\ mail[c].op = "REGISTER" /\ mail[c].user \notin registered /\ ok = TRUE
           /\ SignUp(mail[c].user)
           /\ granted' = [granted EXCEPT ![c] = mail[c].user]
           /\ UNCHANGED evicted
  BY <1>1, <1>2, <1>3, AdmitStep DEF SignUp, Asks
<1>4. CASE /\ mail[c].op = "LOGIN" /\ MayLogIn(mail[c].user, mail[c].ok) /\ ok = TRUE
           /\ isConnected' = isConnected \cup {mail[c].user}
           /\ granted' = [granted EXCEPT ![c] = mail[c].user]
           /\ UNCHANGED <<registered, evicted>>
  BY <1>1, <1>4, AdmitStep DEF MayLogIn, Asks
<1>5. CASE /\ mail[c].op \in Asks /\ ok = FALSE /\ UNCHANGED userVars
  BY <1>1, <1>5, RefuseStep DEF Requests
<1>6. CASE mail[c].op = "COMMAND" /\ UNCHANGED userVars
  BY <1>1, <1>6, RefuseStep DEF Requests, Asks
<1>7. CASE /\ mail[c].op = "LOGOUT"
           /\ isConnected' = isConnected \ {mail[c].user}
           /\ granted' = [granted EXCEPT ![c] = IF @ = mail[c].user THEN NoUser ELSE @]
           /\ evicted' = IF granted[c] # mail[c].user /\ mail[c].user \in isConnected
                           THEN evicted \cup {mail[c].user} ELSE evicted
  BY <1>1, <1>7, DismissStep
<1> QED
  BY <1>1, <1>3, <1>4, <1>5, <1>6, <1>7 DEF Handle, Asks

-----------------------------------------------------------------------------
(* The theorems.                                                           *)

LEMMA SessionsStep == SessionsInvariant /\ [Next]_vars => SessionsInvariant'
<1> SUFFICES ASSUME SessionsInvariant, [Next]_vars PROVE SessionsInvariant'
  OBVIOUS
<1>1. SessionsTypeOK' /\ (ending => at \in Clients)'
  BY TypeStep
<1>2. Rest'
  BY AskStep, CommandStep, LogOutStep, LeaveStep, ReceiveStep, ServeStep, SendAnswerStep,
     SweepStep
  DEF Next
<1> QED
  BY <1>1, <1>2 DEF SessionsInvariant, Rest

\* The parts of the invariant hold together, for any number of clients.
THEOREM SessionsInvariantHolds == Spec => []SessionsInvariant
<1>1. Init => SessionsInvariant
  <2> SUFFICES ASSUME Init PROVE SessionsInvariant
    OBVIOUS
  <2>1. SessionsTypeOK /\ ~ ending
    <3>1. NClients \in 0 .. NClients
      BY ClientAssumption
    <3> QED
      BY <3>1 DEF Init, SessionsTypeOK
  <2>2. ASSUME NEW c \in Clients PROVE ClientInvariant(c)
    BY DEF Init, Nothing, ClientInvariant, OneRequest, Awaited, Known, Told, Expiry, Requests, Asks
  <2>3. OneGrant /\ ConnectedHasClient
    BY ClientAssumption DEF Init, OneGrant, ConnectedHasClient
  <2> QED
    BY <2>1, <2>2, <2>3 DEF SessionsInvariant
<1> QED
  BY <1>1, SessionsStep, PTL DEF Spec

\* Every variable keeps its type: only users are registered, and only the
\* registered are connected, whatever the clients send.
THEOREM SessionsTypeCorrect == Spec => []SessionsTypeOK
<1>1. SessionsInvariant => SessionsTypeOK
  BY DEF SessionsInvariant
<1> QED
  BY <1>1, SessionsInvariantHolds, PTL

\* Nobody is in the shell twice, and who is there is connected, unless a client
\* that was not let in as him has logged him out: for any number of clients.
THEOREM SessionsAreSingle == Spec => []OneSession
<1>1. SessionsInvariant => OneSession
  BY DEF SessionsInvariant, ClientInvariant, Known, OneGrant, OneSession, InSession
<1> QED
  BY <1>1, SessionsInvariantHolds, PTL

\* A user nobody can log in as has the client that was let in as him, or one
\* that ended without a LOGOUT, for any number of clients.
THEOREM ConnectedUsersHaveClients == Spec => []ConnectedHasClient
<1>1. SessionsInvariant => ConnectedHasClient
  BY DEF SessionsInvariant
<1> QED
  BY <1>1, SessionsInvariantHolds, PTL

=============================================================================

------------------------------ MODULE ChatProofs ------------------------------
(* The safety of the chat server, and that it implements the room, for any   *)
(* number of clients, names, descriptors and messages.                       *)
EXTENDS ChatServer, FiniteSetTheorems, SequenceTheorems, TLAPS

\* A handler thread runs just as long as its descriptor is open; it has its
\* client's name from the JOIN on, and one thread at a time broadcasts.
Threads ==
  \A c \in Client :
    /\ h[c] \notin {"none", "done"} <=> conn[c] = "open"
    /\ conn[c] \in {"none", "backlog"} => h[c] = "none"
    /\ h[c] \in {"none", "join", "add"} => username[c] = NoName
    /\ h[c] \in {"lock", "bcast", "recv"} => username[c] # NoName
    /\ h[c] \in {"add", "lock", "bcast"} => msg[c] \in Message
    /\ h[c] = "bcast" => mutex = c
    /\ todo[c] # {} => h[c] = "bcast"

\* Whatever a thread receives is its client's, under the client's name; so is
\* the name in the node, but for its length.
OwnMessages ==
  \A c \in Client :
    /\ cl[c] # "off" => user[c] \in Name
    /\ cl[c] = "off" => /\ conn[c] = "none" /\ up[c] = << >> /\ msg[c] = NoMessage
                        /\ username[c] = NoName /\ user[c] = NoName
    /\ \A k \in DOMAIN up[c] : up[c][k].by = c /\ up[c][k].from = user[c]
    /\ msg[c] \in Message => msg[c].by = c /\ msg[c].from = user[c]
    /\ \/ username[c] \in {NoName, user[c]}
       \/ username[c] = Garbled /\ user[c] \in LongName

\* Nothing of its own is on its way to a client whose name is not too long.
NoEchoSent ==
  \A c \in Client : user[c] \notin LongName =>
    \A k \in DOMAIN down[c] : down[c][k].by # c

CInv == TypeOK /\ ListSound /\ Threads /\ OwnMessages /\ NoEchoSent /\ NoEcho

-----------------------------------------------------------------------------
(* The initial states, and lemmas that serve several steps.                 *)

LEMMA NoMessageIsNone == NoMessage \notin Message
BY DEF NoMessage, Message

LEMMA InitCInv == Init => CInv
<1> SUFFICES ASSUME Init PROVE CInv
  OBVIOUS
<1> USE ChatAssumption, NoMessageIsNone DEF Init
<1>1. TypeOK
  BY DEF TypeOK
<1>2. Listed = {} /\ Joined = {}
  BY DEF Listed, Joined
<1>3. ListSound
  BY <1>2 DEF ListSound
<1>4. Threads /\ OwnMessages
  BY DEF Threads, OwnMessages
<1>5. NoEchoSent /\ NoEcho
  BY DEF NoEchoSent, NoEcho
<1> QED
  BY <1>1, <1>3, <1>4, <1>5 DEF CInv

LEMMA OneValue ==
  ASSUME NEW S, NEW T, NEW f \in [S -> T], NEW x \in S, NEW v \in T
  PROVE  /\ [f EXCEPT ![x] = v] \in [S -> T] /\ [f EXCEPT ![x] = v][x] = v
         /\ \A y \in S : y # x => [f EXCEPT ![x] = v][y] = f[y]
OBVIOUS

\* The types of some functions, by name.
Places  == {"off", "join", "loop", "send", "leave", "closed"}
SocketEnds   == {"none", "backlog", "open", "closed"}
Phases  == {"none", "join", "add", "lock", "bcast", "recv", "remove", "close", "done"}

LEMMA Types ==
  ASSUME TypeOK
  PROVE  /\ cl \in [Client -> Places] /\ conn \in [Client -> SocketEnds] /\ h \in [Client -> Phases]
         /\ fd \in [Client -> Fd \cup {0}] /\ up \in [Client -> Seq(Message)]
         /\ down \in [Client -> Seq(Message)] /\ msg \in [Client -> Message \cup {NoMessage}]
         /\ rank \in [Client -> Nat] /\ username \in [Client -> Name \cup {NoName, Garbled}]
         /\ todo \in [Client -> SUBSET Client] /\ log \in Seq(Message)
BY DEF TypeOK, Places, SocketEnds, Phases

\* Steps that leave threads, list and descriptors alone.
LEMMA ServerRests ==
  ASSUME ListSound, Threads,
         UNCHANGED <<conn, fd, h, todo, rank, username, mutex, msg>>
  PROVE  ListSound' /\ Threads'
<1>1. Listed' = Listed /\ Joined' = Joined
  BY DEF Listed, Joined
<1>2. ListSound'
  BY <1>1 DEF ListSound
<1>3. Threads'
  BY DEF Threads
<1> QED
  BY <1>2, <1>3

\* Steps that leave the messages alone.
LEMMA MessagesRest ==
  ASSUME OwnMessages, NoEchoSent, NoEcho,
         UNCHANGED <<user, up, msg, username, down, received>>,
         \A c \in Client : /\ cl'[c] = "off" <=> cl[c] = "off"
                           /\ conn[c] = "none" => conn'[c] = "none"
  PROVE  OwnMessages' /\ NoEchoSent' /\ NoEcho'
<1>1. OwnMessages'
  BY DEF OwnMessages
<1>2. NoEchoSent' /\ NoEcho'
  BY DEF NoEchoSent, NoEcho
<1> QED
  BY <1>1, <1>2

\* A thread goes on with its node, or without one.
HasNode == {"lock", "bcast", "recv", "remove"}

LEMMA ThreadMoves ==
  ASSUME TypeOK, ListSound, NEW c \in Client,
         NEW p \in {"none", "join", "add", "lock", "bcast", "recv", "remove", "close", "done"},
         Goto(c, p), UNCHANGED <<conn, fd, rank, username>>,
         \A d \in Client : todo'[d] \subseteq Listed,
         username[c] = NoName \/ (h[c] \in HasNode <=> p \in HasNode)
  PROVE  ListSound'
<1>1. Listed' = Listed
  BY DEF Listed
<1>2. Joined' = Joined
  BY DEF Joined, Goto, HasNode, TypeOK
<1> QED
  BY <1>1, <1>2 DEF ListSound

\* The server process ends.
LEMMA EndsStep ==
  ASSUME CInv, NEW how \in {"exited", "sigpipe"}, Ends(how),
         mpc' \in {"select", "stdin", "list"}, running' \in BOOLEAN,
         UNCHANGED <<clientVars, down, username, since, log>>
  PROVE  CInv'
<1> USE ChatAssumption, NoMessageIsNone DEF CInv, Ends, clientVars
<1>1. TypeOK'
  BY DEF TypeOK
<1>2. Listed' = {} /\ Joined' = {}
  BY DEF Listed, Joined
<1>3. \A c \in Client : conn'[c] # "open" /\ todo'[c] = {}
  OBVIOUS
<1>4. ListSound'
  BY <1>2, <1>3 DEF ListSound
<1>5. Threads'
  BY DEF Threads
<1>6. OwnMessages'
  BY DEF OwnMessages
<1>7. NoEchoSent' /\ NoEcho'
  BY DEF NoEchoSent, NoEcho
<1> QED
  BY <1>1, <1>4, <1>5, <1>6, <1>7

-----------------------------------------------------------------------------
(* The client program.                                                      *)

LEMMA ConnectStep ==
  ASSUME CInv, NEW c \in Client, connect_to_server_socket(c)
  PROVE  CInv'
<1> USE ChatAssumption DEF CInv, connect_to_server_socket, threadVars, listVars, mainVars
<1>0. PICK u \in Name : user' = [user EXCEPT ![c] = u]
  OBVIOUS
<1>1. TypeOK'
  BY <1>0 DEF TypeOK
<1>2. /\ conn[c] = "none" /\ h[c] = "none" /\ up[c] = << >> /\ msg[c] = NoMessage
      /\ username[c] = NoName /\ user[c] = NoName /\ user[c] \notin LongName
  BY DEF Threads, OwnMessages
<1>3. /\ conn' = [conn EXCEPT ![c] = "backlog"] /\ conn'[c] = "backlog"
      /\ \A d \in Client : conn'[d] = "open" <=> conn[d] = "open"
      /\ \A d \in Client : d # c => conn'[d] = conn[d] /\ user'[d] = user[d] /\ cl'[d] = cl[d]
      /\ user'[c] \in Name /\ cl'[c] = "join"
  BY <1>0, <1>2 DEF TypeOK
<1>4. ListSound'
  <2>1. Listed' = Listed /\ Joined' = Joined
    BY DEF Listed, Joined
  <2> QED
    BY <1>3, <2>1 DEF ListSound
<1>5. Threads'
  BY <1>2, <1>3 DEF Threads
<1>6. OwnMessages'
  BY <1>2, <1>3, NoMessageIsNone DEF OwnMessages
<1>7. NoEchoSent' /\ NoEcho'
  BY <1>2, <1>3 DEF NoEchoSent, NoEcho
<1> QED
  BY <1>1, <1>4, <1>5, <1>6, <1>7

LEMMA SendStep ==
  ASSUME CInv, NEW c \in Client, client_join(c) \/ client_say(c) \/ client_leave(c)
  PROVE  CInv'
<1> USE ChatAssumption DEF CInv, threadVars, listVars, mainVars
<1> DEFINE m(t) == [type |-> t, from |-> user[c], by |-> c, k |-> sent[c]]
<1>1. PICK t \in {"JOIN", "BROADCAST", "LEAVE"}, next \in {"loop", "closed"} :
        client_send(c, t, next) /\ cl[c] # "off"
  BY DEF client_join, client_say, client_leave
<1>2. m(t) \in Message
  BY <1>1 DEF Message, TypeOK, OwnMessages
<1>3. /\ cl' = [cl EXCEPT ![c] = next] \/ cl' = [cl EXCEPT ![c] = "closed"]
      /\ up' = [up EXCEPT ![c] = Append(@, m(t))] \/ up' = up
      /\ UNCHANGED <<user, sent, received, conn, fd, down, threadVars, listVars, mutex,
                     mainVars, log>>
  BY <1>1 DEF client_send
<1>4. TypeOK'
  <2>1. up' \in [Client -> Seq(Message)]
    <3>1. up \in [Client -> Seq(Message)] /\ Append(up[c], m(t)) \in Seq(Message)
      BY <1>2 DEF TypeOK
    <3> HIDE DEF m
    <3> QED
      BY <1>3, <3>1
  <2>2. cl' \in [Client -> {"off", "join", "loop", "send", "leave", "closed"}]
    BY <1>3 DEF TypeOK
  <2> QED
    BY <1>3, <2>1, <2>2 DEF TypeOK
<1>5. ListSound' /\ Threads'
  BY <1>3, ServerRests
<1>6. OwnMessages'
  <2>1. \A d \in Client : cl'[d] = "off" <=> cl[d] = "off"
    BY <1>1, <1>3 DEF TypeOK
  <2>2. \A d \in Client : \A k \in DOMAIN up'[d] : up'[d][k].by = d /\ up'[d][k].from = user[d]
    <3>1. CASE up' = up
      BY <3>1 DEF OwnMessages
    <3>2. CASE up' = [up EXCEPT ![c] = Append(@, m(t))]
      <4>1. \A d \in Client : d # c => up'[d] = up[d]
        BY <3>2 DEF TypeOK
      <4>2. up[c] \in Seq(Message) /\ up'[c] = Append(up[c], m(t))
        BY <3>2 DEF TypeOK
      <4>3. \A k \in DOMAIN up'[c] : \/ up'[c][k] = m(t)
                                     \/ k \in DOMAIN up[c] /\ up'[c][k] = up[c][k]
        BY <4>2, <1>2
      <4>4. m(t).by = c /\ m(t).from = user[c]
        OBVIOUS
      <4> QED
        BY <4>1, <4>3, <4>4 DEF OwnMessages
    <3> QED
      BY <1>3, <3>1, <3>2
  <2>3. \A d \in Client : cl[d] = "off" => up'[d] = up[d]
    BY <1>1, <1>3 DEF TypeOK
  <2> QED
    BY <1>3, <2>1, <2>2, <2>3 DEF OwnMessages
<1>7. NoEchoSent' /\ NoEcho'
  BY <1>3 DEF NoEchoSent, NoEcho
<1> QED
  BY <1>4, <1>5, <1>6, <1>7

LEMMA ReceiveStep ==
  ASSUME CInv, NEW c \in Client, client_receive(c)
  PROVE  CInv'
<1> USE ChatAssumption DEF CInv, client_receive, threadVars, listVars, mainVars
<1>1. CASE down[c] # << >> /\ received' = [received EXCEPT ![c] = Append(@, Head(down[c]))]
           /\ down' = [down EXCEPT ![c] = Tail(@)] /\ cl' = cl
  <2>1. /\ received[c] \in Seq(Message) /\ down[c] \in Seq(Message)
        /\ Head(down[c]) \in Message /\ Tail(down[c]) \in Seq(Message)
        /\ Append(received[c], Head(down[c])) \in Seq(Message)
    BY <1>1 DEF TypeOK
  <2>2. TypeOK'
    BY <1>1, <2>1 DEF TypeOK
  <2>3. ListSound' /\ Threads'
    BY ServerRests
  <2>4. OwnMessages'
    BY <1>1 DEF OwnMessages
  <2>5. \A d \in Client : d # c => received'[d] = received[d] /\ down'[d] = down[d]
    BY <1>1 DEF TypeOK
  <2>6. \A k \in DOMAIN down'[c] : k + 1 \in DOMAIN down[c] /\ down'[c][k] = down[c][k + 1]
    BY <1>1, <2>1 DEF TypeOK
  <2>7. NoEchoSent'
    BY <2>5, <2>6 DEF NoEchoSent
  <2>8. received'[c] = Append(received[c], Head(down[c]))
    BY <1>1 DEF TypeOK
  <2>9. \A k \in 1 .. Len(received'[c]) :
          \/ k \in 1 .. Len(received[c]) /\ received'[c][k] = received[c][k]
          \/ received'[c][k] = Head(down[c])
    BY <2>1, <2>8
  <2>10. user[c] \notin LongName => Head(down[c]).by # c
    <3>1. 1 \in DOMAIN down[c] /\ Head(down[c]) = down[c][1]
      BY <1>1, <2>1
    <3> QED
      BY <3>1 DEF NoEchoSent
  <2>11. NoEcho'
    BY <2>5, <2>9, <2>10 DEF NoEcho
  <2> QED
    BY <2>2, <2>3, <2>4, <2>7, <2>11
<1>2. CASE cl' = [cl EXCEPT ![c] = "leave"] /\ UNCHANGED <<received, down>>
  <2>1. TypeOK'
    BY <1>2 DEF TypeOK
  <2>2. \A d \in Client : cl'[d] = "off" <=> cl[d] = "off"
    BY <1>2 DEF TypeOK
  <2> QED
    BY <1>2, <2>1, <2>2, ServerRests, MessagesRest
<1> QED
  BY <1>1, <1>2

\* The user types, quits or crashes.
LEMMA UserStep ==
  ASSUME CInv, NEW c \in Client, client_types(c) \/ client_dies(c)
  PROVE  CInv'
<1> USE ChatAssumption DEF CInv, client_types, client_dies, socketVars, threadVars, listVars,
                           mainVars
<1>1. TypeOK'
  <2>1. sent' \in [Client -> 0 .. MaxSends]
    <3>1. sent \in [Client -> 0 .. MaxSends] /\ MaxSends \in Nat
      BY DEF TypeOK
    <3>2. sent[c] < MaxSends => sent[c] + 1 \in 0 .. MaxSends
      BY <3>1
    <3> QED
      BY <3>1, <3>2
  <2>2. cl' \in [Client -> Places]
    <3>1. PICK p \in Places : cl' = [cl EXCEPT ![c] = p]
      BY DEF Places
    <3> QED
      BY <3>1, OneValue, Types
  <2> QED
    BY <2>1, <2>2 DEF TypeOK, Places
<1>2. \A d \in Client : cl'[d] = "off" <=> cl[d] = "off"
  BY DEF TypeOK
<1> QED
  BY <1>1, <1>2, ServerRests, MessagesRest

-----------------------------------------------------------------------------
(* The main thread.                                                         *)

LEMMA AcceptStep ==
  ASSUME CInv, NEW c \in Client, accept(c)
  PROVE  CInv'
<1> USE ChatAssumption DEF CInv, accept, clientVars, listVars
<1>1. PICK f \in Fd \ OpenFds :
        \/ /\ conn' = [conn EXCEPT ![c] = "open"]
           /\ fd' = [fd EXCEPT ![c] = f]
           /\ h' = [h EXCEPT ![c] = "join"]
        \/ /\ conn' = [conn EXCEPT ![c] = "closed"]
           /\ UNCHANGED <<fd, h>>
  OBVIOUS
<1>2. TypeOK'
  <2>1. fd' \in [Client -> Fd \cup {0}]
    BY <1>1, OneValue, Types
  <2>2. conn' \in [Client -> {"none", "backlog", "open", "closed"}]
    BY <1>1, OneValue, Types DEF SocketEnds
  <2>3. h' \in [Client -> {"none", "join", "add", "lock", "bcast", "recv",
                           "remove", "close", "done"}]
    BY <1>1 DEF TypeOK
  <2> QED
    BY <2>1, <2>2, <2>3 DEF TypeOK
<1>3. h[c] = "none" /\ username[c] = NoName /\ conn[c] = "backlog" /\ c \notin Listed
  BY DEF Threads, ListSound, Joined
<1>4. Listed' = Listed /\ Joined' = Joined
  BY <1>1, <1>3 DEF Listed, Joined, TypeOK
<1>5. \A d \in Client : conn[d] = "open" => fd[d] # f
  BY DEF OpenFds
<1>6. /\ \A d \in Client : d # c => conn'[d] = conn[d] /\ fd'[d] = fd[d] /\ h'[d] = h[d]
      /\ \/ conn'[c] = "open" /\ fd'[c] = f /\ h'[c] = "join"
         \/ conn'[c] = "closed" /\ h'[c] = "none"
  BY <1>1, <1>3 DEF TypeOK
<1>7. ListSound'
  <2>1. \A d \in Listed' : conn'[d] = "open"
    BY <1>3, <1>4, <1>6 DEF ListSound, Listed
  <2>2. \A d, e \in Client : conn'[d] = "open" /\ conn'[e] = "open" /\ fd'[d] = fd'[e] => d = e
    BY <1>3, <1>5, <1>6 DEF ListSound
  <2>3. Listed' = Joined' /\ \A d \in Client : todo'[d] \subseteq Listed'
    BY <1>4 DEF ListSound
  <2> QED
    BY <2>1, <2>2, <2>3 DEF ListSound
<1>8. Threads'
  BY <1>3, <1>6 DEF Threads
<1>9. \A d \in Client : conn[d] = "none" => conn'[d] = "none"
  BY <1>3, <1>6
<1> QED
  BY <1>2, <1>7, <1>8, <1>9, MessagesRest

LEMMA MainStep ==
  ASSUME CInv, Main \/ graceful_shutdown
  PROVE  CInv'
<1>1. ASSUME UNCHANGED <<clientVars, socketVars, threadVars, listVars, mutex, log, server>>,
             mpc' \in {"select", "stdin", "list"}, running' \in BOOLEAN
      PROVE  CInv'
  <2> USE <1>1 DEF CInv, clientVars, socketVars, threadVars, listVars
  <2>1. TypeOK'
    BY DEF TypeOK
  <2> QED
    BY <2>1, ServerRests, MessagesRest
<1>2. CASE no_connection \/ graceful_shutdown
  BY <1>1, <1>2 DEF no_connection, graceful_shutdown, CInv, TypeOK
<1>3. ASSUME NEW again \in BOOLEAN, main_loop(again), running' \in BOOLEAN,
             UNCHANGED <<clientVars, down, username, since, log>>
      PROVE  CInv'
  <2>1. CASE again
    BY <1>1, <1>3, <2>1 DEF main_loop, socketVars, threadVars, listVars
  <2>2. CASE ~again
    BY <1>3, <2>2, EndsStep DEF main_loop, CInv, TypeOK
  <2> QED
    BY <2>1, <2>2
<1>4. running \in BOOLEAN
  BY DEF CInv, TypeOK
<1>5. CASE handle_server_commands
  <2>1. CASE mpc' = "list" /\ UNCHANGED <<running, server, conn, fd, up, threadVars, rank, mutex>>
    BY <1>1, <1>4, <1>5, <2>1 DEF handle_server_commands, socketVars, threadVars, listVars
  <2>2. CASE running' \in {running, FALSE} /\ main_loop(running')
    <3>1. running' \in BOOLEAN
      BY <1>4, <2>2
    <3> QED
      BY <1>3, <1>5, <2>2, <3>1 DEF handle_server_commands
  <2> QED
    BY <1>5, <2>1, <2>2 DEF handle_server_commands
<1>6. CASE get_client_list_string
  BY <1>3, <1>4, <1>6 DEF get_client_list_string
<1> QED
  BY <1>2, <1>5, <1>6, AcceptStep DEF Main

-----------------------------------------------------------------------------
(* The handler threads.                                                     *)

\* A message is received, or the end of the stream.
LEMMA ReceptionStep ==
  ASSUME CInv, NEW c \in Client, h[c] \in {"join", "recv"},
         NEW p \in {"add", "lock", "recv", "remove"}, Goto(c, p),
         \/ \E m \in Message : Received(c, m)
         \/ HungUp(c) /\ p = "remove",
         p = "add" => h[c] = "join", p \in {"lock", "recv"} => h[c] = "recv",
         UNCHANGED <<clientVars, conn, fd, down, todo, listVars, mutex, mainVars, log>>
  PROVE  CInv'
<1> USE ChatAssumption, NoMessageIsNone DEF CInv, clientVars, listVars, mainVars
<1>1. \/ /\ up[c] # << >> /\ Head(up[c]) \in Message
         /\ up' = [up EXCEPT ![c] = Tail(@)]
         /\ msg' = [msg EXCEPT ![c] = Head(up[c])]
      \/ UNCHANGED <<up, msg>> /\ p = "remove"
  BY DEF Received, HungUp
<1>2. /\ \A d \in Client : d # c => up'[d] = up[d] /\ msg'[d] = msg[d] /\ h'[d] = h[d]
      /\ h'[c] = p
  BY <1>1 DEF Goto, TypeOK
<1>3. up[c] \in Seq(Message) /\ (up[c] # << >> => Tail(up[c]) \in Seq(Message))
  BY DEF TypeOK
<1>4. TypeOK'
  <2>1. up' \in [Client -> Seq(Message)] /\ msg' \in [Client -> Message \cup {NoMessage}]
    <3>1. CASE UNCHANGED <<up, msg>>
      BY <3>1, Types
    <3>2. CASE up[c] # << >> /\ Head(up[c]) \in Message /\ up' = [up EXCEPT ![c] = Tail(@)]
               /\ msg' = [msg EXCEPT ![c] = Head(up[c])]
      <4> HIDE DEF CInv
      <4>1. up' \in [Client -> Seq(Message)]
        BY <1>3, <3>2, OneValue, Types DEF CInv
      <4>2. msg' \in [Client -> Message \cup {NoMessage}]
        BY <3>2, OneValue, Types DEF CInv
      <4> QED
        BY <4>1, <4>2
    <3> QED
      BY <1>1, <3>1, <3>2
  <2>2. h' \in [Client -> {"none", "join", "add", "lock", "bcast", "recv",
                           "remove", "close", "done"}]
    BY DEF Goto, TypeOK
  <2> QED
    BY <2>1, <2>2 DEF TypeOK
<1>5. ListSound'
  <2>1. username[c] = NoName \/ (h[c] \in HasNode <=> p \in HasNode)
    BY DEF HasNode, Threads
  <2>2. \A d \in Client : todo'[d] \subseteq Listed
    BY DEF ListSound
  <2> QED
    BY <2>1, <2>2, ThreadMoves
<1>6. Threads'
  <2>1. p \in {"add", "lock"} => msg'[c] \in Message
    <3>1. CASE UNCHANGED <<up, msg>> /\ p = "remove"
      BY <3>1
    <3>2. CASE up[c] # << >> /\ Head(up[c]) \in Message /\ msg' = [msg EXCEPT ![c] = Head(up[c])]
      BY <3>2 DEF TypeOK
    <3> QED
      BY <1>1, <3>1, <3>2
  <2>2. conn[c] = "open" /\ todo[c] = {}
    BY DEF Threads
  <2> QED
    BY <1>2, <2>1, <2>2 DEF Threads
<1>7. OwnMessages'
  <2>1. CASE UNCHANGED <<up, msg>>
    BY <2>1 DEF OwnMessages
  <2>2. CASE up[c] # << >> /\ up' = [up EXCEPT ![c] = Tail(@)]
             /\ msg' = [msg EXCEPT ![c] = Head(up[c])]
    <3>1. cl[c] # "off"
      BY <2>2 DEF OwnMessages
    <3>2. /\ up'[c] = Tail(up[c]) /\ msg'[c] = Head(up[c])
          /\ 1 \in DOMAIN up[c] /\ Head(up[c]) = up[c][1]
          /\ \A k \in DOMAIN Tail(up[c]) : k + 1 \in DOMAIN up[c] /\ Tail(up[c])[k] = up[c][k + 1]
      BY <1>3, <2>2 DEF TypeOK
    <3>3. /\ msg'[c].by = c /\ msg'[c].from = user[c]
          /\ \A k \in DOMAIN up'[c] : up'[c][k].by = c /\ up'[c][k].from = user[c]
      BY <3>2 DEF OwnMessages
    <3> QED
      BY <1>2, <3>1, <3>3 DEF OwnMessages
  <2> QED
    BY <1>1, <2>1, <2>2
<1>8. NoEchoSent' /\ NoEcho'
  BY DEF NoEchoSent, NoEcho
<1> QED
  BY <1>4, <1>5, <1>6, <1>7, <1>8

LEMMA ReceptionsStep ==
  ASSUME CInv, NEW c \in Client, receive_join(c) \/ client_handler(c)
  PROVE  CInv'
<1>1. CASE receive_join(c)
  <2>1. PICK p \in {"add", "remove"} :
          Goto(c, p) /\ ((\E m \in Message : Received(c, m)) \/ (HungUp(c) /\ p = "remove"))
    BY <1>1 DEF receive_join
  <2> QED
    BY <1>1, <2>1, ReceptionStep DEF receive_join, In
<1>2. CASE client_handler(c)
  <2>1. PICK p \in {"lock", "recv", "remove"} :
          Goto(c, p) /\ ((\E m \in Message : Received(c, m)) \/ (HungUp(c) /\ p = "remove"))
    BY <1>2 DEF client_handler, Again
  <2> QED
    BY <1>2, <2>1, ReceptionStep DEF client_handler, In
<1> QED
  BY <1>1, <1>2

\* The list is finite, and a node that is added gets the highest rank.
LEMMA AddStep ==
  ASSUME CInv, NEW c \in Client, add_client_safe(c)
  PROVE  /\ CInv'
         /\ Listed' = Listed \cup {c} /\ c \notin Listed
<1> USE ChatAssumption, NoMessageIsNone DEF CInv, add_client_safe, In, clientVars, socketVars,
                                            mainVars
<1>1. PICK u \in {msg[c].from} \cup (IF msg[c].from \in LongName THEN {Garbled} ELSE {}) :
        username' = [username EXCEPT ![c] = u]
  OBVIOUS
<1>2. msg[c] \in Message /\ cl[c] # "off" /\ username[c] = NoName /\ conn[c] = "open"
      /\ todo[c] = {} /\ msg[c].from = user[c] /\ user[c] \in Name
  BY DEF Threads, OwnMessages
<1>3. /\ u \in Name \cup {Garbled} /\ u # NoName
      /\ u = user[c] \/ (u = Garbled /\ user[c] \in LongName)
  BY <1>2
<1>4. IsFiniteSet(Listed) /\ Cardinality(Listed) \in Nat
  BY FS_Subset, FS_CardinalityType DEF Listed
<1>5. Len(log) \in Nat
  BY DEF TypeOK
<1>6. /\ h'[c] = "lock" /\ username'[c] = u /\ rank'[c] > 0
      /\ \A d \in Client : d # c => h'[d] = h[d] /\ username'[d] = username[d] /\ rank'[d] = rank[d]
  BY <1>1, <1>4 DEF Goto, TypeOK
<1>7. TypeOK'
  <2>1. rank' \in [Client -> Nat] /\ since' \in [Client -> Nat]
    BY <1>4, <1>5 DEF TypeOK
  <2>2. username' \in [Client -> Name \cup {NoName, Garbled}]
    BY <1>1, <1>3 DEF TypeOK
  <2>3. h' \in [Client -> {"none", "join", "add", "lock", "bcast", "recv",
                           "remove", "close", "done"}]
    BY DEF Goto, TypeOK
  <2> QED
    BY <2>1, <2>2, <2>3 DEF TypeOK
<1>8. Listed' = Listed \cup {c} /\ Joined' = Joined \cup {c} /\ c \notin Listed
  <2>1. Listed' = Listed \cup {c}
    BY <1>6 DEF Listed
  <2>2. Joined' = Joined \cup {c} /\ c \notin Joined
    BY <1>2, <1>3, <1>6 DEF Joined
  <2> QED
    BY <2>1, <2>2 DEF ListSound
<1>9. ListSound'
  BY <1>2, <1>8 DEF ListSound
<1>10. Threads'
  BY <1>2, <1>3, <1>6 DEF Threads
<1>11. OwnMessages'
  BY <1>2, <1>3, <1>6 DEF OwnMessages
<1>12. NoEchoSent' /\ NoEcho'
  BY DEF NoEchoSent, NoEcho
<1> QED
  BY <1>7, <1>8, <1>9, <1>10, <1>11, <1>12

\* When the mutex is free nobody broadcasts.
LEMMA NobodyBroadcasts ==
  ASSUME CInv, mutex = Nobody
  PROVE  \A d \in Client : h[d] # "bcast" /\ todo[d] = {}
BY ChatAssumption DEF CInv, Threads

LEMMA BroadcastStep ==
  ASSUME CInv, NEW c \in Client, broadcast_message(c)
  PROVE  CInv'
<1> USE ChatAssumption DEF CInv, broadcast_message, In, clientVars, socketVars, listVars, mainVars
<1>1. /\ h'[c] = "bcast" /\ todo'[c] = Listed /\ msg[c] \in Message /\ Listed \subseteq Client
      /\ \A d \in Client : d # c => h'[d] = h[d] /\ todo'[d] = todo[d]
  BY DEF Goto, TypeOK, Threads, Listed
<1>2. TypeOK'
  <2>1. todo' \in [Client -> SUBSET Client]
    BY <1>1, OneValue, Types
  <2>2. h' \in [Client -> {"none", "join", "add", "lock", "bcast", "recv",
                           "remove", "close", "done"}]
    BY OneValue, Types DEF Goto, Phases
  <2>3. log' \in Seq(Message)
    BY <1>1 DEF TypeOK
  <2> QED
    BY <2>1, <2>2, <2>3 DEF TypeOK
<1>3. ListSound'
  <2>1. \A d \in Client : todo'[d] \subseteq Listed
    BY <1>1 DEF ListSound
  <2> QED
    BY <2>1, ThreadMoves DEF HasNode
<1>4. Threads'
  <2>1. \A d \in Client : h[d] # "bcast"
    BY NobodyBroadcasts
  <2> QED
    BY <1>1, <2>1 DEF Threads
<1> QED
  BY <1>2, <1>3, <1>4, MessagesRest

LEMMA BroadcastNextStep ==
  ASSUME CInv, NEW c \in Client, broadcast_next(c)
  PROVE  CInv'
<1> USE ChatAssumption DEF CInv, clientVars, listVars, mainVars
<1>0. /\ h[c] = "bcast"
      /\ UNCHANGED <<clientVars, conn, fd, up, h, msg, listVars, mutex, mainVars, log>>
  BY DEF broadcast_next, In
<1>1. PICK d \in Newest(todo[c]) :
        /\ IF username[d] = msg[c].from THEN UNCHANGED down ELSE send_protocol_message(c, d)
        /\ todo' = [todo EXCEPT ![c] = @ \ {d}]
  BY DEF broadcast_next
<1>2. d \in Client /\ d \in todo[c] /\ d \in Listed /\ msg[c] \in Message
  BY <1>0 DEF Newest, Threads, ListSound, Listed
<1>3. /\ todo'[c] = todo[c] \ {d} /\ todo'[c] \in SUBSET Client
      /\ \A e \in Client : e # c => todo'[e] = todo[e]
  BY <1>1, OneValue, Types
<1>4. \/ down' = down
      \/ username[d] # msg[c].from /\ down' = [down EXCEPT ![d] = Append(@, msg[c])]
  BY <1>1 DEF send_protocol_message
<1>5. down[d] \in Seq(Message) /\ Append(down[d], msg[c]) \in Seq(Message)
  BY <1>2, Types
<1>6. TypeOK'
  <2>1. todo' \in [Client -> SUBSET Client]
    BY <1>1, <1>3, OneValue, Types
  <2>2. down' \in [Client -> Seq(Message)]
    <3>1. down \in [Client -> Seq(Message)]
      BY Types
    <3>2. [down EXCEPT ![d] = Append(down[d], msg[c])] \in [Client -> Seq(Message)]
      BY <1>2, <1>5, <3>1, OneValue
    <3> QED
      BY <1>4, <3>1, <3>2
  <2> QED
    BY <1>0, <2>1, <2>2 DEF TypeOK
<1>7. ListSound' /\ Threads'
  <2>1. Listed' = Listed /\ Joined' = Joined
    BY <1>0 DEF Listed, Joined
  <2>2. ListSound'
    BY <1>0, <1>3, <2>1 DEF ListSound
  <2>3. Threads'
    BY <1>0, <1>3 DEF Threads
  <2> QED
    BY <2>2, <2>3
<1>8. OwnMessages' /\ NoEcho'
  BY <1>0 DEF OwnMessages, NoEcho
<1>9. NoEchoSent'
  <2>1. CASE down' = down
    BY <1>0, <2>1 DEF NoEchoSent
  <2>2. CASE username[d] # msg[c].from /\ down' = [down EXCEPT ![d] = Append(@, msg[c])]
    <3>1. down'[d] = Append(down[d], msg[c]) /\ \A e \in Client : e # d => down'[e] = down[e]
      BY <1>2, <1>5, <2>2, OneValue, Types
    <3>2. user[d] \notin LongName => msg[c].by # d
      <4>1. username[d] # NoName
        BY <1>2 DEF ListSound, Joined
      <4> QED
        BY <1>2, <2>2, <4>1 DEF OwnMessages
    <3>3. \A k \in DOMAIN down'[d] : \/ k \in DOMAIN down[d] /\ down'[d][k] = down[d][k]
                                     \/ down'[d][k] = msg[c]
      BY <1>5, <3>1
    <3> QED
      BY <1>0, <3>1, <3>2, <3>3 DEF NoEchoSent
  <2> QED
    BY <1>4, <2>1, <2>2
<1> QED
  BY <1>6, <1>7, <1>8, <1>9

LEMMA BroadcastDoneStep ==
  ASSUME CInv, NEW c \in Client, broadcast_done(c)
  PROVE  CInv'
<1> USE ChatAssumption DEF CInv, broadcast_done, In, clientVars, socketVars, listVars, mainVars
<1>1. PICK p \in {"recv", "remove"} : Goto(c, p)
  BY DEF Again
<1>2. h'[c] = p /\ \A d \in Client : d # c => h'[d] = h[d] /\ h[d] # "bcast"
  BY <1>1, OneValue, Types DEF Goto, Phases, Threads
<1>3. TypeOK'
  <2>1. h' \in [Client -> {"none", "join", "add", "lock", "bcast", "recv",
                           "remove", "close", "done"}]
    BY <1>1, OneValue, Types DEF Goto, Phases
  <2> QED
    BY <2>1 DEF TypeOK
<1>4. ListSound'
  BY <1>1, ThreadMoves DEF HasNode, ListSound
<1>5. Threads'
  BY <1>2 DEF Threads
<1> QED
  BY <1>3, <1>4, <1>5, MessagesRest

LEMMA SigpipeStep ==
  ASSUME CInv, NEW c \in Client, broadcast_sigpipe(c)
  PROVE  CInv'
BY EndsStep DEF CInv, TypeOK, broadcast_sigpipe

\* The node with the thread's descriptor is the thread's own.
LEMMA RemoveStep ==
  ASSUME CInv, NEW c \in Client, remove_client_safe(c)
  PROVE  CInv' /\ Listed' = Listed \ {c}
<1> USE ChatAssumption DEF CInv, remove_client_safe, In, clientVars, socketVars, mainVars
<1> DEFINE found == Newest({d \in Listed : fd[d] = fd[c]})
<1>1. found = Listed \cap {c}
  <2>1. \A d \in Listed : fd[d] = fd[c] <=> d = c
    BY DEF ListSound, Threads, Listed
  <2>2. \A d \in Client : rank[d] <= rank[d]
    BY DEF TypeOK
  <2>3. {d \in Listed : fd[d] = fd[c]} = Listed \cap {c}
    BY <2>1
  <2> QED
    BY <2>2, <2>3 DEF Newest, Listed
<1>2. rank' = [d \in Client |-> IF d \in found THEN 0
                                ELSE IF \E e \in found : rank[d] > rank[e]
                                     THEN rank[d] - 1 ELSE rank[d]]
  OBVIOUS
<1> HIDE DEF found
<1>3. rank' \in [Client -> Nat]
  <2>1. \A d, e \in Client : rank[d] \in Nat /\ rank[e] \in Nat
                             /\ (rank[d] > rank[e] => rank[d] - 1 \in Nat)
    <3>1. rank \in [Client -> Nat]
      BY DEF TypeOK
    <3> QED
      BY ONLY <3>1
  <2> QED
    BY <1>1, <1>2, <2>1
<1>4. Listed' = Listed \ {c}
  <2>1. \A d \in Client : rank[d] \in Nat
    BY DEF TypeOK
  <2>2. c \in Listed => rank'[c] = 0
    BY <1>1, <1>2
  <2>3. \A d \in Client : d # c => (rank'[d] > 0 <=> rank[d] > 0)
    <3> TAKE d \in Client
    <3> HAVE d # c
    <3>1. d \notin found /\ \A e \in found : e = c /\ rank[e] > 0
      BY <1>1 DEF Listed
    <3>2. rank'[d] = rank[d] \/ (rank'[d] = rank[d] - 1 /\ rank[d] > rank[c] /\ rank[c] > 0)
      BY <1>2, <3>1
    <3> QED
      BY <2>1, <3>2
  <2>4. c \notin Listed => rank'[c] = rank[c]
    BY <1>1, <1>2
  <2> QED
    BY <2>2, <2>3, <2>4 DEF Listed
<1>5. h'[c] = "close" /\ \A d \in Client : d # c => h'[d] = h[d]
  BY OneValue, Types DEF Goto, Phases
<1>6. TypeOK'
  <2>1. h' \in [Client -> {"none", "join", "add", "lock", "bcast", "recv",
                           "remove", "close", "done"}]
    BY OneValue, Types DEF Goto, Phases
  <2> QED
    BY <1>3, <2>1 DEF TypeOK
<1>7. ListSound'
  <2>1. Joined' = Joined \ {c}
    BY <1>5 DEF Joined
  <2>2. \A d \in Client : todo'[d] = {}
    BY NobodyBroadcasts
  <2> QED
    BY <1>4, <2>1, <2>2 DEF ListSound
<1>8. Threads'
  BY <1>5 DEF Threads
<1>9. OwnMessages' /\ NoEchoSent' /\ NoEcho'
  BY MessagesRest
<1> QED
  BY <1>4, <1>6, <1>7, <1>8, <1>9

LEMMA CloseStep ==
  ASSUME CInv, NEW c \in Client, close_client(c)
  PROVE  CInv'
<1> USE ChatAssumption, NoMessageIsNone DEF CInv, close_client, In, clientVars, listVars, mainVars
<1>1. /\ h'[c] = "done" /\ conn'[c] = "closed" /\ fd'[c] = 0 /\ msg'[c] = NoMessage
      /\ \A d \in Client : d # c => /\ h'[d] = h[d] /\ conn'[d] = conn[d]
                                    /\ fd'[d] = fd[d] /\ msg'[d] = msg[d]
  BY DEF Goto, TypeOK
<1>2. TypeOK'
  <2>1. h' \in [Client -> {"none", "join", "add", "lock", "bcast", "recv",
                           "remove", "close", "done"}]
    BY OneValue, Types DEF Goto, Phases
  <2>2. conn' \in [Client -> {"none", "backlog", "open", "closed"}]
    BY OneValue, Types DEF SocketEnds
  <2>3. fd' \in [Client -> Fd \cup {0}] /\ msg' \in [Client -> Message \cup {NoMessage}]
    BY OneValue, Types
  <2> QED
    BY <2>1, <2>2, <2>3 DEF TypeOK
<1>3. ListSound'
  <2>1. Listed' = Listed /\ Joined' = Joined
    BY <1>1 DEF Listed, Joined
  <2>2. c \notin Listed
    BY DEF ListSound, Joined
  <2> QED
    BY <1>1, <2>1, <2>2 DEF ListSound, Listed
<1>4. Threads'
  BY <1>1 DEF Threads
<1>5. OwnMessages'
  BY <1>1 DEF OwnMessages, Threads
<1>6. NoEchoSent' /\ NoEcho'
  BY DEF NoEchoSent, NoEcho
<1> QED
  BY <1>2, <1>3, <1>4, <1>5, <1>6

LEMMA StepCInv == CInv /\ [Next]_vars => CInv'
<1> SUFFICES ASSUME CInv, [Next]_vars PROVE CInv'
  OBVIOUS
<1>1. CASE UNCHANGED vars
  <2> USE <1>1 DEF vars, clientVars, socketVars, threadVars, listVars, mainVars, CInv
  <2>1. TypeOK'
    BY DEF TypeOK
  <2> QED
    BY <2>1, ServerRests, MessagesRest
<1>2. ASSUME NEW c \in Client, ClientProgram(c) \/ User(c) \/ Handler(c)
      PROVE  CInv'
  BY <1>2, ConnectStep, SendStep, ReceiveStep, UserStep, ReceptionsStep, AddStep, BroadcastStep,
     BroadcastNextStep, BroadcastDoneStep, SigpipeStep, RemoveStep, CloseStep
     DEF ClientProgram, User, Handler
<1> QED
  BY <1>1, <1>2, MainStep DEF Next

-----------------------------------------------------------------------------
(* Nothing has been sent to a client before its node is linked.            *)

Outside == {"none", "join", "add"}
Fresh == \A c \in Client : h[c] \in Outside => received[c] = << >> /\ down[c] = << >>

LEMMA InitFresh == Init => Fresh
BY DEF Init, Fresh

\* A handler never goes back to where it was before its node was linked.
LEMMA NeverOutsideAgain ==
  ASSUME CInv, Next, NEW c \in Client, h'[c] \in Outside
  PROVE  h[c] \in Outside
<1> USE DEF clientVars, socketVars, threadVars, listVars, mainVars, Outside
<1>1. h \in [Client -> {"none", "join", "add", "lock", "bcast", "recv", "remove", "close", "done"}]
  BY DEF CInv, TypeOK
<1>2. ASSUME NEW how, Ends(how)
      PROVE  h[c] \in Outside
  BY <1>2 DEF Ends
<1>3. ASSUME h' = h
      PROVE  h[c] \in Outside
  BY <1>3
<1>4. ASSUME NEW d \in Client, NEW l \in {"lock", "bcast", "recv", "remove", "close", "done"},
             Goto(d, l)
      PROVE  h[c] \in Outside
  BY <1>1, <1>4 DEF Goto
<1>5. ASSUME NEW d \in Client, NEW l, Goto(d, l), h[d] \in Outside
      PROVE  h[c] \in Outside
  BY <1>1, <1>5 DEF Goto
<1>6. ASSUME NEW d \in Client, ClientProgram(d) \/ User(d)
      PROVE  h' = h
  BY <1>6 DEF ClientProgram, User, client_join, client_say, client_leave, client_send,
              client_receive, connect_to_server_socket, client_types, client_dies
<1>7. ASSUME NEW d \in Client, Handler(d)
      PROVE  h[c] \in Outside
  <2>1. CASE receive_join(d)
    BY <1>5, <2>1 DEF receive_join, In
  <2>2. CASE add_client_safe(d)
    BY <1>4, <2>2 DEF add_client_safe
  <2>3. CASE broadcast_message(d)
    BY <1>4, <2>3 DEF broadcast_message
  <2>4. CASE broadcast_next(d)
    BY <1>3, <2>4 DEF broadcast_next
  <2>5. CASE broadcast_sigpipe(d)
    BY <1>2, <2>5 DEF broadcast_sigpipe
  <2>6. CASE broadcast_done(d)
    BY <1>4, <2>6 DEF broadcast_done, Again
  <2>7. CASE client_handler(d)
    <3>1. \E l \in {"lock", "recv", "remove"} : Goto(d, l)
      BY <2>7 DEF client_handler, Again
    <3> QED
      BY <1>4, <3>1
  <2>8. CASE remove_client_safe(d)
    BY <1>4, <2>8 DEF remove_client_safe
  <2>9. CASE close_client(d)
    BY <1>4, <2>9 DEF close_client
  <2> QED
    BY <1>7, <2>1, <2>2, <2>3, <2>4, <2>5, <2>6, <2>7, <2>8, <2>9 DEF Handler
<1>8. ASSUME NEW again, main_loop(again)
      PROVE  h[c] \in Outside
  BY <1>2, <1>3, <1>8 DEF main_loop
<1>9. CASE Main \/ graceful_shutdown
  <2>1. CASE no_connection \/ graceful_shutdown
    BY <1>3, <2>1 DEF no_connection, graceful_shutdown
  <2>2. CASE handle_server_commands
    BY <1>3, <1>8, <2>2 DEF handle_server_commands
  <2>3. CASE get_client_list_string
    BY <1>8, <2>3 DEF get_client_list_string
  <2>4. ASSUME NEW d \in Client, accept(d)
        PROVE  h[c] \in Outside
    <3>1. h[d] = "none"
      BY <2>4 DEF accept, CInv, Threads
    <3>2. h' = [h EXCEPT ![d] = "join"] \/ h' = h
      BY <2>4 DEF accept
    <3> QED
      BY <1>1, <3>1, <3>2
  <2> QED
    BY <1>9, <2>1, <2>2, <2>3, <2>4 DEF Main
<1> QED
  BY <1>3, <1>6, <1>7, <1>9 DEF Next

LEMMA StepFresh == CInv /\ Fresh /\ [Next]_vars => Fresh'
<1> SUFFICES ASSUME CInv, Fresh, [Next]_vars, NEW c \in Client, h'[c] \in Outside
             PROVE  received'[c] = << >> /\ down'[c] = << >>
  BY DEF Fresh
<1> USE DEF clientVars, socketVars, threadVars, listVars, mainVars
<1>1. CASE UNCHANGED vars
  BY <1>1 DEF vars, Fresh
<1>2. CASE Next
  <2>1. received[c] = << >> /\ down[c] = << >> /\ h[c] \in Outside
    BY <1>2, NeverOutsideAgain DEF Fresh
  <2>2. received \in [Client -> Seq(Message)] /\ down \in [Client -> Seq(Message)]
    BY DEF CInv, TypeOK
  <2>3. CASE UNCHANGED <<received, down>>
    BY <2>1, <2>3
  <2>4. ASSUME NEW d \in Client, client_receive(d)
        PROVE  received'[c] = << >> /\ down'[c] = << >>
    BY <2>1, <2>2, <2>4 DEF client_receive
  <2>5. ASSUME NEW d \in Client, broadcast_next(d)
        PROVE  received'[c] = << >> /\ down'[c] = << >>
    <3>1. PICK e \in Newest(todo[d]) : down' = down \/ down' = [down EXCEPT ![e] = Append(@, msg[d])]
      BY <2>5 DEF broadcast_next, send_protocol_message
    <3>2. e # c
      BY <2>1 DEF Newest, CInv, ListSound, Joined, Outside
    <3> QED
      BY <2>1, <2>2, <2>5, <3>1, <3>2 DEF broadcast_next
  <2>6. ASSUME NEW d \in Client, ClientProgram(d) \/ User(d)
        PROVE  client_receive(d) \/ UNCHANGED <<received, down>>
    BY <2>6 DEF ClientProgram, User, client_join, client_say, client_leave, client_send,
                connect_to_server_socket, client_types, client_dies
  <2>7. ASSUME NEW d \in Client, Handler(d)
        PROVE  broadcast_next(d) \/ UNCHANGED <<received, down>>
    BY <2>7 DEF Handler, receive_join, add_client_safe, broadcast_message, broadcast_sigpipe,
                broadcast_done, client_handler, remove_client_safe, close_client
  <2>8. Main \/ graceful_shutdown => UNCHANGED <<received, down>>
    BY DEF Main, graceful_shutdown, no_connection, handle_server_commands,
           get_client_list_string, accept
  <2> QED
    BY <1>2, <2>3, <2>4, <2>5, <2>6, <2>7, <2>8 DEF Next
<1> QED
  BY <1>1, <1>2

-----------------------------------------------------------------------------
(* The server implements the room.                                          *)

\* Sequences that are read at one end and written at the other.
LEMMA Queues ==
  ASSUME NEW S, NEW r \in Seq(S), NEW d \in Seq(S), NEW m \in S
  PROVE  /\ r \o d \in Seq(S) /\ Append(r \o d, m) \in Seq(S)
         /\ r \o d \o << >> = r \o d
         /\ r \o d \o << m >> = Append(r \o d, m)
         /\ r \o Append(d, m) = Append(r \o d, m)
<1>1. r \o d \in Seq(S)
  BY ConcatProperties
<1>2. r \o d \o << >> = r \o d
  BY <1>1, ConcatEmptySeq
<1>3. r \o d \o << m >> = Append(r \o d, m) /\ Append(r \o d, m) \in Seq(S)
  BY <1>1, AppendIsConcat, AppendProperties
<1>4. << m >> \in Seq(S) /\ Append(d, m) = d \o << m >>
  BY AppendIsConcat
<1>5. r \o Append(d, m) = Append(r \o d, m)
  BY <1>3, <1>4, ConcatAssociative
<1> QED
  BY <1>1, <1>2, <1>3, <1>5

LEMMA SentLast ==
  ASSUME NEW S, NEW r \in Seq(S), NEW d \in Seq(S), NEW m \in S
  PROVE  r \o Append(d, m) = Append(r \o d, m)
BY Queues

LEMMA MovesOn ==
  ASSUME NEW S, NEW r \in Seq(S), NEW d \in Seq(S), d # << >>
  PROVE  Append(r, Head(d)) \o Tail(d) = r \o d
<1>1. Head(d) \in S /\ Tail(d) \in Seq(S)
  BY HeadTailProperties
<1>2. Append(r, Head(d)) = r \o << Head(d) >> /\ << Head(d) >> \in Seq(S)
  BY <1>1, AppendIsConcat
<1>3. << Head(d) >> \o Tail(d) = d
  <2>1. << Head(d) >> \o Tail(d) \in Seq(S)
        /\ Len(<< Head(d) >> \o Tail(d)) = Len(d)
    BY <1>1, <1>2, ConcatProperties
  <2>2. \A k \in 1 .. Len(d) : (<< Head(d) >> \o Tail(d))[k] = d[k]
    BY <1>1, <1>2, ConcatProperties
  <2> QED
    BY <2>1, <2>2, SeqEqual
<1> QED
  BY <1>1, <1>2, <1>3, ConcatAssociative

\* What is left of them when all that has not been read is dropped, or only
\* the last message.
LEMMA PrefixOf ==
  ASSUME NEW S, NEW r \in Seq(S), NEW t \in Seq(S), Len(r) <= Len(t),
         \A k \in 1 .. Len(r) : t[k] = r[k]
  PROVE  SubSeq(t, 1, Len(r)) = r /\ Len(r) \in 0 .. Len(t)
<1>1. Len(r) \in Nat /\ Len(t) \in Nat /\ \A k \in 1 .. Len(r) : t[k] \in S
  BY LenProperties
<1>2. /\ SubSeq(t, 1, Len(r)) \in Seq(S) /\ Len(SubSeq(t, 1, Len(r))) = Len(r)
      /\ \A k \in 1 .. Len(r) : SubSeq(t, 1, Len(r))[k] = t[k]
  BY <1>1, SubSeqProperties
<1> QED
  BY <1>1, <1>2, SeqEqual

LEMMA Unread ==
  ASSUME NEW S, NEW r \in Seq(S), NEW d \in Seq(S)
  PROVE  SubSeq(r \o d, 1, Len(r)) = r /\ Len(r) \in 0 .. Len(r \o d)
<1>1. /\ r \o d \in Seq(S) /\ Len(r \o d) = Len(r) + Len(d) /\ Len(r) \in Nat /\ Len(d) \in Nat
      /\ \A k \in 1 .. Len(r) : (r \o d)[k] = r[k]
  BY ConcatProperties, LenProperties
<1> QED
  BY <1>1, PrefixOf

LEMMA UnreadLast ==
  ASSUME NEW S, NEW r \in Seq(S), NEW d \in Seq(S), NEW m \in S
  PROVE  /\ SubSeq(Append(r \o d, m), 1, Len(r)) = r
         /\ Len(r) \in 0 .. Len(Append(r \o d, m))
<1>1. /\ Append(d, m) \in Seq(S) /\ r \o Append(d, m) = Append(r \o d, m)
  BY Queues, AppendProperties
<1> QED
  BY <1>1, Unread

LEMMA Last ==
  ASSUME NEW S, NEW r \in Seq(S), NEW m \in S
  PROVE  SubSeq(Append(r, m), 1, Len(Append(r, m)) - 1) = r /\ Append(r, m) # << >>
<1>1. /\ Append(r, m) \in Seq(S) /\ Append(r, m) # << >> /\ Len(r) \in Nat
      /\ Len(Append(r, m)) = Len(r) + 1 /\ Len(Append(r, m)) - 1 = Len(r)
      /\ \A k \in 1 .. Len(r) : Append(r, m)[k] = r[k]
  BY AppendProperties, LenProperties
<1> QED
  BY <1>1, PrefixOf

\* What is under way, and to whom, depends on the one thread that broadcasts.
LEMMA WhoBroadcasts ==
  ASSUME CInv, NEW c \in Client, h[c] = "bcast", Up, NEW d \in Client
  PROVE  UnderWay(d) = IF d \in todo[c] /\ username[d] # msg[c].from THEN {c} ELSE {}
<1>1. \A e \in Client : h[e] = "bcast" => e = c
  BY DEF CInv, Threads
<1> QED
  BY <1>1 DEF UnderWay, In

LEMMA NothingUnderWay ==
  ASSUME CInv, mutex = Nobody, NEW d \in Client
  PROVE  UnderWay(d) = {}
BY NobodyBroadcasts DEF UnderWay, In

\* Steps that the room does not see.
LEMMA Unseen ==
  ASSUME UNCHANGED <<rank, username, log, since, server>>,
         \A d \in Client : /\ Inbox(d)' = Inbox(d)
                           /\ cl'[d] = "closed" <=> cl[d] = "closed"
  PROVE  UNCHANGED Room!vars
<1>1. Listed' = Listed /\ Up' = Up
  BY DEF Listed, Up
<1>2. {c \in Client : cl[c] # "closed"}' = {c \in Client : cl[c] # "closed"}
  OBVIOUS
<1>3. [d \in Client |-> Inbox(d)]' = [d \in Client |-> Inbox(d)]
  OBVIOUS
<1> QED
  BY <1>1, <1>2, <1>3 DEF Room!vars

LEMMA InitRoom == Init => Room!Init
<1> SUFFICES ASSUME Init PROVE Room!Init
  OBVIOUS
<1> USE DEF Init
<1>1. Listed = {} /\ Up
  BY DEF Listed, Up
<1>2. {c \in Client : cl[c] # "closed"} = Client
  OBVIOUS
<1>3. \A d \in Client : UnderWay(d) = {}
  BY DEF UnderWay, In
<1>4. \A d \in Client : Inbox(d) = << >>
  BY <1>3 DEF Inbox
<1>5. [d \in Client |-> Inbox(d)] = [c \in Client |-> << >>]
  BY <1>4
<1>6. username \in [Client -> Name \cup {NoName, Garbled}]
  OBVIOUS
<1> QED
  BY <1>1, <1>2, <1>5, <1>6 DEF Room!Init

\* The theorems about the room, seen from the server.
RoomFacts == INSTANCE ChatRoomProofs WITH
               Name <- Name \cup {NoName, Garbled},
               member <- Listed, name <- username,
               present <- {c \in Client : cl[c] # "closed"},
               inbox <- [d \in Client |-> Inbox(d)],
               open <- Up

\* What a client has been sent, with and without a message under way.
Form(d) ==
  \/ cl[d] = "closed" /\ Inbox(d) = received[d]
  \/ cl[d] # "closed" /\ UnderWay(d) = {} /\ Inbox(d) = received[d] \o down[d]
  \/ /\ cl[d] # "closed"
     /\ \E c \in Client : /\ UnderWay(d) = {c} /\ msg[c] \in Message
                          /\ Inbox(d) = Append(received[d] \o down[d], msg[c])

LEMMA Forms == CInv => \A d \in Client : Form(d)
<1> SUFFICES ASSUME CInv, NEW d \in Client PROVE Form(d)
  OBVIOUS
<1>1. received[d] \in Seq(Message) /\ down[d] \in Seq(Message)
      /\ received[d] \o down[d] \in Seq(Message)
  BY DEF CInv, TypeOK
<1>2. CASE cl[d] = "closed"
  BY <1>2 DEF Form, Inbox
<1>3. CASE cl[d] # "closed" /\ UnderWay(d) = {}
  <2>1. Inbox(d) = received[d] \o down[d] \o << >>
    BY <1>3 DEF Inbox
  <2> QED
    BY <1>1, <1>3, <2>1, ConcatEmptySeq DEF Form
<1>4. CASE cl[d] # "closed" /\ UnderWay(d) # {}
  <2>1. PICK c \in Client : c \in UnderWay(d)
    BY <1>4 DEF UnderWay
  <2>2. UnderWay(d) = {c}
    BY <2>1, WhoBroadcasts DEF UnderWay, In
  <2>3. msg[c] \in Message
    BY <2>1 DEF UnderWay, In, CInv, Threads
  <2>4. (CHOOSE e \in UnderWay(d) : TRUE) = c
    BY <2>2
  <2>5. Inbox(d) = received[d] \o down[d] \o << msg[c] >>
    BY <1>4, <2>4 DEF Inbox
  <2>6. Inbox(d) = Append(received[d] \o down[d], msg[c])
    BY <1>1, <2>3, <2>5, AppendIsConcat
  <2> QED
    BY <1>4, <2>2, <2>3, <2>6 DEF Form
<1> QED
  BY <1>2, <1>3, <1>4

LEMMA FormsAfter == CInv' => \A d \in Client : Form(d)'
<1>1. (CInv => \A d \in Client : Form(d))'
  BY Forms, PTL
<1> QED
  BY <1>1

\* Nothing is sent to a client, and what is under way to it stays.
LEMMA InboxRests ==
  ASSUME CInv, CInv', UNCHANGED <<username, server>>, NEW d \in Client,
         cl'[d] = "closed" <=> cl[d] = "closed",
         received'[d] \o down'[d] = received[d] \o down[d],
         cl[d] = "closed" => received'[d] = received[d],
         \A c \in Client : /\ d \in todo'[c] <=> d \in todo[c]
                           /\ d \in todo[c] => msg'[c] = msg[c]
  PROVE  Inbox(d)' = Inbox(d)
<1>1. \A c \in Client : d \in todo[c] => h[c] = "bcast" /\ h'[c] = "bcast" /\ msg'[c] = msg[c]
  BY DEF CInv, Threads
<1>2. UnderWay(d)' = UnderWay(d)
  BY <1>1 DEF UnderWay, In, Up
<1>3. \A c \in Client : c \in UnderWay(d) => msg'[c] = msg[c]
  BY DEF UnderWay
<1>4. Form(d) /\ Form(d)'
  BY Forms, FormsAfter
<1>5. CASE cl[d] = "closed"
  BY <1>4, <1>5 DEF Form
<1>6. CASE cl[d] # "closed" /\ UnderWay(d) = {}
  BY <1>2, <1>4, <1>6 DEF Form
<1>7. ASSUME NEW c \in Client, UnderWay(d) = {c}, cl[d] # "closed"
      PROVE  Inbox(d)' = Inbox(d)
  <2>1. Inbox(d) = Append(received[d] \o down[d], msg[c])
    BY <1>4, <1>7 DEF Form
  <2>2. Inbox(d)' = Append(received'[d] \o down'[d], msg'[c])
    BY <1>2, <1>4, <1>7 DEF Form
  <2> QED
    BY <1>3, <1>7, <2>1, <2>2
<1> QED
  BY <1>4, <1>5, <1>6, <1>7 DEF Form

\* Steps that neither send nor receive.
LEMMA Silent ==
  ASSUME CInv, CInv', UNCHANGED <<rank, username, log, since, server, received, down>>,
         \A d \in Client : /\ cl'[d] = "closed" <=> cl[d] = "closed"
                           /\ todo'[d] = todo[d]
                           /\ todo[d] # {} => msg'[d] = msg[d]
  PROVE  UNCHANGED Room!vars
<1>1. \A d \in Client : Inbox(d)' = Inbox(d)
  BY InboxRests
<1> QED
  BY <1>1, Unseen

\* A client goes, and has heard what it has printed.
LEMMA Departs ==
  ASSUME CInv, CInv', NEW c \in Client, cl[c] # "closed", cl' = [cl EXCEPT ![c] = "closed"],
         UNCHANGED <<rank, username, log, since, server, received, down, todo, msg>>
  PROVE  Room!Depart(c)
<1>1. cl'[c] = "closed" /\ \A d \in Client : d # c => cl'[d] = cl[d]
  BY DEF CInv, TypeOK
<1>2. \A d \in Client \ {c} : Inbox(d)' = Inbox(d)
  BY <1>1, InboxRests
<1>3. Inbox(c)' = received[c]
  BY <1>1, FormsAfter DEF Form
<1>4. PICK k \in 0 .. Len(Inbox(c)) : received[c] = SubSeq(Inbox(c), 1, k)
  <2>1. received[c] \in Seq(Message) /\ down[c] \in Seq(Message) /\ Form(c)
    BY Forms DEF CInv, TypeOK
  <2>2. \/ Inbox(c) = received[c] \o down[c]
        \/ \E e \in Client : msg[e] \in Message
                             /\ Inbox(c) = Append(received[c] \o down[c], msg[e])
    BY <2>1 DEF Form
  <2>3. CASE Inbox(c) = received[c] \o down[c]
    BY <2>1, <2>3, Unread
  <2>4. ASSUME NEW m \in Message, Inbox(c) = Append(received[c] \o down[c], m)
        PROVE  /\ received[c] = SubSeq(Inbox(c), 1, Len(received[c]))
               /\ Len(received[c]) \in 0 .. Len(Inbox(c))
    <3>1. /\ SubSeq(Append(received[c] \o down[c], m), 1, Len(received[c])) = received[c]
          /\ Len(received[c]) \in 0 .. Len(Append(received[c] \o down[c], m))
      <4>1. received[c] \in Seq(Message) /\ down[c] \in Seq(Message)
        BY <2>1
      <4> QED
        BY <4>1, UnreadLast
    <3> QED
      BY <2>4, <3>1
  <2> QED
    BY <2>2, <2>3, <2>4
<1>5. [d \in Client |-> Inbox(d)]' =
        [[d \in Client |-> Inbox(d)] EXCEPT ![c] = SubSeq(@, 1, k)]
  BY <1>2, <1>3, <1>4
<1>6. {d \in Client : cl[d] # "closed"}' = {d \in Client : cl[d] # "closed"} \ {c}
      /\ c \in {d \in Client : cl[d] # "closed"}
  BY <1>1
<1>7. Listed' = Listed /\ Up' = Up
  BY DEF Listed, Up
<1> QED
  BY <1>4, <1>5, <1>6, <1>7 DEF Room!Depart

\* The room closes, and drops what was under way.
LEMMA Closes ==
  ASSUME CInv, CInv', Up, NEW how \in {"exited", "sigpipe"}, Ends(how),
         UNCHANGED <<clientVars, down, username, since, log>>
  PROVE  Room!Close
<1> USE DEF clientVars
<1>1. Listed' = {} /\ ~ Up'
  BY DEF Listed, Ends, Up
<1>2. \A d \in Client : UnderWay(d)' = {}
  BY <1>1 DEF UnderWay, In
<1> DEFINE cut == {d \in Client : Inbox(d)' # Inbox(d)}
<1>3. ASSUME NEW d \in cut
      PROVE  Inbox(d) # << >> /\ Inbox(d)' = SubSeq(Inbox(d), 1, Len(Inbox(d)) - 1)
  <2>1. Form(d) /\ Form(d)' /\ d \in Client
    BY Forms, FormsAfter
  <2>2. received[d] \o down[d] \in Seq(Message)
    BY <2>1, ConcatProperties DEF CInv, TypeOK
  <2>3. CASE cl[d] = "closed" \/ Inbox(d) = received[d] \o down[d]
    BY <1>2, <2>1, <2>3 DEF Form
  <2>4. ASSUME NEW m \in Message, cl[d] # "closed",
               Inbox(d) = Append(received[d] \o down[d], m)
        PROVE  Inbox(d) # << >> /\ Inbox(d)' = SubSeq(Inbox(d), 1, Len(Inbox(d)) - 1)
    <3>1. Inbox(d)' = received[d] \o down[d]
      BY <1>2, <2>1, <2>4 DEF Form
    <3>2. /\ SubSeq(Append(received[d] \o down[d], m), 1, Len(Append(received[d] \o down[d], m)) - 1)
               = received[d] \o down[d]
          /\ Append(received[d] \o down[d], m) # << >>
      BY <2>2, Last
    <3> QED
      BY <2>4, <3>1, <3>2
  <2> QED
    BY <2>1, <2>3, <2>4 DEF Form
<1>4. [d \in Client |-> Inbox(d)]' =
        [d \in Client |-> IF d \in cut
                          THEN SubSeq([e \in Client |-> Inbox(e)][d], 1,
                                      Len([e \in Client |-> Inbox(e)][d]) - 1)
                          ELSE [e \in Client |-> Inbox(e)][d]]
  BY <1>3
<1>5. cut \in SUBSET {d \in Client : [e \in Client |-> Inbox(e)][d] # << >>}
  BY <1>3
<1>6. {c \in Client : cl[c] # "closed"}' = {c \in Client : cl[c] # "closed"}
  OBVIOUS
<1> HIDE DEF cut
<1>7. \E some \in SUBSET {d \in Client : [e \in Client |-> Inbox(e)][d] # << >>} :
        [d \in Client |-> Inbox(d)]' =
          [d \in Client |-> IF d \in some
                            THEN SubSeq([e \in Client |-> Inbox(e)][d], 1,
                                        Len([e \in Client |-> Inbox(e)][d]) - 1)
                            ELSE [e \in Client |-> Inbox(e)][d]]
  BY <1>4, <1>5
<1>8. Up' = FALSE /\ UNCHANGED <<username, since, log>>
  BY <1>1 DEF Up
<1> QED
  BY <1>1, <1>6, <1>7, <1>8 DEF Room!Close

-----------------------------------------------------------------------------
(* Each step of the server and the clients is a step of the room, or none.  *)

LEMMA ClientRoom ==
  ASSUME CInv, CInv', NEW c \in Client, ClientProgram(c) \/ User(c)
  PROVE  [Room!Next]_(Room!vars)
<1> USE DEF threadVars, listVars, mainVars, socketVars
<1>1. cl \in [Client -> Places]
  BY Types DEF CInv
<1>2. CASE connect_to_server_socket(c)
  <2>1. \A d \in Client : cl'[d] = "closed" <=> cl[d] = "closed"
    BY <1>1, <1>2 DEF connect_to_server_socket
  <2> QED
    BY <1>2, <2>1, Silent DEF connect_to_server_socket
<1>3. ASSUME NEW type, NEW next \in {"loop", "closed"}, client_send(c, type, next),
             cl[c] # "closed"
      PROVE  [Room!Next]_(Room!vars)
  <2>1. PICK p \in {"loop", "closed"} : cl' = [cl EXCEPT ![c] = p]
    BY <1>3 DEF client_send
  <2>2. CASE p = "closed"
    BY <1>3, <2>1, <2>2, Departs DEF client_send, Room!Next
  <2>3. CASE p = "loop"
    <3>1. \A d \in Client : cl'[d] = "closed" <=> cl[d] = "closed"
      BY <1>1, <1>3, <2>1, <2>3
    <3> QED
      BY <1>3, <3>1, Silent DEF client_send
  <2> QED
    BY <2>2, <2>3
<1>4. CASE client_join(c) \/ client_say(c) \/ client_leave(c)
  BY <1>3, <1>4 DEF client_join, client_say, client_leave
<1>5. CASE client_receive(c)
  <2>1. \A d \in Client : cl'[d] = "closed" <=> cl[d] = "closed"
    BY <1>1, <1>5 DEF client_receive
  <2>2. ASSUME NEW d \in Client
        PROVE  /\ received'[d] \o down'[d] = received[d] \o down[d]
               /\ cl[d] = "closed" => received'[d] = received[d]
    <3>1. CASE UNCHANGED <<received, down>>
      BY <3>1
    <3>2. CASE /\ down[c] # << >>
               /\ received' = [received EXCEPT ![c] = Append(@, Head(down[c]))]
               /\ down' = [down EXCEPT ![c] = Tail(@)]
      <4>1. received[c] \in Seq(Message) /\ down[c] \in Seq(Message) /\ cl[c] = "loop"
        BY <1>5 DEF CInv, TypeOK, client_receive
      <4>2. Append(received[c], Head(down[c])) \o Tail(down[c]) = received[c] \o down[c]
        <5>1. received[c] \in Seq(Message) /\ down[c] \in Seq(Message) /\ down[c] # << >>
          BY <3>2, <4>1
        <5> QED
          BY <5>1, MovesOn
      <4>3. /\ received'[c] = Append(received[c], Head(down[c])) /\ down'[c] = Tail(down[c])
            /\ d # c => received'[d] = received[d] /\ down'[d] = down[d]
        BY <3>2 DEF CInv, TypeOK
      <4> QED
        BY <4>1, <4>2, <4>3
    <3> QED
      BY <1>5, <3>1, <3>2 DEF client_receive
  <2>3. \A d \in Client : Inbox(d)' = Inbox(d)
    BY <1>5, <2>1, <2>2, InboxRests DEF client_receive
  <2> QED
    BY <1>5, <2>1, <2>3, Unseen DEF client_receive
<1>6. CASE client_types(c)
  <2>1. \A d \in Client : cl'[d] = "closed" <=> cl[d] = "closed"
    BY <1>1, <1>6 DEF client_types
  <2> QED
    BY <1>6, <2>1, Silent DEF client_types
<1>7. CASE client_dies(c)
  BY <1>7, Departs DEF client_dies, Room!Next
<1> QED
  BY <1>2, <1>4, <1>5, <1>6, <1>7 DEF ClientProgram, User

LEMMA MainRoom ==
  ASSUME CInv, CInv', Main \/ graceful_shutdown
  PROVE  [Room!Next]_(Room!vars)
<1> USE DEF clientVars, socketVars, threadVars, listVars
<1>1. CASE no_connection \/ graceful_shutdown
  BY <1>1, Silent DEF no_connection, graceful_shutdown
<1>2. ASSUME NEW c \in Client, accept(c)
      PROVE  [Room!Next]_(Room!vars)
  BY <1>2, Silent DEF accept
<1>3. ASSUME NEW again \in BOOLEAN, main_loop(again), Up,
             UNCHANGED <<clientVars, down, username, since, log>>
      PROVE  [Room!Next]_(Room!vars)
  <2>1. CASE again
    BY <1>3, <2>1, Silent DEF main_loop
  <2>2. CASE ~again
    BY <1>3, <2>2, Closes DEF main_loop, Room!Next
  <2> QED
    BY <2>1, <2>2
<1>4. running \in BOOLEAN /\ running' \in BOOLEAN
  BY DEF CInv, TypeOK
<1>5. CASE handle_server_commands
  <2>1. CASE UNCHANGED <<running, server, conn, fd, up, threadVars, rank, mutex>>
    BY <1>5, <2>1, Silent DEF handle_server_commands
  <2>2. CASE main_loop(running')
    BY <1>3, <1>4, <1>5, <2>2 DEF handle_server_commands, At
  <2> QED
    BY <1>5, <2>1, <2>2 DEF handle_server_commands
<1>6. CASE get_client_list_string
  BY <1>3, <1>4, <1>6 DEF get_client_list_string, At
<1> QED
  BY <1>1, <1>2, <1>5, <1>6 DEF Main

LEMMA Entering ==
  ASSUME CInv, CInv', Fresh, NEW c \in Client, add_client_safe(c)
  PROVE  Room!Enter(c)
<1> USE DEF add_client_safe, In, Goto, clientVars, socketVars, mainVars
<1>1. Listed' = Listed \cup {c} /\ c \notin Listed
  BY AddStep
<1>2. \A d \in Client : UnderWay(d) = {}
  BY NothingUnderWay
<1>3. \A d \in Client : UnderWay(d)' = {}
  <2>1. \A e \in Client : h'[e] # "bcast"
    <3>1. h \in [Client -> {"none", "join", "add", "lock", "bcast", "recv",
                           "remove", "close", "done"}]
      BY DEF CInv, TypeOK
    <3>2. \A e \in Client : h[e] # "bcast"
      BY NobodyBroadcasts
    <3> QED
      BY <3>1, <3>2
  <2> QED
    BY <2>1 DEF UnderWay
<1>4. \A d \in Client : Inbox(d)' = Inbox(d)
  BY <1>2, <1>3 DEF Inbox
<1>5. [d \in Client |-> Inbox(d)]' = [d \in Client |-> Inbox(d)]
  BY <1>4
<1>6. /\ username' \in [Client -> Name \cup {NoName, Garbled}]
      /\ \A d \in Client \ {c} : username'[d] = username[d]
  BY DEF CInv, TypeOK
<1>7. Up /\ Up' = Up
  BY DEF Up
<1>8. Inbox(c) = << >>
  <2>1. received[c] = << >> /\ down[c] = << >>
    BY DEF Fresh, Outside
  <2>2. Form(c) /\ << >> \o << >> = << >>
    BY Forms
  <2> QED
    BY <1>2, <2>1, <2>2 DEF Form
<1> QED
  BY <1>1, <1>5, <1>6, <1>7, <1>8 DEF Room!Enter

LEMMA Publishing ==
  ASSUME CInv, CInv', NEW c \in Client, broadcast_message(c)
  PROVE  msg[c] \in Message /\ Room!Publish(msg[c])
<1> USE DEF broadcast_message, In, clientVars, socketVars, listVars, mainVars
<1>1. msg[c] \in Message
  BY DEF CInv, Threads
<1>2. /\ h'[c] = "bcast" /\ todo'[c] = Listed
      /\ \A e \in Client : e # c => h'[e] # "bcast"
  <2>1. /\ h \in [Client -> {"none", "join", "add", "lock", "bcast", "recv",
                             "remove", "close", "done"}]
        /\ todo \in [Client -> SUBSET Client]
    BY DEF CInv, TypeOK
  <2>2. \A e \in Client : h[e] # "bcast"
    BY NobodyBroadcasts
  <2> QED
    BY <2>1, <2>2 DEF Goto
<1>3. Listed' = Listed /\ Up /\ Up'
  BY DEF Listed, Up
<1>4. ASSUME NEW d \in Client
      PROVE  Inbox(d)' = IF /\ d \in Listed \cap {e \in Client : cl[e] # "closed"}
                            /\ username[d] # msg[c].from
                         THEN Append(Inbox(d), msg[c]) ELSE Inbox(d)
  <2>1. UnderWay(d) = {}
    BY NothingUnderWay
  <2>2. UnderWay(d)' = IF d \in Listed /\ username[d] # msg[c].from THEN {c} ELSE {}
    BY <1>2, <1>3 DEF UnderWay
  <2>3. Form(d) /\ Form(d)'
    BY Forms, FormsAfter
  <2>4. CASE cl[d] = "closed"
    BY <2>3, <2>4 DEF Form
  <2>5. CASE cl[d] # "closed"
    <3>1. Inbox(d) = received[d] \o down[d]
      BY <2>1, <2>3, <2>5 DEF Form
    <3>2. CASE d \in Listed /\ username[d] # msg[c].from
      <4>1. UnderWay(d)' = {c}
        BY <2>2, <3>2
      <4>2. Inbox(d)' = Append(received[d] \o down[d], msg[c])
        BY <2>3, <2>5, <4>1 DEF Form
      <4> QED
        BY <2>5, <3>1, <3>2, <4>2
    <3>3. CASE ~(d \in Listed /\ username[d] # msg[c].from)
      <4>1. UnderWay(d)' = {}
        BY <2>2, <3>3
      <4>2. Inbox(d)' = received[d] \o down[d]
        BY <2>3, <2>5, <4>1 DEF Form
      <4> QED
        BY <3>1, <3>3, <4>2
    <3> QED
      BY <3>2, <3>3
  <2> QED
    BY <2>4, <2>5
<1>5. [d \in Client |-> Inbox(d)]' =
        [d \in Client |-> IF /\ d \in Listed \cap {e \in Client : cl[e] # "closed"}
                             /\ username[d] # msg[c].from
                          THEN Append([e \in Client |-> Inbox(e)][d], msg[c])
                          ELSE [e \in Client |-> Inbox(e)][d]]
  BY <1>4
<1> QED
  BY <1>1, <1>3, <1>5 DEF Room!Publish, Room!Hears

\* What is sent was under way before, and is in the socket after.
LEMMA Sending ==
  ASSUME CInv, CInv', NEW c \in Client, broadcast_next(c)
  PROVE  UNCHANGED Room!vars
<1>1. /\ h[c] = "bcast" /\ Up
      /\ UNCHANGED <<user, cl, sent, received, conn, fd, up, h, msg, rank, username, since,
                     mutex, mpc, running, server, log>>
  BY DEF broadcast_next, In, clientVars, listVars, mainVars
<1>2. PICK d \in Newest(todo[c]) :
        /\ IF username[d] = msg[c].from THEN UNCHANGED down ELSE send_protocol_message(c, d)
        /\ todo' = [todo EXCEPT ![c] = @ \ {d}]
  BY DEF broadcast_next
<1>3. d \in Client /\ d \in todo[c] /\ msg[c] \in Message
  BY <1>1 DEF Newest, CInv, Threads, TypeOK
<1>4. /\ todo'[c] = todo[c] \ {d}
      /\ \A e \in Client : e # c => todo'[e] = todo[e]
  BY <1>2, OneValue, Types DEF CInv
<1>5. ASSUME NEW e \in Client, e # d
      PROVE  Inbox(e)' = Inbox(e)
  <2>1. down'[e] = down[e]
    <3>1. down' = down \/ down' = [down EXCEPT ![d] = Append(@, msg[c])]
      BY <1>2 DEF send_protocol_message
    <3> QED
      BY <1>5, <3>1 DEF CInv, TypeOK
  <2>2. \A x \in Client : e \in todo'[x] <=> e \in todo[x]
    BY <1>4, <1>5
  <2> QED
    BY <1>1, <2>1, <2>2, InboxRests
<1>6. Inbox(d)' = Inbox(d)
  <2>1. UnderWay(d) = IF username[d] # msg[c].from THEN {c} ELSE {}
    BY <1>1, <1>3, WhoBroadcasts
  <2>2. UnderWay(d)' = {}
    <3>1. \A e \in Client : h[e] = "bcast" => e = c
      BY <1>1 DEF CInv, Threads
    <3> QED
      BY <1>1, <1>4, <3>1 DEF UnderWay, In
  <2>3. Form(d) /\ Form(d)'
    BY <1>3, Forms, FormsAfter
  <2>4. received[d] \in Seq(Message) /\ down[d] \in Seq(Message)
    BY <1>3 DEF CInv, TypeOK
  <2>5. CASE cl[d] = "closed"
    BY <1>1, <2>3, <2>5 DEF Form
  <2>6. CASE cl[d] # "closed" /\ username[d] = msg[c].from
    <3>1. down' = down
      BY <1>2, <2>6
    <3> QED
      BY <1>1, <2>1, <2>2, <2>3, <2>6, <3>1 DEF Form
  <2>7. CASE cl[d] # "closed" /\ username[d] # msg[c].from
    <3>1. down'[d] = Append(down[d], msg[c])
      BY <1>2, <1>3, <2>7 DEF send_protocol_message, CInv, TypeOK
    <3>2. Inbox(d) = Append(received[d] \o down[d], msg[c])
      BY <2>1, <2>3, <2>7 DEF Form
    <3>3. Inbox(d)' = received[d] \o Append(down[d], msg[c])
      BY <1>1, <2>2, <2>3, <2>7, <3>1 DEF Form
    <3>4. received[d] \o Append(down[d], msg[c]) = Append(received[d] \o down[d], msg[c])
      <4>1. msg[c] \in Message
        BY <1>3
      <4>2. \A r, q \in Seq(Message) : \A m \in Message : r \o Append(q, m) = Append(r \o q, m)
        BY SentLast
      <4> QED
        BY <2>4, <4>1, <4>2
    <3> QED
      BY <3>2, <3>3, <3>4
  <2> QED
    BY <2>5, <2>6, <2>7
<1> QED
  BY <1>1, <1>5, <1>6, Unseen

LEMMA Exiting ==
  ASSUME CInv, CInv', NEW c \in Client, remove_client_safe(c)
  PROVE  Room!Exit(c) \/ UNCHANGED Room!vars
<1> USE DEF remove_client_safe, In, clientVars, socketVars, mainVars
<1>1. Listed' = Listed \ {c}
  BY RemoveStep
<1>2. \A d \in Client : Inbox(d)' = Inbox(d)
  BY InboxRests
<1>3. [d \in Client |-> Inbox(d)]' = [d \in Client |-> Inbox(d)]
  BY <1>2
<1>4. Up /\ Up' = Up
  BY DEF Up
<1>5. CASE c \in Listed
  BY <1>1, <1>3, <1>4, <1>5 DEF Room!Exit
<1>6. CASE c \notin Listed
  BY <1>1, <1>3, <1>4, <1>6 DEF Room!vars
<1> QED
  BY <1>5, <1>6

LEMMA HandlerRoom ==
  ASSUME CInv, CInv', Fresh, NEW c \in Client, Handler(c)
  PROVE  [Room!Next]_(Room!vars)
<1> USE DEF clientVars, socketVars, listVars, mainVars
<1>1. CASE receive_join(c) \/ client_handler(c) \/ close_client(c)
  <2>1. h[c] # "bcast"
    BY <1>1 DEF receive_join, client_handler, close_client, In
  <2>2. \/ msg' = msg
        \/ \E m : msg' = [msg EXCEPT ![c] = m]
    BY <1>1 DEF receive_join, client_handler, close_client, Received, HungUp
  <2>3. todo[c] = {} /\ \A d \in Client : d # c => msg'[d] = msg[d]
    <3>1. todo[c] = {}
      BY <2>1 DEF CInv, Threads
    <3>2. msg \in [Client -> Message \cup {NoMessage}]
      BY DEF CInv, TypeOK
    <3> QED
      BY <2>2, <3>1, <3>2
  <2> QED
    BY <1>1, <2>3, Silent DEF receive_join, client_handler, close_client
<1>2. CASE broadcast_done(c)
  BY <1>2, Silent DEF broadcast_done
<1>3. CASE broadcast_sigpipe(c)
  BY <1>3, Closes DEF broadcast_sigpipe, In, Room!Next
<1> QED
  BY <1>1, <1>2, <1>3, Entering, Publishing, Sending, Exiting DEF Handler, Room!Next

LEMMA StepRoom == CInv /\ CInv' /\ Fresh /\ [Next]_vars => [Room!Next]_(Room!vars)
<1> SUFFICES ASSUME CInv, CInv', Fresh, [Next]_vars PROVE [Room!Next]_(Room!vars)
  OBVIOUS
<1>1. CASE UNCHANGED vars
  BY <1>1, Silent DEF vars, clientVars, socketVars, threadVars, listVars, mainVars
<1> QED
  BY <1>1, ClientRoom, MainRoom, HandlerRoom DEF Next

-----------------------------------------------------------------------------
(* The theorems.                                                            *)

\* In every reachable state the list, the threads, the mutex and the messages
\* in the sockets fit together.
THEOREM ChatInvariance == Spec => []CInv
BY InitCInv, StepCInv, PTL DEF Spec

\* Whatever the clients, their users and the threads do, every variable of the
\* chat keeps its type; in particular a descriptor is never out of range.
THEOREM ChatTypeCorrect == Spec => []TypeOK
<1>1. CInv => TypeOK
  BY DEF CInv
<1> QED
  BY <1>1, ChatInvariance, PTL

\* add_client_safe and remove_client_safe keep in the list the nodes of the
\* joined clients and no freed one, for any number of threads.
THEOREM ListIsSound == Spec => []ListSound
<1>1. CInv => ListSound
  BY DEF CInv
<1> QED
  BY <1>1, ChatInvariance, PTL

\* broadcast_message compares names, and yet a client whose name fits its
\* buffer never gets its own messages back.
THEOREM NobodyEchoes == Spec => []NoEcho
<1>1. CInv => NoEcho
  BY DEF CInv
<1> QED
  BY <1>1, ChatInvariance, PTL

\* The server implements the room: taking the mutex in broadcast_message
\* publishes a message to all the members at once, add_client_safe and
\* remove_client_safe are the entry and the exit, and no other step of the
\* server can be told from nothing, but for the end of a process.
THEOREM ServerImplementsRoom == Spec => ImplementsRoom
<1>1. Init => Room!Init
  BY InitRoom
<1>2. CInv /\ CInv' /\ Fresh /\ [Next]_vars => [Room!Next]_(Room!vars)
  BY StepRoom
<1>3. Spec => []Fresh
  BY ChatInvariance, InitFresh, StepFresh, PTL DEF Spec
<1> QED
  BY <1>1, <1>2, <1>3, ChatInvariance, PTL DEF Spec, ImplementsRoom, Room!Spec

\* And so each client in the list has been sent, by threads that work side by
\* side, just what was logged since it was linked, once and in that order.
THEOREM ClientsHeardTheLog == Spec => []HeardTheLog
<1>1. Room!Init => RoomFacts!RoomInv
  BY RoomFacts!RoomInit DEF Room!Init, RoomFacts!Init
<1>2. RoomFacts!RoomInv /\ [Room!Next]_(Room!vars) => RoomFacts!RoomInv'
  <2>1. [Room!Next]_(Room!vars) => [RoomFacts!Next]_(RoomFacts!vars)
    BY DEF Room!Next, RoomFacts!Next, Room!vars, RoomFacts!vars, Room!Enter, RoomFacts!Enter,
           Room!Exit, RoomFacts!Exit, Room!Depart, RoomFacts!Depart, Room!Publish,
           RoomFacts!Publish, Room!Hears, RoomFacts!Hears, Room!Close, RoomFacts!Close
  <2> QED
    BY <2>1, RoomFacts!RoomStep
<1>3. RoomFacts!RoomInv => HeardTheLog
  <2>1. RoomFacts!RoomInv => RoomFacts!HeardTheLog
    BY DEF RoomFacts!RoomInv
  <2>2. RoomFacts!HeardTheLog => Room!HeardTheLog
    BY Zenon DEF RoomFacts!HeardTheLog, Room!HeardTheLog, RoomFacts!Holds, Room!Holds,
                 RoomFacts!Owed, Room!Owed, RoomFacts!Hears, Room!Hears,
                 RoomFacts!Cardinality, Room!Cardinality
  <2> QED
    BY <2>1, <2>2 DEF HeardTheLog
<1> QED
  BY <1>1, <1>2, <1>3, ServerImplementsRoom, PTL DEF ImplementsRoom, Room!Spec

=============================================================================

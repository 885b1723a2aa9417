----------------------------- MODULE ChatServer -----------------------------
(***************************************************************************)
(* The chat of 2.5_chatsystem: a server with one thread per client, a      *)
(* linked list of clients under a mutex, and the client program, joined by *)
(* stream sockets of finite capacity.  A step is the code between two      *)
(* blocking calls or two accesses to what threads share.                   *)
(***************************************************************************)
EXTENDS Integers, Sequences, FiniteSets

CONSTANTS
  Client,     \* the client processes; each connects at most once
  Name,       \* user names
  LongName,   \* the names of USERNAME_MAX - 1 bytes
  NoName,     \* the name in a node before the client has joined
  Garbled,    \* a long name that runs on into a byte never written
  Nobody,     \* no holder of the mutex
  MaxFd,      \* descriptors the server may hold for clients
  Cap,        \* messages a socket buffer holds in each direction
  MaxSends,   \* bound: messages a user types
  Talker,     \* bound: the clients whose users type messages
  Leaver      \* bound: the clients that may quit, be interrupted or crash

ASSUME ChatAssumption ==
  /\ IsFiniteSet(Client) /\ Nobody \notin Client
  /\ LongName \subseteq Name
  /\ NoName \notin Name \cup {Garbled} /\ Garbled \notin Name
  /\ MaxFd \in Nat \ {0} /\ Cap \in Nat \ {0} /\ MaxSends \in Nat
  /\ Talker \subseteq Client /\ Leaver \subseteq Client

VARIABLES
  \* the client programs
  user,      \* the name typed at the prompt
  cl,        \* where each client is in its program
  sent,      \* how many messages its user has typed
  received,  \* the messages it has printed
  \* the sockets
  conn,      \* server's end: none, backlog, open or closed
  fd,        \* the descriptor accept returned, kept in the node
  up, down,  \* messages on their way to the server, to the client
  \* the server
  h,         \* where each handler thread is
  msg,       \* its message_t
  todo,      \* the nodes its broadcast has not visited yet
  rank,      \* when the node was linked, 0 when it is not in the list
  username,  \* the name in the node
  mutex,     \* who holds client_list_mutex
  mpc,       \* where the main thread is
  running,
  server,    \* "up", "exited" or "sigpipe"
  log,       \* the MSG lines of the server's log
  since      \* history: length of the log when each client was linked

clientVars == <<user, cl, sent, received>>
socketVars == <<conn, fd, up, down>>
threadVars == <<h, msg, todo>>
listVars   == <<rank, username, since>>
mainVars   == <<mpc, running, server>>
vars == <<clientVars, socketVars, threadVars, listVars, mutex, mainVars, log>>

Message == [type : {"JOIN", "BROADCAST", "LEAVE"}, from : Name, by : Client,
            k : 0 .. MaxSends]
NoMessage == [type |-> "none", from |-> NoName, by |-> Nobody, k |-> 0]

Fd == 1 .. MaxFd

TypeOK ==
  /\ user \in [Client -> Name \cup {NoName}]
  /\ cl \in [Client -> {"off", "join", "loop", "send", "leave", "closed"}]
  /\ sent \in [Client -> 0 .. MaxSends]
  /\ received \in [Client -> Seq(Message)]
  /\ conn \in [Client -> {"none", "backlog", "open", "closed"}]
  /\ fd \in [Client -> Fd \cup {0}]
  /\ up \in [Client -> Seq(Message)] /\ down \in [Client -> Seq(Message)]
  /\ h \in [Client -> {"none", "join", "add", "lock", "bcast", "recv",
                       "remove", "close", "done"}]
  /\ msg \in [Client -> Message \cup {NoMessage}]
  /\ todo \in [Client -> SUBSET Client]
  /\ rank \in [Client -> Nat]
  /\ username \in [Client -> Name \cup {NoName, Garbled}]
  /\ mutex \in Client \cup {Nobody}
  /\ mpc \in {"select", "stdin", "list"}
  /\ running \in BOOLEAN
  /\ server \in {"up", "exited", "sigpipe"}
  /\ log \in Seq(Message)
  /\ since \in [Client -> Nat]

Init ==
  /\ user = [c \in Client |-> NoName]
  /\ cl = [c \in Client |-> "off"]
  /\ sent = [c \in Client |-> 0]
  /\ received = [c \in Client |-> << >>]
  /\ conn = [c \in Client |-> "none"]
  /\ fd = [c \in Client |-> 0]
  /\ up = [c \in Client |-> << >>] /\ down = [c \in Client |-> << >>]
  /\ h = [c \in Client |-> "none"]
  /\ msg = [c \in Client |-> NoMessage]
  /\ todo = [c \in Client |-> {}]
  /\ rank = [c \in Client |-> 0]
  /\ username = [c \in Client |-> NoName]
  /\ mutex = Nobody
  /\ mpc = "select" /\ running = TRUE /\ server = "up"
  /\ log = << >>
  /\ since = [c \in Client |-> 0]

Up == server = "up"

\* The end of the server process: its threads, its memory and its descriptors
\* are gone; what it has sent can still be read.
Ends(how) ==
  /\ server' = how
  /\ conn' = [c \in Client |-> IF conn[c] = "none" THEN "none" ELSE "closed"]
  /\ fd' = [c \in Client |-> 0]
  /\ up' = [c \in Client |-> << >>]
  /\ h' = [c \in Client |-> IF h[c] = "none" THEN "none" ELSE "done"]
  /\ msg' = [c \in Client |-> NoMessage]
  /\ todo' = [c \in Client |-> {}]
  /\ rank' = [c \in Client |-> 0]
  /\ mutex' = Nobody

-----------------------------------------------------------------------------
(* The client program.                                                     *)

\* connect() succeeds as soon as the server listens; accept comes later.
connect_to_server_socket(c) ==
  /\ cl[c] = "off" /\ Up
  /\ \E u \in Name : user' = [user EXCEPT ![c] = u]
  /\ cl' = [cl EXCEPT ![c] = "join"]
  /\ conn' = [conn EXCEPT ![c] = "backlog"]
  /\ UNCHANGED <<sent, received, fd, up, down, threadVars, listVars, mutex,
                 mainVars, log>>

\* send() blocks while the buffer is full.  When the server's end is gone it
\* raises SIGPIPE, which ends the client: it is closed either way.
client_send(c, type, next) ==
  /\ \/ /\ conn[c] # "closed" /\ Len(up[c]) < Cap
        /\ up' = [up EXCEPT ![c] = Append(@,
                   [type |-> type, from |-> user[c], by |-> c, k |-> sent[c]])]
        /\ cl' = [cl EXCEPT ![c] = next]
     \/ /\ conn[c] = "closed"
        /\ cl' = [cl EXCEPT ![c] = "closed"]
        /\ UNCHANGED up
  /\ UNCHANGED <<user, sent, received, conn, fd, down, threadVars, listVars,
                 mutex, mainVars, log>>

client_join(c)  == cl[c] = "join"  /\ client_send(c, "JOIN", "loop")
client_say(c)   == cl[c] = "send"  /\ client_send(c, "BROADCAST", "loop")
client_leave(c) == cl[c] = "leave" /\ client_send(c, "LEAVE", "closed")

client_receive(c) ==
  /\ cl[c] = "loop"
  /\ \/ /\ down[c] # << >>
        /\ received' = [received EXCEPT ![c] = Append(@, Head(down[c]))]
        /\ down' = [down EXCEPT ![c] = Tail(@)]
        /\ UNCHANGED cl
     \/ /\ down[c] = << >> /\ conn[c] = "closed"
        /\ cl' = [cl EXCEPT ![c] = "leave"]
        /\ UNCHANGED <<received, down>>
  /\ UNCHANGED <<user, sent, conn, fd, up, threadVars, listVars, mutex,
                 mainVars, log>>

\* The user types a line, or /quit.
client_types(c) ==
  /\ cl[c] = "loop"
  /\ \/ /\ c \in Talker /\ sent[c] < MaxSends
        /\ sent' = [sent EXCEPT ![c] = @ + 1]
        /\ cl' = [cl EXCEPT ![c] = "send"]
     \/ /\ c \in Leaver
        /\ cl' = [cl EXCEPT ![c] = "leave"]
        /\ UNCHANGED sent
  /\ UNCHANGED <<user, received, socketVars, threadVars, listVars, mutex,
                 mainVars, log>>

\* Ctrl+C, or a crash, at any point of the client.
client_dies(c) ==
  /\ c \in Leaver
  /\ cl[c] \in {"join", "loop", "send", "leave"}
  /\ cl' = [cl EXCEPT ![c] = "closed"]
  /\ UNCHANGED <<user, sent, received, socketVars, threadVars, listVars, mutex,
                 mainVars, log>>

-----------------------------------------------------------------------------
(* The main thread.                                                        *)

At(p) == Up /\ mpc = p

OpenFds == {fd[c] : c \in {d \in Client : conn[d] = "open"}}

\* The head of the loop: another pass or the end of the process.
main_loop(again) ==
  \/ /\ again
     /\ mpc' = "select"
     /\ UNCHANGED <<server, conn, fd, up, threadVars, rank, mutex>>
  \/ /\ ~again
     /\ Ends("exited")
     /\ UNCHANGED mpc

\* select() reports a connection: accept, and a handler thread for it.  When
\* no thread can be made the connection is closed.
accept(c) ==
  /\ At("select") /\ conn[c] = "backlog"
  /\ mpc' = "stdin"
  /\ \E f \in Fd \ OpenFds :
       /\ \A g \in Fd \ OpenFds : f <= g
       /\ \/ /\ conn' = [conn EXCEPT ![c] = "open"]
             /\ fd' = [fd EXCEPT ![c] = f]
             /\ h' = [h EXCEPT ![c] = "join"]
          \/ /\ conn' = [conn EXCEPT ![c] = "closed"]
             /\ UNCHANGED <<fd, h>>
  /\ UNCHANGED <<clientVars, up, down, msg, todo, listVars, mutex, running,
                 server, log>>

\* No connection, or no descriptor left for it.
no_connection ==
  /\ At("select")
  /\ Fd \subseteq OpenFds \/ \A c \in Client : conn[c] # "backlog"
  /\ mpc' = "stdin"
  /\ UNCHANGED <<clientVars, socketVars, threadVars, listVars, mutex, running,
                 server, log>>

\* /list and /stats need the mutex; /shutdown clears running; anything else,
\* or nothing, goes round the loop.
handle_server_commands ==
  /\ At("stdin")
  /\ \/ /\ mpc' = "list"
        /\ UNCHANGED <<running, server, conn, fd, up, threadVars, rank, mutex>>
     \/ /\ running' \in {running, FALSE}
        /\ main_loop(running')
  /\ UNCHANGED <<clientVars, down, username, since, log>>

\* get_client_list_string and get_active_client_count.
get_client_list_string ==
  /\ At("list") /\ mutex = Nobody
  /\ main_loop(running)
  /\ UNCHANGED <<clientVars, down, username, since, running, log>>

\* SIGINT, whatever thread takes it.
graceful_shutdown ==
  /\ Up /\ running
  /\ running' = FALSE
  /\ UNCHANGED <<clientVars, socketVars, threadVars, listVars, mutex, mpc,
                 server, log>>

-----------------------------------------------------------------------------
(* The handler threads.                                                    *)

In(c, p) == Up /\ h[c] = p
Goto(c, p) == h' = [h EXCEPT ![c] = p]

Listed == {d \in Client : rank[d] > 0}

\* The node linked last of those in S: the one closest to the list's head.
Newest(S) == {d \in S : \A e \in S : rank[e] <= rank[d]}

\* receive_protocol_message: what is in the socket, then the end of it.  A
\* message enters and leaves a stream socket whole.
Received(c, m) ==
  /\ up[c] # << >> /\ m = Head(up[c])
  /\ up' = [up EXCEPT ![c] = Tail(@)]
  /\ msg' = [msg EXCEPT ![c] = m]
HungUp(c) == up[c] = << >> /\ cl[c] = "closed" /\ UNCHANGED <<up, msg>>

\* Fault: it does not test that something was received.
join_unchecked(c) ==
  /\ In(c, "join")
  /\ \/ \E m \in Message : Received(c, m) /\ Goto(c, IF m.type = "JOIN" THEN "add" ELSE "remove")
     \/ HungUp(c) /\ Goto(c, "add")
  /\ UNCHANGED <<clientVars, conn, fd, down, todo, listVars, mutex, mainVars, log>>

\* client_handler's first phase: MSG_JOIN, or the connection is dropped.
receive_join(c) ==
  /\ In(c, "join")
  /\ \/ \E m \in Message : Received(c, m) /\ Goto(c, IF m.type = "JOIN" THEN "add" ELSE "remove")
     \/ HungUp(c) /\ Goto(c, "remove")
  /\ UNCHANGED <<clientVars, conn, fd, down, todo, listVars, mutex, mainVars, log>>

\* strncpy of USERNAME_MAX - 1 bytes: the last byte of a node's name is never
\* written, so a name that long may run on into it.  The node becomes the
\* head of the list.
add_client_safe(c) ==
  /\ In(c, "add") /\ mutex = Nobody
  /\ \E u \in {msg[c].from} \cup (IF msg[c].from \in LongName THEN {Garbled} ELSE {}) :
       username' = [username EXCEPT ![c] = u]
  /\ rank' = [rank EXCEPT ![c] = Cardinality(Listed) + 1]
  /\ since' = [since EXCEPT ![c] = Len(log)]
  /\ Goto(c, "lock")
  /\ UNCHANGED <<clientVars, socketVars, msg, todo, mutex, mainVars, log>>

\* Fault: broadcast_message does not take the mutex.
broadcast_unlocked(c) ==
  /\ In(c, "lock")
  /\ mutex' = c
  /\ todo' = [todo EXCEPT ![c] = Listed]
  /\ log' = Append(log, msg[c])
  /\ Goto(c, "bcast")
  /\ UNCHANGED <<clientVars, socketVars, msg, listVars, mainVars>>

\* broadcast_message takes the mutex and starts at the head of the list ...
broadcast_message(c) ==
  /\ In(c, "lock") /\ mutex = Nobody
  /\ mutex' = c
  /\ todo' = [todo EXCEPT ![c] = Listed]
  /\ log' = Append(log, msg[c])
  /\ Goto(c, "bcast")
  /\ UNCHANGED <<clientVars, socketVars, msg, listVars, mainVars>>

\* send_protocol_message to node d.  send() blocks while the buffer is full;
\* in a thread that is blocked when the client goes it returns -1.
send_protocol_message(c, d) ==
  \/ /\ cl[d] # "closed" /\ Len(down[d]) < Cap
     /\ down' = [down EXCEPT ![d] = Append(@, msg[c])]
  \/ /\ cl[d] = "closed" /\ Len(down[d]) = Cap
     /\ UNCHANGED down

\* Fault: the loop ends at the sender's own node.
broadcast_breaks(c) ==
  /\ In(c, "bcast")
  /\ \E d \in Newest(todo[c]) :
       IF username[d] = msg[c].from
       THEN todo' = [todo EXCEPT ![c] = {}] /\ UNCHANGED down
       ELSE todo' = [todo EXCEPT ![c] = @ \ {d}] /\ send_protocol_message(c, d)
  /\ UNCHANGED <<clientVars, conn, fd, up, h, msg, listVars, mutex, mainVars, log>>

\* Fault: it skips the newest node, which it takes for the sender's.
broadcast_by_first(c) ==
  /\ In(c, "bcast")
  /\ \E d \in Newest(todo[c]) :
       /\ IF d \in Newest(Listed) THEN UNCHANGED down
                                   ELSE send_protocol_message(c, d)
       /\ todo' = [todo EXCEPT ![c] = @ \ {d}]
  /\ UNCHANGED <<clientVars, conn, fd, up, h, msg, listVars, mutex, mainVars, log>>

\* ... sends to the next node unless it has the sender's name ...
broadcast_next(c) ==
  /\ In(c, "bcast")
  /\ \E d \in Newest(todo[c]) :
       /\ IF username[d] = msg[c].from THEN UNCHANGED down
                                       ELSE send_protocol_message(c, d)
       /\ todo' = [todo EXCEPT ![c] = @ \ {d}]
  /\ UNCHANGED <<clientVars, conn, fd, up, h, msg, listVars, mutex, mainVars, log>>

\* ... or, when that client has gone, gets a SIGPIPE, which nothing handles.
broadcast_sigpipe(c) ==
  /\ In(c, "bcast")
  /\ \E d \in Newest(todo[c]) : username[d] # msg[c].from /\ cl[d] = "closed"
  /\ Ends("sigpipe")
  /\ UNCHANGED <<clientVars, down, username, since, mpc, running, log>>

\* The test of the receive loop.
Again(c) == Goto(c, IF running THEN "recv" ELSE "remove")

\* Fault: it does not give the mutex back.
broadcast_keeps(c) ==
  /\ In(c, "bcast") /\ todo[c] = {}
  /\ Again(c)
  /\ UNCHANGED <<clientVars, socketVars, msg, todo, listVars, mutex, mainVars, log>>

\* ... and gives the mutex back.
broadcast_done(c) ==
  /\ In(c, "bcast") /\ todo[c] = {}
  /\ mutex' = Nobody
  /\ Again(c)
  /\ UNCHANGED <<clientVars, socketVars, msg, todo, listVars, mainVars, log>>

\* Faults: the end of the stream skips the removal; the loop goes on after it.
client_handler_leaks(c) ==
  /\ In(c, "recv")
  /\ \/ \E m \in Message : /\ Received(c, m)
                           /\ IF m.type = "BROADCAST" THEN Goto(c, "lock") ELSE Again(c)
     \/ HungUp(c) /\ Goto(c, "close")
  /\ UNCHANGED <<clientVars, conn, fd, down, todo, listVars, mutex, mainVars, log>>
client_handler_stays(c) ==
  /\ In(c, "recv")
  /\ \/ \E m \in Message : /\ Received(c, m)
                           /\ IF m.type = "BROADCAST" THEN Goto(c, "lock") ELSE Again(c)
     \/ HungUp(c) /\ Again(c)
  /\ UNCHANGED <<clientVars, conn, fd, down, todo, listVars, mutex, mainVars, log>>

\* client_handler's receive loop.  Only MSG_BROADCAST is processed.
client_handler(c) ==
  /\ In(c, "recv")
  /\ \/ \E m \in Message : /\ Received(c, m)
                           /\ IF m.type = "BROADCAST" THEN Goto(c, "lock") ELSE Again(c)
     \/ HungUp(c) /\ Goto(c, "remove")
  /\ UNCHANGED <<clientVars, conn, fd, down, todo, listVars, mutex, mainVars, log>>

\* remove_client_safe unlinks the first node that has the descriptor.
remove_client_safe(c) ==
  /\ In(c, "remove") /\ mutex = Nobody
  /\ LET found == Newest({d \in Listed : fd[d] = fd[c]}) IN
       rank' = [d \in Client |-> IF d \in found THEN 0
                                 ELSE IF \E e \in found : rank[d] > rank[e]
                                      THEN rank[d] - 1 ELSE rank[d]]
  /\ Goto(c, "close")
  /\ UNCHANGED <<clientVars, socketVars, msg, todo, username, since, mutex,
                 mainVars, log>>

\* close and free: the descriptor may be handed out again from here on.
close_client(c) ==
  /\ In(c, "close")
  /\ conn' = [conn EXCEPT ![c] = "closed"]
  /\ fd' = [fd EXCEPT ![c] = 0]
  /\ msg' = [msg EXCEPT ![c] = NoMessage]
  /\ Goto(c, "done")
  /\ UNCHANGED <<clientVars, up, down, todo, listVars, mutex, mainVars, log>>

-----------------------------------------------------------------------------
ClientProgram(c) == client_join(c) \/ client_say(c) \/ client_leave(c) \/ client_receive(c)

User(c) == connect_to_server_socket(c) \/ client_types(c) \/ client_dies(c)

Main ==
  \/ no_connection \/ handle_server_commands \/ get_client_list_string
  \/ \E c \in Client : accept(c)

Handler(c) ==
  \/ receive_join(c) \/ add_client_safe(c)
  \/ broadcast_message(c) \/ broadcast_next(c) \/ broadcast_sigpipe(c)
  \/ broadcast_done(c)
  \/ client_handler(c) \/ remove_client_safe(c) \/ close_client(c)

Next ==
  \/ \E c \in Client : ClientProgram(c) \/ User(c) \/ Handler(c)
  \/ Main
  \/ graceful_shutdown

Spec == Init /\ [][Next]_vars

(***************************************************************************)
(* Every thread that can run does: the main thread, each handler and each  *)
(* client program.  What the user does, and Ctrl+C, is up to the user.     *)
(***************************************************************************)
FairSpec == /\ Spec /\ WF_vars(Main)
            /\ \A c \in Client : WF_vars(Handler(c)) /\ WF_vars(ClientProgram(c))

-----------------------------------------------------------------------------
(* Safety.                                                                 *)

\* The handlers between their client's JOIN and the removal of its node.
Joined == {c \in Client : /\ h[c] \in {"lock", "bcast", "recv", "remove"}
                          /\ username[c] # NoName}

\* The list holds exactly the nodes of the joined clients: none that is freed,
\* none whose descriptor is closed or has been handed to another client.  A
\* broadcast, which uses the nodes and the descriptors of other threads,
\* visits only such nodes.
ListSound ==
  /\ Listed = Joined
  /\ \A c \in Listed : conn[c] = "open"
  /\ \A c, d \in Client : conn[c] = "open" /\ conn[d] = "open" /\ fd[c] = fd[d] => c = d
  /\ \A c \in Client : todo[c] \subseteq Listed

-----------------------------------------------------------------------------
(* The server implements a room in which a message is published in the one *)
(* step that takes the mutex: what a broadcast has still to send counts as *)
(* sent.  A client that has closed its socket hears no more than it has    *)
(* printed.                                                                *)

UnderWay(d) == {c \in Client : /\ In(c, "bcast") /\ d \in todo[c]
                               /\ username[d] # msg[c].from}

Inbox(d) ==
  IF cl[d] = "closed" THEN received[d]
  ELSE received[d] \o down[d]
         \o (IF UnderWay(d) = {} THEN << >>
             ELSE << msg[CHOOSE c \in UnderWay(d) : TRUE] >>)

Room == INSTANCE ChatRoom WITH
          Name <- Name \cup {NoName, Garbled},
          member <- Listed, name <- username,
          present <- {c \in Client : cl[c] # "closed"},
          inbox <- [d \in Client |-> Inbox(d)],
          open <- Up

\* Every message reaches all the members of the room, or none, as if it were
\* sent at one moment, although it is sent to one client at a time while
\* others join, leave and die.
ImplementsRoom == Room!Spec

\* A member has been sent exactly the broadcasts logged since it joined.
HeardTheLog == Room!HeardTheLog

\* What a client hears of its own comes from a name that fills the buffer:
\* whatever else joins, a shorter name never gets its own messages back.
NoEcho ==
  \A c \in Client : user[c] \notin LongName =>
    \A i \in 1 .. Len(received[c]) : received[c][i].by # c

-----------------------------------------------------------------------------
(* Liveness.                                                               *)

\* After Ctrl+C or /shutdown the server ends (chat_server.c: it is shutting
\* down gracefully), whatever its threads were doing.
ShutdownEnds == ~running ~> ~Up

\* A client that has gone is taken off the list and its descriptor is closed.
GoneIsCleaned ==
  \A c \in Leaver : (cl[c] = "closed" /\ conn[c] = "open") ~> (conn[c] = "closed" \/ ~Up)

\* What a user says is published, unless somebody goes or the server ends.
SaidIsPublished ==
  \A c \in Talker : cl[c] = "send" ~>
    \/ \E i \in 1 .. Len(log) : log[i].by = c /\ log[i].k = sent[c]
    \/ cl[c] = "closed" \/ ~running

-----------------------------------------------------------------------------
(* What the repository says of the chat and the code does not do.          *)

\* An error in sending to a client that has gone is handled, and its thread
\* manages the disconnection (comments in broadcast_message): the server
\* outlives its clients.
ServerSurvives == server # "sigpipe"

=============================================================================

---------------------------- MODULE RemoteModule ----------------------------
(***************************************************************************)
(* RemoteModule serves the virtual file system over TCP: Enable starts a   *)
(* detached thread, which accepts one client at a time and answers its     *)
(* requests; Disable and the destructor clear m_CanRun and wait until the  *)
(* thread has cleared m_ThreadRunning.  The client is that of              *)
(* RemoteContainer's Connection.                                           *)
(*                                                                         *)
(* A message is a header and, if its PayLoadSize says so, a body; each is  *)
(* read and written on its own, and m_CanRun is tested before each.  The   *)
(* flags are volatile and not atomic; every access is taken to be seen at  *)
(* once.  The tables are sent as they are, whatever other threads do.      *)
(***************************************************************************)
EXTENDS Integers, Sequences

CONSTANTS
  Files,            \* the files a client asks for
  FileTable,        \* the two tables it fetches first
  StringTable,
  Size,             \* the bytes of each
  Short,            \* a response whose content did not fit
  Failed,           \* a response that reports a failure
  NoItem,           \* no content
  MaxThreads,       \* bound: calls of Enable that start a thread
  MaxConnections,   \* bound: connections clients open
  Buffers,          \* bound: parts of messages a connection takes that nobody reads
  MaxRequests       \* bound: requests of one connection, the first Ping included

Items == Files \cup {FileTable, StringTable}

ASSUME RemoteModuleAssumption ==
  /\ FileTable \notin Files /\ StringTable \notin Files /\ FileTable # StringTable
  /\ Items \cap {Short, Failed, NoItem} = {}
  /\ Short \notin {Failed, NoItem} /\ Failed # NoItem
  /\ Size \in [Items -> Nat]
  /\ MaxThreads \in Nat /\ MaxConnections \in Nat /\ MaxRequests \in Nat
  /\ Buffers \in Nat

VARIABLES
  control,          \* where the thread that owns the module is
  canRun,           \* m_CanRun
  threadRunning,    \* m_ThreadRunning
  raced,            \* Enable or Disable was called before a new thread had set its flag
  thread,           \* the server threads: where they are, and their message buffer
  conn,             \* the TCP connections
  client            \* the client's Connection and its call in progress

vars == <<control, canRun, threadRunning, raced, thread, conn, client>>

Threads == 1 .. MaxThreads
Connections == 1 .. MaxConnections

Commands == {"NOP", "Ping", "Pong", "GetFileTable", "GetStringTable", "GetFile"}

CommandFor(item) ==
  CASE item = FileTable -> "GetFileTable"
    [] item = StringTable -> "GetStringTable"
    [] item \in Files -> "GetFile"

(* A message as the parts the stream carries. *)
Message(cmd, item, body) ==
  LET last == [cmd |-> cmd, item |-> item, more |-> FALSE]
  IN  IF body THEN <<[cmd |-> cmd, item |-> NoItem, more |-> TRUE], last>> ELSE <<last>>

Request(item) == Message(CommandFor(item), IF item \in Files THEN item ELSE NoItem, item \in Files)

(* PushString drops what does not fit behind what the buffer already holds, *)
(* and nobody looks at its result.                                          *)
PushString(item, used) == IF Size[item] + used > 131072 THEN Short ELSE item

(* What ProcessCommand writes: the response's header still claims the size  *)
(* or the number of elements of what was dropped.                           *)
Response(cmd, item) ==
  CASE cmd = "Ping" -> Message("Pong", NoItem, FALSE)
    [] cmd = "Pong" -> Message("Ping", NoItem, FALSE)
    [] cmd = "GetFileTable" ->
         LET table == PushString(FileTable, 16) IN Message(cmd, table, table # Short)
    [] cmd = "GetStringTable" ->
         LET table == PushString(StringTable, 16) IN Message(cmd, table, table # Short)
    [] cmd = "GetFile" -> Message(cmd, PushString(item, 24), TRUE)

Unused == [state |-> "unused", host |-> 0, open |-> FALSE,
           in |-> << >>, out |-> << >>, asked |-> << >>, answered |-> << >>]

Off == [pc |-> "off", conn |-> 0, left |-> << >>, item |-> NoItem, got |-> <<NoItem, NoItem>>]

Fresh == [pc |-> "none", conn |-> 0, cmd |-> "NOP", item |-> NoItem, left |-> << >>]

Init ==
  /\ control = "idle"
  /\ canRun = FALSE
  /\ threadRunning = FALSE
  /\ raced = FALSE
  /\ thread = [t \in Threads |-> Fresh]
  /\ conn = [k \in Connections |-> Unused]
  /\ client = Off

Alive == {t \in Threads : thread[t].pc \notin {"none", "ended"}}

(* Some thread has not set m_ThreadRunning yet. *)
Starting == \E t \in Threads : thread[t].pc = "spawned"

(* The threads whose acceptor is open. *)
Listening == {t \in Threads : thread[t].pc \in {"accepting", "ready", "reading", "header",
                                               "payload", "body", "process", "write", "writing"}}

-----------------------------------------------------------------------------
(* Calls of the thread that owns the module; Enable returns at once if a   *)
(* thread has set its flag.                                                *)
Enable(t) ==
  /\ control = "idle"
  /\ ~threadRunning
  /\ \A u \in 1 .. t : (u < t) = (thread[u].pc # "none")
  /\ canRun' = TRUE
  /\ thread' = [thread EXCEPT ![t].pc = "spawned"]
  /\ raced' = (raced \/ Starting)
  /\ UNCHANGED <<control, threadRunning, conn, client>>

(* Disable, from the program or from the destructor. *)
Disable(from) ==
  /\ control = "idle"
  /\ canRun' = FALSE
  /\ control' = from
  /\ raced' = (raced \/ Starting)
  /\ UNCHANGED <<threadRunning, thread, conn, client>>

(* Faulty: it does not wait for the thread. *)
DisableReturnsAtOnce ==
  /\ control \in {"disabling", "destroying"}
  /\ control' = IF control = "disabling" THEN "idle" ELSE "destroyed"
  /\ UNCHANGED <<canRun, threadRunning, raced, thread, conn, client>>

DisableReturns ==
  /\ control \in {"disabling", "destroying"}
  /\ ~threadRunning
  /\ control' = IF control = "disabling" THEN "idle" ELSE "destroyed"
  /\ UNCHANGED <<canRun, threadRunning, raced, thread, conn, client>>

-----------------------------------------------------------------------------
(* Steps of server thread t. *)
Goto(t, pc) == thread' = [thread EXCEPT ![t].pc = pc]

ThreadStarts(t) ==
  /\ thread[t].pc = "spawned"
  /\ threadRunning' = TRUE
  /\ Goto(t, "loop")
  /\ UNCHANGED <<control, canRun, raced, conn, client>>

(* The loop of ThreadMain, up to its sleep. *)
Loop(t) ==
  /\ thread[t].pc = "loop"
  /\ Goto(t, IF canRun THEN "asleep" ELSE "ending")
  /\ UNCHANGED <<control, canRun, threadRunning, raced, conn, client>>

Bind(t) ==
  /\ thread[t].pc = "asleep"
  /\ Goto(t, "accepting")
  /\ UNCHANGED <<control, canRun, threadRunning, raced, conn, client>>

(* The port is in use, by another thread or another program: the acceptor's *)
(* constructor throws out of ThreadMain.                                    *)
BindFails(t) ==
  /\ thread[t].pc = "asleep"
  /\ Goto(t, "ending")
  /\ UNCHANGED <<control, canRun, threadRunning, raced, conn, client>>

Accept(t, k) ==
  /\ thread[t].pc = "accepting"
  /\ conn[k].state = "queued" /\ conn[k].host = t
  /\ conn' = [conn EXCEPT ![k].state = "served"]
  /\ thread' = [thread EXCEPT ![t].pc = "ready", ![t].conn = k]
  /\ UNCHANGED <<control, canRun, threadRunning, raced, client>>

(* HandleClient returns, or accept reported an error.  The acceptor is      *)
(* closed, and with it what waits in its queue.                             *)
Leave(t) ==
  /\ conn' = [k \in Connections |->
                IF conn[k].host = t /\ conn[k].state \in {"queued", "served"}
                THEN [Unused EXCEPT !.state = "closed", !.host = t,
                                    !.open = conn[k].open, !.out = conn[k].out]
                ELSE conn[k]]
  /\ thread' = [thread EXCEPT ![t] = [Fresh EXCEPT !.pc = "loop"]]
  /\ UNCHANGED <<control, canRun, threadRunning, raced, client>>

AcceptFails(t) == thread[t].pc = "accepting" /\ Leave(t)

(* The loop of HandleClient. *)
HandleClient(t) ==
  /\ thread[t].pc = "ready"
  /\ \/ /\ canRun
        /\ Goto(t, "reading")
        /\ UNCHANGED <<control, canRun, threadRunning, raced, conn, client>>
     \/ ~canRun /\ Leave(t)

(* ReadMessage.  When m_CanRun was cleared the message counts as read: of   *)
(* its header nothing has come, or enough to hold the command.              *)
StartHeader(t) ==
  LET in == conn[thread[t].conn].in
  IN  /\ thread[t].pc = "reading"
      /\ \/ canRun /\ Goto(t, "header")
         \/ /\ ~canRun
            /\ \E stale \in Files, cmd \in Commands :
                 /\ cmd = "NOP" \/ (in # << >> /\ cmd = Head(in).cmd)
                 /\ thread' = [thread EXCEPT ![t].pc = "process", ![t].cmd = cmd,
                                             ![t].item = IF cmd = "GetFile" THEN stale ELSE NoItem]
      /\ UNCHANGED <<control, canRun, threadRunning, raced, conn, client>>

(* The bytes of a header have come.  After a race they may be those of a    *)
(* body whose header an earlier ReadMessage took: then they say anything.   *)
ReadHeader(t) ==
  LET k    == thread[t].conn
      part == Head(conn[k].in)
  IN  /\ thread[t].pc = "header"
      /\ conn[k].in # << >>
      /\ conn' = [conn EXCEPT ![k].in = Tail(@)]
      /\ \E cmd \in Commands, stale \in Files :
           /\ part.item = NoItem => cmd = part.cmd
           /\ thread' = [thread EXCEPT ![t].cmd = cmd, ![t].pc = IF part.more THEN "payload" ELSE "process",
                           ![t].item = IF cmd = "GetFile" /\ ~part.more THEN stale ELSE NoItem]
      /\ UNCHANGED <<control, canRun, threadRunning, raced, client>>

(* Before the body, m_CanRun is tested again. *)
StartBody(t) ==
  /\ thread[t].pc = "payload"
  /\ \/ canRun /\ Goto(t, "body")
     \/ /\ ~canRun
        /\ \E stale \in Files :
             thread' = [thread EXCEPT ![t].pc = "process", ![t].item = stale]
  /\ UNCHANGED <<control, canRun, threadRunning, raced, conn, client>>

ReadBody(t) ==
  LET k == thread[t].conn
  IN  /\ thread[t].pc = "body"
      /\ conn[k].in # << >>
      /\ conn' = [conn EXCEPT ![k].in = Tail(@)]
      /\ thread' = [thread EXCEPT ![t].pc = "process", ![t].item = Head(conn[k].in).item]
      /\ UNCHANGED <<control, canRun, threadRunning, raced, client>>

(* The client has gone: reading or writing fails. *)
Disconnected(t) ==
  /\ thread[t].pc \in {"header", "body", "writing"}
  /\ ~conn[thread[t].conn].open
  /\ Leave(t)

(* ProcessCommand, up to WriteMessage; the file may not open. *)
ProcessCommand(t) ==
  LET cmd == thread[t].cmd
      Answer(message) == thread' = [thread EXCEPT ![t].pc = "write", ![t].left = message]
  IN  /\ thread[t].pc = "process"
      /\ \/ cmd = "NOP" /\ Goto(t, "ready")
         \/ cmd # "NOP" /\ Answer(Response(cmd, thread[t].item))
         \/ cmd = "GetFile" /\ Answer(Message(cmd, Failed, TRUE))
      /\ UNCHANGED <<control, canRun, threadRunning, raced, conn, client>>

(* Faulty: m_CanRun is not tested. *)
WriteMessageUnchecked(t) ==
  /\ thread[t].pc = "write"
  /\ Goto(t, "writing")
  /\ UNCHANGED <<control, canRun, threadRunning, raced, conn, client>>

(* The loop of WriteMessage drops what is left when m_CanRun is cleared,    *)
(* and succeeds.                                                            *)
WriteMessage(t) ==
  /\ thread[t].pc = "write"
  /\ \/ canRun /\ Goto(t, "writing")
     \/ /\ ~canRun
        /\ thread' = [thread EXCEPT ![t] = [Fresh EXCEPT !.pc = "ready", !.conn = thread[t].conn]]
  /\ UNCHANGED <<control, canRun, threadRunning, raced, conn, client>>

(* ReadMessage of the client: a whole message is in the stream. *)
Arrived == LET out == conn[client.conn].out
           IN  out # << >> /\ (~Head(out).more \/ Len(out) > 1)

(* The connection takes another part: the buffers have room for it, or the  *)
(* client is reading it as it comes.                                        *)
Takes(k) ==
  \/ ~conn[k].open
  \/ Len(conn[k].out) < Buffers
  \/ client.conn = k /\ client.pc \in {"drain", "wait"} /\ ~Arrived

(* write_some: the next part of the answer is written, which blocks while   *)
(* the client leaves too much unread; with the last one the request is      *)
(* answered.                                                                *)
WritePart(t) ==
  LET k    == thread[t].conn
      left == thread[t].left
      done == Len(left) = 1
      ask  == [cmd |-> thread[t].cmd, item |-> thread[t].item]
  IN  /\ thread[t].pc = "writing"
      /\ Takes(k)
      /\ conn' = [conn EXCEPT ![k].out = IF conn[k].open THEN Append(@, Head(left)) ELSE @,
                              ![k].answered = IF done THEN Append(@, ask) ELSE @]
      /\ thread' = [thread EXCEPT ![t] = IF done THEN [Fresh EXCEPT !.pc = "ready", !.conn = k]
                                         ELSE [@ EXCEPT !.pc = "write", !.left = Tail(left)]]
      /\ UNCHANGED <<control, canRun, threadRunning, raced, client>>

(* Faulty: the flag is left set. *)
ThreadEndsSilently(t) ==
  /\ thread[t].pc = "ending"
  /\ Goto(t, "ended")
  /\ UNCHANGED <<control, canRun, threadRunning, raced, conn, client>>

ThreadEnds(t) ==
  /\ thread[t].pc = "ending"
  /\ threadRunning' = FALSE
  /\ Goto(t, "ended")
  /\ UNCHANGED <<control, canRun, raced, conn, client>>

-----------------------------------------------------------------------------
(* Steps of the client. *)
Send(message, item) == [client EXCEPT !.pc = "send", !.left = message, !.item = item]

(* Connect, while some acceptor is open; LoadMeta begins with a Ping. *)
Connect(k, t) ==
  /\ client.pc = "off"
  /\ t \in Listening
  /\ conn[k].state = "unused"
  /\ conn' = [conn EXCEPT ![k].state = "queued", ![k].host = t, ![k].open = TRUE]
  /\ client' = [Send(Message("Ping", NoItem, FALSE), NoItem) EXCEPT !.conn = k]
  /\ UNCHANGED <<control, canRun, threadRunning, raced, thread>>

(* One of WriteMessage's writes.  With the last one the request is made;    *)
(* LoadMeta then takes what is there, the other calls wait for the answer.  *)
ClientWrites ==
  LET k    == client.conn
      part == Head(client.left)
      done == Len(client.left) = 1
  IN  /\ client.pc = "send"
      /\ conn[k].state # "closed"
      /\ conn' = [conn EXCEPT ![k].in = Append(@, part),
                    ![k].asked = IF done THEN Append(@, [cmd |-> part.cmd, item |-> part.item]) ELSE @]
      /\ client' = [client EXCEPT !.left = Tail(@),
                      !.pc = IF ~done THEN "send" ELSE IF client.item = NoItem THEN "drain" ELSE "wait"]
      /\ UNCHANGED <<control, canRun, threadRunning, raced, thread>>

(* Faulty: any message is taken for the answer. *)
AnyResponse(cmd) == TRUE

(* WaitForResponse and DispatchPendingCommand compare the commands only. *)
IsResponse(cmd) == client.item # NoItem /\ cmd = CommandFor(client.item)

(* A table is stored as it comes.  GetFileCount asks for the other one next; *)
(* that answered, it reads whatever else is there.                           *)
TakesTable(body) ==
  IF client.item = FileTable
  THEN [Send(Request(StringTable), StringTable) EXCEPT !.got = <<FileTable, body>>]
  ELSE [client EXCEPT !.got = <<StringTable, body>>, !.pc = "drain"]

(* GetFileData returns with the content, or with the server's failure. *)
TakesFile(body) ==
  [client EXCEPT !.got = <<client.item, body>>, !.pc = "connected", !.item = NoItem]

(* A message is read.  If it is the answer that was waited for, the call    *)
(* returns with it, or GetFileCount goes on to the other table; any other   *)
(* message is dropped.                                                      *)
ClientReads ==
  LET k    == client.conn
      out  == conn[k].out
      used == IF Head(out).more THEN 2 ELSE 1
      body == out[used].item
  IN  /\ client.pc \in {"drain", "wait"}
      /\ Arrived
      /\ conn' = [conn EXCEPT ![k].out = SubSeq(@, used + 1, Len(@))]
      /\ client' = IF client.pc = "wait" /\ IsResponse(Head(out).cmd)
                   THEN IF client.item \in Files THEN TakesFile(body) ELSE TakesTable(body)
                   ELSE client
      /\ UNCHANGED <<control, canRun, threadRunning, raced, thread>>

(* Nothing more is there: the call returns. *)
CallReturns ==
  /\ client.pc = "drain"
  /\ conn[client.conn].out = << >>
  /\ client' = [client EXCEPT !.pc = "connected", !.item = NoItem]
  /\ UNCHANGED <<control, canRun, threadRunning, raced, thread, conn>>

(* The server's end is closed before the request is sent, whatever is left  *)
(* to read, or before the answer is complete: the call returns false, or,   *)
(* if it is the LoadMeta of Connect, may succeed.                           *)
CallFails ==
  /\ client.pc \in {"send", "drain", "wait"}
  /\ conn[client.conn].state = "closed"
  /\ client.pc = "send" \/ ~Arrived
  /\ client' = [client EXCEPT !.pc = "connected", !.item = NoItem, !.left = << >>]
  /\ UNCHANGED <<control, canRun, threadRunning, raced, thread, conn>>

(* GetFileData asks for a file; GetFileCount for the file table, if it has  *)
(* not got one yet.                                                         *)
Ask(item) ==
  LET asked == conn[client.conn].asked
  IN  /\ client.pc = "connected"
      /\ Len(asked) < MaxRequests
      /\ item \in Files \/ (item = FileTable /\ \A i \in DOMAIN asked : asked[i].cmd # "GetFileTable")
      /\ client' = [Send(Request(item), item) EXCEPT !.got = Off.got]
      /\ UNCHANGED <<control, canRun, threadRunning, raced, thread, conn>>

(* The container is closed, or its process ends: in a build with assertions *)
(* that is what GetFileData does with every file it gets, when it puts a 0  *)
(* behind the content.                                                      *)
Close ==
  /\ client.pc # "off"
  /\ conn' = [conn EXCEPT ![client.conn].open = FALSE, ![client.conn].out = << >>]
  /\ client' = Off
  /\ UNCHANGED <<control, canRun, threadRunning, raced, thread>>

-----------------------------------------------------------------------------
ServerStep(t) ==
  \/ ThreadStarts(t)
  \/ Loop(t)
  \/ Bind(t)
  \/ BindFails(t)
  \/ \E k \in Connections : Accept(t, k)
  \/ HandleClient(t)
  \/ StartHeader(t)
  \/ ReadHeader(t)
  \/ StartBody(t)
  \/ ReadBody(t)
  \/ Disconnected(t)
  \/ ProcessCommand(t)
  \/ WriteMessage(t)
  \/ WritePart(t)
  \/ ThreadEnds(t)

Next ==
  \/ \E t \in Threads : Enable(t)
  \/ \E from \in {"disabling", "destroying"} : Disable(from)
  \/ DisableReturns
  \/ \E t \in Threads : ServerStep(t) \/ AcceptFails(t)
  \/ \E k \in Connections, t \in Threads : Connect(k, t)
  \/ ClientWrites
  \/ ClientReads
  \/ CallReturns
  \/ CallFails
  \/ \E item \in Items : Ask(item)
  \/ Close

Spec == Init /\ [][Next]_vars

(* Threads are scheduled; clients need not do anything. *)
FairSpec == Spec /\ WF_vars(DisableReturns) /\ \A t \in Threads : WF_vars(ServerStep(t))

-----------------------------------------------------------------------------
(* Unless Enable, Disable or the destructor is called while a thread it     *)
(* started has not come up yet, there is one server thread at a time, and   *)
(* none once Disable has returned or the module is destroyed: none uses the *)
(* freed module, and nothing is served by a disabled one.                   *)
StoppedWhenDisabled ==
  ~raced => /\ \A t, u \in Alive : t = u
            /\ ~canRun /\ control \in {"idle", "destroyed"} => Alive = {}

(* Unless a call has raced like that, every answer is that to the client's  *)
(* next request, which had come whole: what a stopping thread does with     *)
(* half a message reaches nobody.                                           *)
AnsweredInOrder ==
  ~raced => \A k \in Connections :
    /\ Len(conn[k].answered) <= Len(conn[k].asked)
    /\ \A i \in DOMAIN conn[k].answered : conn[k].answered[i] = conn[k].asked[i]

(* The client gets what it asked for although it compares commands only,    *)
(* and although the Pong of LoadMeta may come after the next request: the   *)
(* content, a failure, or, exactly if it is larger than a message, nothing. *)
GetsWhatItAsked ==
  LET item == client.got[1]
      long == Size[item] + (IF item \in Files THEN 24 ELSE 16) > 131072
  IN  ~raced /\ item # NoItem =>
        \/ client.got[2] = IF long THEN Short ELSE item
        \/ client.got[2] = Failed /\ item \in Files

(* If Disable does not return, then because a thread waits for ever for a   *)
(* client: to connect, to send the rest of a request, or to read an answer. *)
WaitsForClient ==
  \E t \in Threads :
    \/ /\ thread[t].pc = "accepting"
       /\ \A k \in Connections : ~(conn[k].state = "queued" /\ conn[k].host = t)
    \/ /\ thread[t].pc \in {"header", "body"}
       /\ conn[thread[t].conn].open /\ conn[thread[t].conn].in = << >>
    \/ thread[t].pc = "writing" /\ ~Takes(thread[t].conn)

DisableReturnsOrClientWaited ==
  []<>(control \notin {"disabling", "destroying"}) \/ <>[]WaitsForClient
=============================================================================

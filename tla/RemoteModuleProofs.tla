-------------------------- MODULE RemoteModuleProofs ------------------------
(***************************************************************************)
(* Proofs about RemoteModule, for any number of threads, connections and   *)
(* requests: unless Enable, Disable or the destructor overtakes a starting *)
(* thread, none is left behind, every answer is that to the next request,  *)
(* and the client gets what it asked for.                                  *)
(***************************************************************************)
EXTENDS RemoteModule, SequenceTheorems, TLAPS

Contents == Items \cup {Short, Failed, NoItem}

Parts == [cmd : Commands, item : Contents, more : BOOLEAN]

Asks == [cmd : Commands, item : Contents]

(* Where a thread is that has a client. *)
Serving == {"ready", "reading", "header", "payload", "body", "process", "write", "writing"}

(* Where a thread is that has set its flag. *)
Working == Serving \cup {"loop", "asleep", "accepting", "ending"}

ThreadTypes == [pc : Working \cup {"none", "spawned", "ended"}, conn : 0 .. MaxConnections,
                cmd : Commands, item : Contents, left : Seq(Parts)]

ConnTypes == [state : {"unused", "queued", "served", "closed"}, host : 0 .. MaxThreads,
              open : BOOLEAN, in : Seq(Parts), out : Seq(Parts),
              asked : Seq(Asks), answered : Seq(Asks)]

ClientTypes == [pc : {"off", "send", "drain", "wait", "connected"}, conn : 0 .. MaxConnections,
                left : Seq(Parts), item : Items \cup {NoItem}, got : Contents \X Contents]

(* The types, and that who needs a connection, or a part of a message, has  *)
(* one.                                                                     *)
TypeOK ==
  /\ control \in {"idle", "disabling", "destroying", "destroyed"}
  /\ canRun \in BOOLEAN
  /\ threadRunning \in BOOLEAN
  /\ raced \in BOOLEAN
  /\ thread \in [Threads -> ThreadTypes]
  /\ conn \in [Connections -> ConnTypes]
  /\ client \in ClientTypes
  /\ \A t \in Threads :
       /\ thread[t].pc \in Serving => thread[t].conn \in Connections
       /\ thread[t].pc \in {"write", "writing"} => thread[t].left # << >>
  /\ client.pc # "off" => client.conn \in Connections
  /\ client.pc = "send" => client.left # << >>
  /\ client.pc = "wait" => client.item \in Items

(* A thread that works has set the flag, and nobody waits for threads while *)
(* one has not come up yet: so whoever finds the flag cleared is alone.     *)
FlagTells ==
  ~raced => /\ \A t \in Threads : thread[t].pc \in Working => threadRunning
            /\ control # "idle" => ~Starting

IInv == TypeOK /\ FlagTells /\ StoppedWhenDisabled

-----------------------------------------------------------------------------
(* Messages are lists of one or two parts. *)
LEMMA MessageTypes ==
  ASSUME NEW cmd \in Commands, NEW item \in Contents, NEW body \in BOOLEAN
  PROVE  Message(cmd, item, body) \in Seq(Parts) \ {<< >>}
<1>1. NoItem \in Contents
  BY DEF Contents
<1> QED
  BY <1>1 DEF Message, Parts

(* What is left of a message when a part has gone. *)
LEMMA MessageRest ==
  ASSUME NEW message \in Seq(Parts), message # << >>
  PROVE  /\ Head(message) \in Parts
         /\ Tail(message) \in Seq(Parts)
         /\ Len(message) # 1 => Tail(message) # << >>
<1>1. Len(message) \in Nat /\ Len(message) # 0
  OBVIOUS
<1>2. Len(Tail(message)) = Len(message) - 1
  BY <1>1
<1>3. Len(message) # 1 => Len(Tail(message)) # 0
  BY <1>1, <1>2
<1>4. Tail(message) \in Seq(Parts) /\ Head(message) \in Parts
  OBVIOUS
<1>5. Len(<< >>) = 0
  OBVIOUS
<1> QED
  BY <1>3, <1>4, <1>5

LEMMA RequestTypes ==
  ASSUME NEW item \in Items
  PROVE  Request(item) \in Seq(Parts) \ {<< >>}
<1>1. CommandFor(item) \in Commands
  BY RemoteModuleAssumption DEF CommandFor, Commands, Items
<1>2. (IF item \in Files THEN item ELSE NoItem) \in Contents
  BY DEF Contents
<1> DEFINE body == item \in Files
<1>3. body \in BOOLEAN
  OBVIOUS
<1>4. Request(item) = Message(CommandFor(item), IF item \in Files THEN item ELSE NoItem, body)
  BY DEF Request
<1> HIDE DEF body
<1> QED
  BY <1>1, <1>2, <1>3, <1>4, MessageTypes

LEMMA ResponseTypes ==
  ASSUME NEW cmd \in Commands \ {"NOP"}, NEW item \in Contents
  PROVE  /\ Response(cmd, item) \in Seq(Parts) \ {<< >>}
         /\ Message("GetFile", Failed, TRUE) \in Seq(Parts) \ {<< >>}
<1>1. /\ NoItem \in Contents /\ Failed \in Contents
      /\ PushString(FileTable, 16) \in Contents
      /\ PushString(StringTable, 16) \in Contents
      /\ PushString(item, 24) \in Contents
  BY DEF Contents, Items, PushString
<1>2. Commands \ {"NOP"} = {"Ping", "Pong", "GetFileTable", "GetStringTable", "GetFile"}
  BY DEF Commands
<1>3. \A c \in Commands, i \in Contents, b \in BOOLEAN : Message(c, i, b) \in Seq(Parts) \ {<< >>}
  BY MessageTypes
<1>4. {"Ping", "Pong", "GetFile"} \subseteq Commands
  BY DEF Commands
<1>5. \A i : (i # Short) \in BOOLEAN
  OBVIOUS
<1>6. CASE cmd = "Ping"
  BY <1>1, <1>3, <1>4, <1>6 DEF Response
<1>7. CASE cmd = "Pong"
  BY <1>1, <1>3, <1>4, <1>7 DEF Response
<1>8. CASE cmd = "GetFileTable"
  BY <1>1, <1>3, <1>4, <1>5, <1>8 DEF Response
<1>9. CASE cmd = "GetStringTable"
  BY <1>1, <1>3, <1>4, <1>5, <1>9 DEF Response
<1>10. CASE cmd = "GetFile"
  BY <1>1, <1>3, <1>4, <1>10 DEF Response
<1> QED
  BY <1>2, <1>6, <1>7, <1>8, <1>9, <1>10

LEMMA InitIInv == Init => IInv
<1> SUFFICES ASSUME Init PROVE IInv
  OBVIOUS
<1>1. TypeOK
  <2>1. Fresh \in ThreadTypes
    BY RemoteModuleAssumption DEF Fresh, ThreadTypes, Commands, Contents
  <2>2. Unused \in ConnTypes
    BY RemoteModuleAssumption DEF Unused, ConnTypes
  <2>3. Off \in ClientTypes
    BY RemoteModuleAssumption DEF Off, ClientTypes, Contents
  <2>4. Fresh.pc = "none" /\ Off.pc = "off"
    BY DEF Fresh, Off
  <2> QED
    BY <2>1, <2>2, <2>3, <2>4 DEF Init, TypeOK, Serving
<1>2. \A t \in Threads : thread[t].pc = "none"
  BY DEF Init, Fresh
<1>3. FlagTells
  BY <1>2 DEF FlagTells, Working, Serving, Init
<1>4. StoppedWhenDisabled
  BY <1>2 DEF StoppedWhenDisabled, Alive
<1> QED
  BY <1>1, <1>3, <1>4 DEF IInv

-----------------------------------------------------------------------------
(* A step of a thread that works and goes on working. *)
WorkStep(t) ==
  /\ thread[t].pc \in Working
  /\ thread' = [thread EXCEPT ![t] = thread'[t]]
  /\ thread'[t].pc \in Working
  /\ UNCHANGED <<control, canRun, threadRunning, raced, client>>

(* What thread t has after a step is of the right types. *)
StepTypes(t) ==
  /\ thread'[t] \in ThreadTypes
  /\ thread'[t].pc \in Serving => thread'[t].conn \in Connections
  /\ thread'[t].pc \in {"write", "writing"} => thread'[t].left # << >>
  /\ conn' \in [Connections -> ConnTypes]

LEMMA WorkStepKeepsIInv ==
  ASSUME IInv, NEW t \in Threads, WorkStep(t), StepTypes(t)
  PROVE  IInv'
<1>1. \A u \in Threads : u # t => thread'[u] = thread[u]
  BY DEF WorkStep, IInv, TypeOK
<1>2. thread' \in [Threads -> ThreadTypes]
  BY DEF WorkStep, StepTypes, IInv, TypeOK
<1>3. TypeOK'
  BY <1>1, <1>2 DEF WorkStep, StepTypes, IInv, TypeOK
<1>4. Alive' = Alive /\ Starting' = Starting
  BY <1>1 DEF WorkStep, Alive, Starting, Working, Serving
<1>5. FlagTells'
  BY <1>1, <1>4 DEF WorkStep, FlagTells, IInv
<1>6. StoppedWhenDisabled'
  BY <1>4 DEF WorkStep, StoppedWhenDisabled, IInv
<1> QED
  BY <1>3, <1>5, <1>6 DEF IInv

(* A thread moves and nothing else changes. *)
LEMMA GotoTypes ==
  ASSUME IInv, NEW t \in Threads, NEW pc \in Working, Goto(t, pc), conn' = conn,
         pc \in Serving => thread[t].pc \in Serving,
         pc \in {"write", "writing"} => thread[t].left # << >>
  PROVE  /\ thread' = [thread EXCEPT ![t] = thread'[t]]
         /\ thread'[t].pc = pc
         /\ StepTypes(t)
<1>1. thread[t] \in ThreadTypes /\ thread \in [Threads -> ThreadTypes]
  BY DEF IInv, TypeOK
<1>2. thread'[t] = [thread[t] EXCEPT !.pc = pc]
  BY <1>1 DEF Goto
<1>3. /\ thread'[t] \in ThreadTypes /\ thread'[t].pc = pc
      /\ thread'[t].conn = thread[t].conn /\ thread'[t].left = thread[t].left
  BY <1>1, <1>2 DEF ThreadTypes
<1>4. thread' = [thread EXCEPT ![t] = thread'[t]]
  BY <1>1, <1>2 DEF Goto
<1> QED
  BY <1>3, <1>4 DEF StepTypes, IInv, TypeOK

LEMMA FreshTypes == /\ Fresh \in ThreadTypes
                    /\ Unused \in ConnTypes
BY RemoteModuleAssumption DEF Fresh, Unused, ThreadTypes, ConnTypes, Commands, Contents

LEMMA LeaveKeepsIInv ==
  ASSUME IInv, NEW t \in Threads, thread[t].pc \in Working, Leave(t)
  PROVE  IInv'
<1>1. thread \in [Threads -> ThreadTypes] /\ conn \in [Connections -> ConnTypes]
  BY DEF IInv, TypeOK
<1>2. thread'[t] = [Fresh EXCEPT !.pc = "loop"] /\ thread' = [thread EXCEPT ![t] = thread'[t]]
  BY <1>1 DEF Leave
<1>3. thread'[t] \in ThreadTypes /\ thread'[t].pc = "loop"
  BY <1>2, FreshTypes DEF ThreadTypes, Working
<1>4. conn' \in [Connections -> ConnTypes]
  <2>1. \A k \in Connections : [Unused EXCEPT !.state = "closed", !.host = t,
                           !.open = conn[k].open, !.out = conn[k].out] \in ConnTypes
    <3> SUFFICES ASSUME NEW k \in Connections
                 PROVE  [Unused EXCEPT !.state = "closed", !.host = t,
                           !.open = conn[k].open, !.out = conn[k].out] \in ConnTypes
      OBVIOUS
    <3>1. t \in 0 .. MaxThreads
      BY RemoteModuleAssumption DEF Threads
    <3>2. conn[k].open \in BOOLEAN /\ conn[k].out \in Seq(Parts)
      BY <1>1 DEF ConnTypes
    <3> QED
      BY <3>1, <3>2, FreshTypes DEF ConnTypes
  <2> QED
    BY <1>1, <2>1 DEF Leave
<1>5. StepTypes(t)
  BY <1>3, <1>4 DEF StepTypes, Serving
<1>6. WorkStep(t)
  BY <1>2, <1>3 DEF WorkStep, Leave, Working
<1> QED
  BY <1>5, <1>6, WorkStepKeepsIInv

-----------------------------------------------------------------------------
(* The steps of a server thread between its flag's two assignments. *)
LEMMA GotoKeepsIInv ==
  ASSUME IInv, NEW t \in Threads, thread[t].pc \in Working, NEW pc \in Working, Goto(t, pc),
         UNCHANGED <<control, canRun, threadRunning, raced, conn, client>>,
         pc \in Serving => thread[t].pc \in Serving,
         pc \in {"write", "writing"} => thread[t].left # << >>
  PROVE  IInv'
<1>1. WorkStep(t) /\ StepTypes(t)
  BY GotoTypes DEF WorkStep
<1> QED
  BY <1>1, WorkStepKeepsIInv

LEMMA LoopSteps ==
  ASSUME IInv, NEW t \in Threads,
         Loop(t) \/ Bind(t) \/ BindFails(t) \/ HandleClient(t) \/ Disconnected(t) \/ AcceptFails(t)
  PROVE  IInv'
<1>1. CASE Loop(t)
  <2>1. thread[t].pc \in Working
    BY <1>1 DEF Loop, Working
  <2>2. CASE canRun
    BY <1>1, <2>1, <2>2, GotoKeepsIInv DEF Loop, Working, Serving
  <2>3. CASE ~canRun
    BY <1>1, <2>1, <2>3, GotoKeepsIInv DEF Loop, Working, Serving
  <2> QED
    BY <2>2, <2>3
<1>2. CASE Bind(t)
  BY <1>2, GotoKeepsIInv DEF Bind, Working, Serving
<1>3. CASE BindFails(t)
  BY <1>3, GotoKeepsIInv DEF BindFails, Working, Serving
<1>4. CASE HandleClient(t)
  <2>1. thread[t].pc \in Working /\ thread[t].pc \in Serving
    BY <1>4 DEF HandleClient, Working, Serving
  <2>2. CASE Leave(t)
    BY <2>1, <2>2, LeaveKeepsIInv
  <2>3. CASE Goto(t, "reading") /\ UNCHANGED <<control, canRun, threadRunning, raced, conn, client>>
    BY <2>1, <2>3, GotoKeepsIInv DEF Working, Serving
  <2> QED
    BY <1>4, <2>2, <2>3 DEF HandleClient
<1>5. CASE Disconnected(t)
  BY <1>5, LeaveKeepsIInv DEF Disconnected, Working, Serving
<1>6. CASE AcceptFails(t)
  BY <1>6, LeaveKeepsIInv DEF AcceptFails, Working, Serving
<1> QED
  BY <1>1, <1>2, <1>3, <1>4, <1>5, <1>6

LEMMA AcceptKeepsIInv ==
  ASSUME IInv, NEW t \in Threads, NEW k \in Connections, Accept(t, k)
  PROVE  IInv'
<1>1. thread \in [Threads -> ThreadTypes] /\ conn \in [Connections -> ConnTypes]
  BY DEF IInv, TypeOK
<1>2. k \in 0 .. MaxConnections
  BY RemoteModuleAssumption DEF Connections
<1>3. thread'[t] = [thread[t] EXCEPT !.pc = "ready", !.conn = k]
  BY <1>1 DEF Accept
<1>4. thread'[t] \in ThreadTypes /\ thread'[t].pc = "ready" /\ thread'[t].conn = k
  <2>1. thread[t] \in ThreadTypes
    BY <1>1
  <2>2. "ready" \in Working
    BY DEF Working, Serving
  <2> QED
    BY <1>2, <1>3, <2>1, <2>2 DEF ThreadTypes
<1>5. [conn[k] EXCEPT !.state = "served"] \in ConnTypes
  BY <1>1 DEF ConnTypes
<1>6. conn' \in [Connections -> ConnTypes]
  BY <1>1, <1>5 DEF Accept
<1>7. thread' = [thread EXCEPT ![t] = thread'[t]]
  BY <1>1, <1>3 DEF Accept
<1>8. StepTypes(t)
  BY <1>4, <1>6 DEF StepTypes
<1>9. WorkStep(t)
  BY <1>4, <1>7 DEF WorkStep, Accept, Working, Serving
<1> QED
  BY <1>8, <1>9, WorkStepKeepsIInv

(* A part is taken from the stream of thread t's client. *)
LEMMA ReadTypes ==
  ASSUME IInv, NEW t \in Threads, thread[t].pc \in Serving, conn[thread[t].conn].in # << >>,
         conn' = [conn EXCEPT ![thread[t].conn].in = Tail(@)]
  PROVE  /\ Head(conn[thread[t].conn].in) \in Parts
         /\ conn' \in [Connections -> ConnTypes]
<1> DEFINE k == thread[t].conn
<1>1. k \in Connections /\ conn \in [Connections -> ConnTypes]
  BY DEF IInv, TypeOK
<1>2. conn[k].in \in Seq(Parts) /\ conn[k].in # << >>
  BY <1>1 DEF ConnTypes
<1>3. Head(conn[k].in) \in Parts /\ Tail(conn[k].in) \in Seq(Parts)
  BY <1>2
<1>4. [conn[k] EXCEPT !.in = Tail(@)] \in ConnTypes
  BY <1>1, <1>3 DEF ConnTypes
<1>5. conn' = [conn EXCEPT ![k] = [conn[k] EXCEPT !.in = Tail(@)]]
  BY <1>1
<1> QED
  BY <1>1, <1>3, <1>4, <1>5

(* Thread t keeps its client. *)
LEMMA ServeKeepsIInv ==
  ASSUME IInv, NEW t \in Threads, thread[t].pc \in Serving,
         thread' = [thread EXCEPT ![t] = thread'[t]],
         thread'[t] \in ThreadTypes, thread'[t].pc \in Serving,
         thread'[t].conn = thread[t].conn,
         thread'[t].pc \in {"write", "writing"} => thread'[t].left # << >>,
         conn' \in [Connections -> ConnTypes],
         UNCHANGED <<control, canRun, threadRunning, raced, client>>
  PROVE  IInv'
<1>1. WorkStep(t)
  BY DEF WorkStep, Working
<1>2. StepTypes(t)
  BY DEF StepTypes, IInv, TypeOK
<1> QED
  BY <1>1, <1>2, WorkStepKeepsIInv

(* Thread t turns to a message it has read. *)
LEMMA ProcessKeepsIInv ==
  ASSUME IInv, NEW t \in Threads, thread[t].pc \in Serving,
         NEW cmd \in Commands, NEW item \in Contents, NEW pc \in {"process", "payload"},
         thread' = [thread EXCEPT ![t].pc = pc, ![t].cmd = cmd, ![t].item = item],
         conn' \in [Connections -> ConnTypes],
         UNCHANGED <<control, canRun, threadRunning, raced, client>>
  PROVE  IInv'
<1>1. thread \in [Threads -> ThreadTypes]
  BY DEF IInv, TypeOK
<1>2. thread'[t] = [thread[t] EXCEPT !.pc = pc, !.cmd = cmd, !.item = item]
  BY <1>1
<1>3. thread' = [thread EXCEPT ![t] = thread'[t]]
  BY <1>1, <1>2
<1>4. thread'[t] \in ThreadTypes /\ thread'[t].pc = pc /\ thread'[t].conn = thread[t].conn
  <2>1. thread[t] \in ThreadTypes
    BY <1>1
  <2>2. pc \in Working
    BY DEF Working, Serving
  <2> DEFINE next == [thread[t] EXCEPT !.pc = pc, !.cmd = cmd, !.item = item]
  <2>3. next.pc = pc /\ next.conn = thread[t].conn
    BY <2>1 DEF ThreadTypes
  <2>4. next \in ThreadTypes
    BY <2>1, <2>2 DEF ThreadTypes
  <2> QED
    BY <1>2, <2>3, <2>4
<1> QED
  BY <1>3, <1>4, ServeKeepsIInv DEF Serving

LEMMA ReadSteps ==
  ASSUME IInv, NEW t \in Threads,
         StartHeader(t) \/ ReadHeader(t) \/ StartBody(t) \/ ReadBody(t)
  PROVE  IInv'
<1>1. /\ thread \in [Threads -> ThreadTypes] /\ conn \in [Connections -> ConnTypes]
      /\ thread[t].cmd \in Commands
  BY DEF IInv, TypeOK, ThreadTypes
<1>2. /\ Files \subseteq Contents /\ NoItem \in Contents
      /\ \A cmd, item : item \in Files => (IF cmd = "GetFile" THEN item ELSE NoItem) \in Contents
      /\ \A cmd, more, item : item \in Files =>
           (IF cmd = "GetFile" /\ ~more THEN item ELSE NoItem) \in Contents
  BY DEF Contents, Items
<1>3. CASE StartHeader(t)
  <2>1. thread[t].pc \in Serving /\ thread[t].pc \in Working
    BY <1>3 DEF StartHeader, Serving, Working
  <2>2. CASE Goto(t, "header")
    BY <1>3, <2>1, <2>2, GotoKeepsIInv DEF StartHeader, Working, Serving
  <2>3. CASE ~Goto(t, "header")
    <3>1. PICK stale \in Files, cmd \in Commands :
            thread' = [thread EXCEPT ![t].pc = "process", ![t].cmd = cmd,
                                     ![t].item = IF cmd = "GetFile" THEN stale ELSE NoItem]
      BY <1>3, <2>3 DEF StartHeader
    <3>2. UNCHANGED <<control, canRun, threadRunning, raced, conn, client>>
      BY <1>3 DEF StartHeader
    <3> QED
      BY <1>1, <1>2, <2>1, <3>1, <3>2, ProcessKeepsIInv
  <2> QED
    BY <2>2, <2>3
<1>4. CASE ReadHeader(t)
  <2> DEFINE part == Head(conn[thread[t].conn].in)
  <2>1. thread[t].pc \in Serving /\ conn' \in [Connections -> ConnTypes]
    <3>1. thread[t].pc \in Serving
      BY <1>4 DEF ReadHeader, Serving
    <3> QED
      BY <1>4, <3>1, ReadTypes DEF ReadHeader
  <2>2. PICK cmd \in Commands, stale \in Files :
          thread' = [thread EXCEPT ![t].cmd = cmd, ![t].pc = IF part.more THEN "payload" ELSE "process",
                       ![t].item = IF cmd = "GetFile" /\ ~part.more THEN stale ELSE NoItem]
    BY <1>4 DEF ReadHeader
  <2>3. UNCHANGED <<control, canRun, threadRunning, raced, client>>
    BY <1>4 DEF ReadHeader
  <2> DEFINE pc == IF part.more THEN "payload" ELSE "process"
             item == IF cmd = "GetFile" /\ ~part.more THEN stale ELSE NoItem
  <2>4. pc \in {"process", "payload"} /\ item \in Contents
    BY <1>2
  <2>5. thread' = [thread EXCEPT ![t].pc = pc, ![t].cmd = cmd, ![t].item = item]
    BY <1>1, <2>2
  <2> HIDE DEF pc, item
  <2> QED
    BY <2>1, <2>3, <2>4, <2>5, ProcessKeepsIInv
<1>5. CASE StartBody(t)
  <2>1. thread[t].pc \in Serving /\ thread[t].pc \in Working
    BY <1>5 DEF StartBody, Serving, Working
  <2>2. CASE Goto(t, "body")
    BY <1>5, <2>1, <2>2, GotoKeepsIInv DEF StartBody, Working, Serving
  <2>3. CASE ~Goto(t, "body")
    <3>1. PICK stale \in Files : thread' = [thread EXCEPT ![t].pc = "process", ![t].item = stale]
      BY <1>5, <2>3 DEF StartBody
    <3>2. thread' = [thread EXCEPT ![t].pc = "process", ![t].cmd = thread[t].cmd, ![t].item = stale]
      BY <1>1, <3>1 DEF ThreadTypes
    <3>3. UNCHANGED <<control, canRun, threadRunning, raced, conn, client>>
      BY <1>5 DEF StartBody
    <3> QED
      BY <1>1, <1>2, <2>1, <3>2, <3>3, ProcessKeepsIInv
  <2> QED
    BY <2>2, <2>3
<1>6. CASE ReadBody(t)
  <2> DEFINE item == Head(conn[thread[t].conn].in).item
  <2>1. thread[t].pc \in Serving
    BY <1>6 DEF ReadBody, Serving
  <2>2. conn' \in [Connections -> ConnTypes] /\ item \in Contents
    BY <1>6, <2>1, ReadTypes DEF ReadBody, Parts
  <2>3. thread' = [thread EXCEPT ![t].pc = "process", ![t].cmd = thread[t].cmd, ![t].item = item]
    BY <1>1, <1>6 DEF ReadBody, ThreadTypes
  <2>4. UNCHANGED <<control, canRun, threadRunning, raced, client>>
    BY <1>6 DEF ReadBody
  <2> HIDE DEF item
  <2> QED
    BY <1>1, <2>1, <2>2, <2>3, <2>4, ProcessKeepsIInv
<1> QED
  BY <1>3, <1>4, <1>5, <1>6

LEMMA ProcessCommandKeepsIInv ==
  ASSUME IInv, NEW t \in Threads, ProcessCommand(t)
  PROVE  IInv'
<1> DEFINE Answer(message) == thread' = [thread EXCEPT ![t].pc = "write", ![t].left = message]
<1>1. /\ thread \in [Threads -> ThreadTypes] /\ conn \in [Connections -> ConnTypes]
      /\ thread[t].cmd \in Commands /\ thread[t].item \in Contents
  BY DEF IInv, TypeOK, ThreadTypes
<1>2. /\ thread[t].pc \in Serving /\ thread[t].pc \in Working
      /\ UNCHANGED <<control, canRun, threadRunning, raced, conn, client>>
  BY DEF ProcessCommand, Serving, Working
<1>3. ASSUME NEW message \in Seq(Parts) \ {<< >>}, Answer(message)
      PROVE  IInv'
  <2>1. thread'[t] = [thread[t] EXCEPT !.pc = "write", !.left = message]
    BY <1>1, <1>3
  <2>2. thread' = [thread EXCEPT ![t] = thread'[t]]
    BY <1>1, <1>3, <2>1
  <2>3. /\ thread'[t] \in ThreadTypes /\ thread'[t].pc = "write"
        /\ thread'[t].conn = thread[t].conn /\ thread'[t].left # << >>
    <3>1. thread[t] \in ThreadTypes
      BY <1>1
    <3>2. "write" \in Working
      BY DEF Working, Serving
    <3>3. message \in Seq(Parts) /\ message # << >>
      OBVIOUS
    <3> HIDE DEF Answer
    <3> QED
      BY <2>1, <3>1, <3>2, <3>3 DEF ThreadTypes
  <2> QED
    BY <1>1, <1>2, <2>2, <2>3, ServeKeepsIInv DEF Serving
<1>4. CASE Goto(t, "ready")
  BY <1>2, <1>4, GotoKeepsIInv DEF Working, Serving
<1>5. CASE thread[t].cmd # "NOP" /\ Answer(Response(thread[t].cmd, thread[t].item))
  <2> HIDE DEF Answer
  <2>1. Response(thread[t].cmd, thread[t].item) \in Seq(Parts) \ {<< >>}
    BY <1>1, <1>5, ResponseTypes
  <2> QED
    BY <1>3, <1>5, <2>1
<1>6. CASE thread[t].cmd = "GetFile" /\ Answer(Message(thread[t].cmd, Failed, TRUE))
  <2>1. Message(thread[t].cmd, Failed, TRUE) \in Seq(Parts) \ {<< >>}
    <3>1. Failed \in Contents /\ TRUE \in BOOLEAN
      BY DEF Contents
    <3> QED
      BY <1>1, <3>1, MessageTypes
  <2> HIDE DEF Answer
  <2> QED
    BY <1>3, <1>6, <2>1
<1> QED
  BY <1>4, <1>5, <1>6 DEF ProcessCommand

LEMMA WritePartKeepsIInv ==
  ASSUME IInv, NEW t \in Threads, WritePart(t)
  PROVE  IInv'
<1> DEFINE k    == thread[t].conn
           left == thread[t].left
           idle == [Fresh EXCEPT !.pc = "ready", !.conn = k]
           ask  == [cmd |-> thread[t].cmd, item |-> thread[t].item]
           next == IF Len(left) = 1 THEN idle
                   ELSE [thread[t] EXCEPT !.pc = "write", !.left = Tail(left)]
           served == [conn[k] EXCEPT !.out = IF conn[k].open THEN Append(@, Head(left)) ELSE @,
                                     !.answered = IF Len(left) = 1 THEN Append(@, ask) ELSE @]
<1>1. /\ thread[t].pc = "writing" /\ thread[t].pc \in Serving
      /\ UNCHANGED <<control, canRun, threadRunning, raced, client>>
  BY DEF WritePart, Serving
<1>2. /\ thread \in [Threads -> ThreadTypes] /\ conn \in [Connections -> ConnTypes]
      /\ thread[t] \in ThreadTypes /\ k \in Connections /\ left \in Seq(Parts) /\ left # << >>
  BY <1>1 DEF IInv, TypeOK, ThreadTypes
<1>3. idle \in ThreadTypes /\ idle.pc = "ready" /\ idle.conn = k
  BY <1>2, FreshTypes DEF ThreadTypes, Working, Serving
<1>4. /\ thread' = [thread EXCEPT ![t] = next]
      /\ conn' = [conn EXCEPT ![k] = served]
  BY <1>2 DEF WritePart
<1>5. Head(left) \in Parts /\ Tail(left) \in Seq(Parts) /\ (Len(left) # 1 => Tail(left) # << >>)
  BY <1>2, MessageRest
<1>6. /\ next \in ThreadTypes /\ next.pc \in Serving /\ next.conn = k
      /\ next.pc \in {"write", "writing"} => next.left # << >>
  <2>1. CASE Len(left) = 1
    BY <1>3, <2>1 DEF Serving
  <2>2. CASE Len(left) # 1
    <3>1. "write" \in Working /\ "write" \in Serving
      BY DEF Working, Serving
    <3> QED BY <1>1, <1>2, <1>5, <2>2, <3>1 DEF ThreadTypes
  <2> QED
    BY <2>1, <2>2
<1>7. served \in ConnTypes
  <2>1. ask \in Asks
    BY <1>2 DEF ThreadTypes, Asks
  <2>2. /\ conn[k] \in ConnTypes
        /\ Append(conn[k].out, Head(left)) \in Seq(Parts)
        /\ Append(conn[k].answered, ask) \in Seq(Asks)
    BY <1>2, <1>5, <2>1 DEF ConnTypes
  <2> HIDE DEF ask, left
  <2> QED
    BY <2>2 DEF ConnTypes
<1> HIDE DEF next, served
<1>8. conn' \in [Connections -> ConnTypes]
  BY <1>2, <1>4, <1>7
<1>9. thread'[t] = next
  BY <1>2, <1>4
<1> QED
  BY <1>1, <1>4, <1>6, <1>8, <1>9, ServeKeepsIInv

LEMMA WriteMessageKeepsIInv ==
  ASSUME IInv, NEW t \in Threads, WriteMessage(t)
  PROVE  IInv'
<1> DEFINE k    == thread[t].conn
           idle == [Fresh EXCEPT !.pc = "ready", !.conn = k]
<1>1. /\ thread[t].pc = "write" /\ thread[t].pc \in Serving /\ thread[t].pc \in Working
      /\ UNCHANGED <<control, canRun, threadRunning, raced, conn, client>>
  BY DEF WriteMessage, Serving, Working
<1>2. /\ thread \in [Threads -> ThreadTypes] /\ conn \in [Connections -> ConnTypes]
      /\ k \in Connections /\ thread[t].left # << >>
  BY <1>1 DEF IInv, TypeOK
<1>3. idle \in ThreadTypes /\ idle.pc = "ready" /\ idle.conn = k
  BY <1>2, FreshTypes DEF ThreadTypes, Working, Serving
<1>4. CASE Goto(t, "writing")
  BY <1>1, <1>2, <1>4, GotoKeepsIInv DEF Working, Serving
<1>5. CASE thread' = [thread EXCEPT ![t] = idle]
  <2>1. thread'[t] = idle
    BY <1>2, <1>5
  <2> HIDE DEF idle
  <2> QED
    BY <1>1, <1>2, <1>3, <1>5, <2>1, ServeKeepsIInv DEF Serving
<1> QED
  BY <1>4, <1>5 DEF WriteMessage

-----------------------------------------------------------------------------
(* A thread comes up or ends: no other is there. *)
LEMMA ThreadStartsKeepsIInv ==
  ASSUME IInv, NEW t \in Threads, ThreadStarts(t)
  PROVE  IInv'
<1>1. thread \in [Threads -> ThreadTypes] /\ thread[t].pc = "spawned"
  BY DEF IInv, TypeOK, ThreadStarts
<1>2. thread'[t] = [thread[t] EXCEPT !.pc = "loop"] /\ \A u \in Threads : u # t => thread'[u] = thread[u]
  BY <1>1 DEF ThreadStarts, Goto
<1>3. thread'[t] \in ThreadTypes /\ thread'[t].pc = "loop"
  BY <1>1, <1>2 DEF ThreadTypes, Working
<1>4. TypeOK'
  <2>1. thread' \in [Threads -> ThreadTypes]
    BY <1>1, <1>2, <1>3 DEF ThreadStarts, Goto
  <2> QED
    BY <1>2, <1>3, <2>1 DEF ThreadStarts, Serving, IInv, TypeOK
<1>5. Alive' = Alive
  BY <1>1, <1>2, <1>3 DEF Alive
<1>6. t \in Alive /\ (Starting' => Starting)
  BY <1>1, <1>2, <1>3 DEF Alive, Starting
<1>7. FlagTells'
  BY <1>6 DEF ThreadStarts, FlagTells, IInv
<1>8. StoppedWhenDisabled'
  BY <1>5 DEF ThreadStarts, StoppedWhenDisabled, IInv
<1> QED
  BY <1>4, <1>7, <1>8 DEF IInv

LEMMA ThreadEndsKeepsIInv ==
  ASSUME IInv, NEW t \in Threads, ThreadEnds(t)
  PROVE  IInv'
<1>1. thread \in [Threads -> ThreadTypes] /\ thread[t].pc = "ending"
  BY DEF IInv, TypeOK, ThreadEnds
<1>2. thread'[t] = [thread[t] EXCEPT !.pc = "ended"] /\ \A u \in Threads : u # t => thread'[u] = thread[u]
  BY <1>1 DEF ThreadEnds, Goto
<1>3. thread'[t] \in ThreadTypes /\ thread'[t].pc = "ended"
  BY <1>1, <1>2 DEF ThreadTypes
<1>4. TypeOK'
  <2>1. thread' \in [Threads -> ThreadTypes]
    BY <1>1, <1>2, <1>3 DEF ThreadEnds, Goto
  <2> QED
    BY <1>2, <1>3, <2>1 DEF ThreadEnds, Serving, IInv, TypeOK
<1>5. t \in Alive /\ Alive' = Alive \ {t} /\ (Starting' => Starting)
  BY <1>1, <1>2, <1>3 DEF Alive, Starting
<1>6. ~raced => Alive' = {}
  BY <1>5 DEF StoppedWhenDisabled, IInv
<1>7. ~raced => \A u \in Threads : thread'[u].pc \notin Working
  BY <1>6 DEF Alive, Working, Serving
<1>8. FlagTells'
  BY <1>5, <1>7 DEF ThreadEnds, FlagTells, IInv
<1>9. StoppedWhenDisabled'
  BY <1>6 DEF ThreadEnds, StoppedWhenDisabled
<1> QED
  BY <1>4, <1>8, <1>9 DEF IInv

(* Whoever finds the flag cleared while no thread is starting is alone. *)
LEMMA FlagClearedAlone == IInv /\ ~raced /\ ~threadRunning /\ ~Starting => Alive = {}
<1> SUFFICES ASSUME IInv, ~raced, ~threadRunning, ~Starting, NEW t \in Threads
             PROVE  thread[t].pc \in {"none", "ended"}
  BY DEF Alive
<1>1. thread[t].pc \in Working \cup {"none", "spawned", "ended"}
  BY DEF IInv, TypeOK, ThreadTypes
<1>2. thread[t].pc \notin Working
  BY DEF IInv, FlagTells
<1>3. thread[t].pc # "spawned"
  BY DEF Starting
<1> QED
  BY <1>1, <1>2, <1>3

LEMMA EnableKeepsIInv ==
  ASSUME IInv, NEW t \in Threads, Enable(t)
  PROVE  IInv'
<1>1. thread \in [Threads -> ThreadTypes] /\ thread[t].pc = "none"
  <2>1. t \in 1 .. t
    BY RemoteModuleAssumption DEF Threads
  <2> QED
    BY <2>1 DEF IInv, TypeOK, Enable
<1>2. thread'[t] = [thread[t] EXCEPT !.pc = "spawned"] /\ \A u \in Threads : u # t => thread'[u] = thread[u]
  BY <1>1 DEF Enable
<1>3. thread'[t] \in ThreadTypes /\ thread'[t].pc = "spawned"
  BY <1>1, <1>2 DEF ThreadTypes
<1>4. TypeOK'
  <2>1. thread' \in [Threads -> ThreadTypes]
    BY <1>1, <1>2, <1>3 DEF Enable
  <2>2. raced' \in BOOLEAN
    BY DEF Enable, IInv, TypeOK, Starting
  <2> QED
    BY <1>2, <1>3, <2>1, <2>2 DEF Enable, Serving, IInv, TypeOK
<1>5. ~raced' => ~raced /\ ~Starting
  BY DEF Enable
<1>6. ~raced' => Alive = {}
  BY <1>5, FlagClearedAlone DEF Enable
<1>7. Alive' \subseteq Alive \cup {t}
  BY <1>2 DEF Alive
<1>8. FlagTells'
  <2>1. thread'[t].pc \notin Working
    BY <1>3 DEF Working, Serving
  <2> QED
    BY <1>2, <1>5, <2>1 DEF Enable, FlagTells, IInv
<1>9. StoppedWhenDisabled'
  BY <1>6, <1>7 DEF Enable, StoppedWhenDisabled
<1> QED
  BY <1>4, <1>8, <1>9 DEF IInv

LEMMA DisableKeepsIInv ==
  ASSUME IInv, NEW from \in {"disabling", "destroying"}, Disable(from)
  PROVE  IInv'
<1>1. raced' \in BOOLEAN /\ (~raced' => ~raced /\ ~Starting)
  BY DEF Disable, IInv, TypeOK, Starting
<1>2. TypeOK'
  BY <1>1 DEF Disable, IInv, TypeOK
<1>3. Alive' = Alive /\ Starting' = Starting
  BY DEF Disable, Alive, Starting
<1>4. FlagTells'
  BY <1>1, <1>3 DEF Disable, FlagTells, IInv
<1>5. StoppedWhenDisabled'
  BY <1>1, <1>3 DEF Disable, StoppedWhenDisabled, IInv
<1> QED
  BY <1>2, <1>4, <1>5 DEF IInv

LEMMA DisableReturnsKeepsIInv ==
  ASSUME IInv, DisableReturns
  PROVE  IInv'
<1>1. TypeOK'
  BY DEF DisableReturns, IInv, TypeOK
<1>2. Alive' = Alive /\ Starting' = Starting
  BY DEF DisableReturns, Alive, Starting
<1>3. ~raced => ~Starting
  BY DEF DisableReturns, FlagTells, IInv
<1>4. FlagTells'
  BY <1>2, <1>3 DEF DisableReturns, FlagTells, IInv
<1>5. ~raced => Alive' = {}
  BY <1>2, <1>3, FlagClearedAlone DEF DisableReturns
<1>6. StoppedWhenDisabled'
  BY <1>5 DEF DisableReturns, StoppedWhenDisabled
<1> QED
  BY <1>1, <1>4, <1>6 DEF IInv

-----------------------------------------------------------------------------
(* The client changes nothing of the threads. *)
LEMMA ClientStepKeepsIInv ==
  ASSUME IInv, UNCHANGED <<control, canRun, threadRunning, raced, thread>>,
         conn' \in [Connections -> ConnTypes], client' \in ClientTypes,
         client'.pc # "off" => client'.conn \in Connections,
         client'.pc = "send" => client'.left # << >>,
         client'.pc = "wait" => client'.item \in Items
  PROVE  IInv'
<1>1. TypeOK'
  BY DEF IInv, TypeOK
<1>2. Alive' = Alive /\ Starting' = Starting
  BY DEF Alive, Starting
<1>3. FlagTells'
  BY <1>2 DEF FlagTells, IInv
<1>4. StoppedWhenDisabled'
  BY <1>2 DEF StoppedWhenDisabled, IInv
<1> QED
  BY <1>1, <1>3, <1>4 DEF IInv

LEMMA OffTypes == Off \in ClientTypes /\ Off.pc = "off"
BY RemoteModuleAssumption DEF Off, ClientTypes, Contents

(* Connecting and asking set a message to send. *)
LEMMA AskSteps ==
  ASSUME IInv,
         \/ \E k \in Connections, t \in Threads : Connect(k, t)
         \/ \E item \in Items : Ask(item)
  PROVE  IInv'
<1>1. conn \in [Connections -> ConnTypes] /\ client \in ClientTypes
  BY DEF IInv, TypeOK
<1>2. ASSUME NEW k \in Connections, NEW t \in Threads, Connect(k, t)
      PROVE  IInv'
  <2> DEFINE ping == Message("Ping", NoItem, FALSE)
  <2>1. ping \in Seq(Parts) \ {<< >>}
    <3>1. "Ping" \in Commands /\ NoItem \in Contents /\ FALSE \in BOOLEAN
      BY DEF Commands, Contents
    <3> QED
      BY <3>1, MessageTypes
  <2>2. client' = [Send(ping, NoItem) EXCEPT !.conn = k]
    BY <1>2 DEF Connect
  <2> HIDE DEF ping
  <2>3. k \in 0 .. MaxConnections /\ t \in 0 .. MaxThreads
    BY RemoteModuleAssumption DEF Connections, Threads
  <2>4. /\ client' \in ClientTypes /\ client'.conn = k /\ client'.pc = "send"
        /\ client'.left # << >>
    BY <1>1, <2>1, <2>2, <2>3 DEF Send, ClientTypes
  <2>5. [conn[k] EXCEPT !.state = "queued", !.host = t, !.open = TRUE] \in ConnTypes
    BY <1>1, <2>3 DEF ConnTypes
  <2>6. conn' \in [Connections -> ConnTypes]
    BY <1>1, <1>2, <2>5 DEF Connect
  <2> QED
    BY <1>2, <2>4, <2>6, ClientStepKeepsIInv DEF Connect
<1>3. ASSUME NEW item \in Items, Ask(item)
      PROVE  IInv'
  <2>1. client' = [Send(Request(item), item) EXCEPT !.got = Off.got] /\ client.pc = "connected"
    BY <1>3 DEF Ask
  <2>2. Off.got \in Contents \X Contents
    BY OffTypes DEF ClientTypes
  <2>3. /\ client' \in ClientTypes /\ client'.conn = client.conn /\ client'.pc = "send"
        /\ client'.left # << >>
    BY <1>1, <2>1, <2>2, RequestTypes DEF Send, ClientTypes
  <2>4. client.conn \in Connections
    BY <2>1 DEF IInv, TypeOK
  <2> QED
    BY <1>1, <1>3, <2>3, <2>4, ClientStepKeepsIInv DEF Ask
<1> QED
  BY <1>2, <1>3

LEMMA ClientWritesKeepsIInv == IInv /\ ClientWrites => IInv'
<1> SUFFICES ASSUME IInv, ClientWrites PROVE IInv'
  OBVIOUS
<1> DEFINE k    == client.conn
           left == client.left
           part == Head(left)
           ask  == [cmd |-> part.cmd, item |-> part.item]
           sent == [conn[k] EXCEPT !.in = Append(@, part),
                                   !.asked = IF Len(left) = 1 THEN Append(@, ask) ELSE @]
           pc   == IF Len(left) # 1 THEN "send" ELSE IF client.item = NoItem THEN "drain" ELSE "wait"
<1>1. /\ conn \in [Connections -> ConnTypes] /\ client \in ClientTypes
      /\ k \in Connections /\ left \in Seq(Parts) /\ left # << >>
  BY DEF ClientWrites, IInv, TypeOK, ClientTypes
<1>2. part \in Parts /\ Tail(left) \in Seq(Parts) /\ (Len(left) # 1 => Tail(left) # << >>)
  BY <1>1, MessageRest
<1>3. conn' = [conn EXCEPT ![k] = sent]
  BY <1>1 DEF ClientWrites
<1>4. client' = [client EXCEPT !.left = Tail(left), !.pc = pc]
  BY <1>1 DEF ClientWrites
<1>5. sent \in ConnTypes
  <2>1. ask \in Asks
    BY <1>2 DEF Parts, Asks
  <2>2. /\ conn[k] \in ConnTypes
        /\ Append(conn[k].in, part) \in Seq(Parts)
        /\ Append(conn[k].asked, ask) \in Seq(Asks)
    BY <1>1, <1>2, <2>1 DEF ConnTypes
  <2> HIDE DEF ask, part, left
  <2> QED
    BY <2>2 DEF ConnTypes
<1>6. /\ client' \in ClientTypes /\ client'.conn = k
      /\ client'.pc = "send" => client'.left # << >>
      /\ client'.pc = "wait" => client'.item \in Items
  <2>1. client'.pc = pc /\ client'.left = Tail(left) /\ client'.item = client.item /\ client'.conn = k
    BY <1>1, <1>4 DEF ClientTypes
  <2>2. client' \in ClientTypes
    BY <1>1, <1>2, <1>4 DEF ClientTypes
  <2>3. client.item \in Items \cup {NoItem}
    BY <1>1 DEF ClientTypes
  <2> QED
    BY <1>2, <2>1, <2>2, <2>3
<1> HIDE DEF sent
<1>7. conn' \in [Connections -> ConnTypes]
  BY <1>1, <1>3, <1>5
<1> QED
  BY <1>1, <1>6, <1>7, ClientStepKeepsIInv DEF ClientWrites

LEMMA ClientReadsKeepsIInv == IInv /\ ClientReads => IInv'
<1> SUFFICES ASSUME IInv, ClientReads PROVE IInv'
  OBVIOUS
<1> DEFINE k    == client.conn
           out  == conn[k].out
           used == IF Head(out).more THEN 2 ELSE 1
           body == out[used].item
           rest == SubSeq(out, used + 1, Len(out))
<1>1. /\ conn \in [Connections -> ConnTypes] /\ client \in ClientTypes
      /\ k \in Connections /\ out \in Seq(Parts) /\ client.pc \in {"drain", "wait"}
  <2>1. k \in Connections /\ client.pc \in {"drain", "wait"}
    BY DEF ClientReads, IInv, TypeOK
  <2> QED
    BY <2>1 DEF IInv, TypeOK, ConnTypes
<1>2. out # << >> /\ used \in 1 .. Len(out)
  <2>1. out # << >> /\ (~Head(out).more \/ Len(out) > 1)
    BY DEF ClientReads, Arrived
  <2>2. Len(out) \in Nat /\ Len(out) # 0
    BY <1>1, <2>1
  <2> HIDE DEF out
  <2> QED
    BY <2>1, <2>2
<1>3. body \in Contents /\ rest \in Seq(Parts)
  <2> HIDE DEF used, out
  <2>1. out[used] \in Parts
    BY <1>1, <1>2
  <2>2. used \in Nat /\ Len(out) \in Nat
    BY <1>1, <1>2
  <2>3. SubSeq(out, used + 1, Len(out)) \in Seq(Parts)
    BY <1>1, <1>2, <2>2
  <2> QED
    BY <2>1, <2>3 DEF Parts
<1>4. conn' \in [Connections -> ConnTypes]
  <2>1. conn' = [conn EXCEPT ![k] = [conn[k] EXCEPT !.out = rest]]
    BY <1>1 DEF ClientReads
  <2> HIDE DEF rest
  <2>2. [conn[k] EXCEPT !.out = rest] \in ConnTypes
    <3>1. conn[k] \in ConnTypes
      BY <1>1
    <3> QED
      BY <1>3, <3>1 DEF ConnTypes
  <2> QED
    BY <1>1, <2>1, <2>2
<1>5. client' = client \/ client' = TakesFile(body) \/ client' = TakesTable(body)
  BY DEF ClientReads
<1>6. UNCHANGED <<control, canRun, threadRunning, raced, thread>>
  BY DEF ClientReads
<1> HIDE DEF body
<1>7. client' \in ClientTypes /\ client'.conn = k
      /\ (client'.pc = "send" => client'.left # << >>)
      /\ (client'.pc = "wait" => client'.item \in Items)
  <2>1. FileTable \in Items /\ StringTable \in Items /\ Items \subseteq Contents /\ NoItem \in Contents
    BY DEF Items, Contents
  <2>2. CASE client' = client
    BY <1>1, <2>2 DEF IInv, TypeOK
  <2>3. CASE client' = TakesFile(body)
    <3>1. client.item \in Contents
      BY <1>1, <2>1 DEF ClientTypes
    <3> QED
      BY <1>1, <1>3, <2>3, <3>1 DEF TakesFile, ClientTypes
  <2>4. CASE client' = TakesTable(body)
    <3>1. CASE client.item = FileTable
      <4> DEFINE request == Request(StringTable)
      <4>1. request \in Seq(Parts) \ {<< >>}
        BY <2>1, RequestTypes
      <4>2. client' = [Send(request, StringTable) EXCEPT !.got = <<FileTable, body>>]
        BY <2>4, <3>1 DEF TakesTable
      <4> HIDE DEF request
      <4> QED
        BY <1>1, <1>3, <2>1, <4>1, <4>2 DEF Send, ClientTypes
    <3>2. CASE client.item # FileTable
      BY <1>1, <1>3, <2>1, <2>4, <3>2 DEF TakesTable, ClientTypes
    <3> QED
      BY <3>1, <3>2
  <2> QED
    BY <1>5, <2>2, <2>3, <2>4
<1> QED
  BY <1>1, <1>4, <1>6, <1>7, ClientStepKeepsIInv

LEMMA ReturnSteps == IInv /\ (CallReturns \/ CallFails \/ Close) => IInv'
<1> SUFFICES ASSUME IInv, CallReturns \/ CallFails \/ Close PROVE IInv'
  OBVIOUS
<1>1. conn \in [Connections -> ConnTypes] /\ client \in ClientTypes
  BY DEF IInv, TypeOK
<1>2. << >> \in Seq(Parts)
  OBVIOUS
<1>3. CASE CallReturns
  <2>1. client' \in ClientTypes /\ client'.pc = "connected" /\ client'.conn = client.conn
    BY <1>1, <1>3 DEF CallReturns, ClientTypes
  <2>2. client.conn \in Connections
    BY <1>3 DEF CallReturns, IInv, TypeOK
  <2> QED
    BY <1>1, <1>3, <2>1, <2>2, ClientStepKeepsIInv DEF CallReturns
<1>4. CASE CallFails
  <2>1. client' \in ClientTypes /\ client'.pc = "connected" /\ client'.conn = client.conn
    BY <1>1, <1>2, <1>4 DEF CallFails, ClientTypes
  <2>2. client.conn \in Connections
    BY <1>4 DEF CallFails, IInv, TypeOK
  <2> QED
    BY <1>1, <1>4, <2>1, <2>2, ClientStepKeepsIInv DEF CallFails
<1>5. CASE Close
  <2>1. client' = Off /\ client.conn \in Connections
    BY <1>5 DEF Close, IInv, TypeOK
  <2>2. conn' = [conn EXCEPT ![client.conn] = [conn[client.conn] EXCEPT !.open = FALSE, !.out = << >>]]
    BY <1>1, <1>5, <2>1 DEF Close
  <2>3. [conn[client.conn] EXCEPT !.open = FALSE, !.out = << >>] \in ConnTypes
    BY <1>1, <1>2, <2>1 DEF ConnTypes
  <2>4. conn' \in [Connections -> ConnTypes]
    BY <1>1, <2>1, <2>2, <2>3
  <2> QED
    BY <1>5, <2>1, <2>4, OffTypes, ClientStepKeepsIInv DEF Close
<1> QED
  BY <1>3, <1>4, <1>5

-----------------------------------------------------------------------------
LEMMA ServerStepKeepsIInv ==
  ASSUME IInv, NEW t \in Threads, ServerStep(t) \/ AcceptFails(t)
  PROVE  IInv'
BY ThreadStartsKeepsIInv, LoopSteps, AcceptKeepsIInv, ReadSteps, ProcessCommandKeepsIInv,
   WriteMessageKeepsIInv, WritePartKeepsIInv, ThreadEndsKeepsIInv DEF ServerStep

LEMMA StepIInv == IInv /\ [Next]_vars => IInv'
<1> SUFFICES ASSUME IInv, [Next]_vars PROVE IInv'
  OBVIOUS
<1>1. CASE \E t \in Threads : Enable(t)
  BY <1>1, EnableKeepsIInv
<1>2. CASE \E from \in {"disabling", "destroying"} : Disable(from)
  BY <1>2, DisableKeepsIInv
<1>3. CASE DisableReturns
  BY <1>3, DisableReturnsKeepsIInv
<1>4. CASE \E t \in Threads : ServerStep(t) \/ AcceptFails(t)
  BY <1>4, ServerStepKeepsIInv
<1>5. CASE \/ \E k \in Connections, t \in Threads : Connect(k, t)
           \/ \E item \in Items : Ask(item)
  BY <1>5, AskSteps
<1>6. CASE ClientWrites
  BY <1>6, ClientWritesKeepsIInv
<1>7. CASE ClientReads
  BY <1>7, ClientReadsKeepsIInv
<1>8. CASE CallReturns \/ CallFails \/ Close
  BY <1>8, ReturnSteps
<1>9. CASE UNCHANGED vars
  <2>1. Alive' = Alive /\ Starting' = Starting
    BY <1>9 DEF vars, Alive, Starting
  <2>2. FlagTells' /\ StoppedWhenDisabled'
    BY <1>9, <2>1 DEF vars, IInv, FlagTells, StoppedWhenDisabled
  <2>3. TypeOK'
    BY <1>9 DEF vars, IInv, TypeOK
  <2> QED
    BY <2>2, <2>3 DEF IInv
<1> QED
  BY <1>1, <1>2, <1>3, <1>4, <1>5, <1>6, <1>7, <1>8, <1>9 DEF Next

(* In every state the types are right and m_ThreadRunning tells that a      *)
(* thread works, unless a call overtook a starting thread.                  *)
THEOREM RemoteInvariant == Spec => []IInv
BY InitIInv, StepIInv, PTL DEF Spec

(* Disable and the destructor leave no thread behind, and Enable starts no  *)
(* second one, whatever clients do and whenever a thread fails, unless a    *)
(* call of Enable, Disable or the destructor comes before a started thread  *)
(* has set m_ThreadRunning.                                                 *)
THEOREM NoThreadOutlivesDisable == Spec => []StoppedWhenDisabled
<1>1. IInv => StoppedWhenDisabled
  BY DEF IInv
<1> QED
  BY <1>1, RemoteInvariant, PTL

-----------------------------------------------------------------------------
(* Answers.  A connection's stream is the first Ping of its client, if the  *)
(* server has not answered it, and then at most one request: the client     *)
(* asks again only when it has the answer, and that comes after the Pong.   *)
Part(cmd, item, more) == [cmd |-> cmd, item |-> item, more |-> more]

PingPart == Part("Ping", NoItem, FALSE)

PongPart == Part("Pong", NoItem, FALSE)

FileHeader == Part("GetFile", NoItem, TRUE)

FileBody(item) == Part("GetFile", item, FALSE)

TableAsk(item) == Part(CommandFor(item), NoItem, FALSE)

Wanted(item) == IF item \in Files THEN item ELSE NoItem

AskFor(item) == [cmd |-> CommandFor(item), item |-> Wanted(item)]

PingAsk == [cmd |-> "Ping", item |-> NoItem]

(* What the server may answer to a request. *)
Given(item) ==
  {IF Size[item] + (IF item \in Files THEN 24 ELSE 16) > 131072 THEN Short ELSE item}
  \cup (IF item \in Files THEN {Failed} ELSE {})

AnswerHeader(item) == Part(CommandFor(item), NoItem, TRUE)

AnswerBody(item, body) == Part(CommandFor(item), body, FALSE)

(* A stream is these parts, with a Ping before them or not. *)
Streamed(in, ping, rest) ==
  IF ping THEN in # << >> /\ Head(in) = PingPart /\ Tail(in) = rest ELSE in = rest

(* What there is to read behind the Pong. *)
Behind(out) == IF out # << >> /\ Head(out) = PongPart THEN Tail(out) ELSE out

(* The parts of the request that is due; cut if only its header was sent.   *)
Due(due, cut) ==
  IF due = NoItem THEN << >> ELSE IF cut THEN <<FileHeader>> ELSE Request(due)

(* Where the Ping and the request that is due are, of connection c that     *)
(* thread h serves or will serve.                                           *)
Reading(c, h, ping, due, cut) ==
  \/ /\ c.state = "queued" \/ h.pc \in {"ready", "reading", "header"}
     /\ Streamed(c.in, ping, Due(due, cut))
  \/ /\ c.state = "served" /\ h.pc \in {"payload", "body"}
     /\ ~ping /\ due \in Files /\ h.cmd = "GetFile"
     /\ c.in = IF cut THEN << >> ELSE <<FileBody(due)>>
  \/ /\ c.state = "served" /\ h.pc \in {"process", "write", "writing"}
     /\ ping /\ h.cmd = "Ping" /\ h.item = NoItem
     /\ c.in = Due(due, cut)
  \/ /\ c.state = "served" /\ h.pc \in {"process", "write", "writing"}
     /\ ~ping /\ due # NoItem /\ ~cut
     /\ h.cmd = CommandFor(due) /\ h.item = Wanted(due)
     /\ c.in = << >>

(* What was asked is what was answered and what is due. *)
Counted(c, ping, due, cut) ==
  LET next == Len(c.answered) + (IF ping THEN 1 ELSE 0)
  IN  /\ Len(c.asked) = next + (IF due = NoItem \/ cut THEN 0 ELSE 1)
      /\ \A i \in 1 .. Len(c.answered) : c.answered[i] = c.asked[i]
      /\ ping => c.asked[next] = PingAsk
      /\ due # NoItem /\ ~cut => c.asked[next + 1] = AskFor(due)

(* What the thread still has to write; cl is the connection's client.       *)
Writing(c, h, cl, ping, due) ==
  c.state = "served" /\ h.pc \in {"write", "writing"} =>
    IF ping THEN h.left = <<PongPart>>
    ELSE \E body \in Given(due) :
           \/ h.left = <<AnswerBody(due, body)>>
           \/ /\ h.left = <<AnswerHeader(due), AnswerBody(due, body)>>
              /\ cl.pc # "off" => Behind(c.out) = << >>

(* What the client is doing about it. *)
Sending(c, cl, ping, due, cut) ==
  \/ /\ cl.item = NoItem /\ ~ping /\ due = NoItem /\ cl.left = <<PingPart>>
     /\ c.asked = << >> /\ c.out = << >>
  \/ cl.item # NoItem /\ due = NoItem /\ cl.left = Request(cl.item)
  \/ cl.item \in Files /\ due = cl.item /\ cut /\ cl.left = <<FileBody(cl.item)>>

Waiting(c, h, cl, due, cut) ==
  /\ due = cl.item /\ ~cut
  /\ \/ Behind(c.out) = << >>
     \/ /\ Behind(c.out) = <<AnswerHeader(cl.item)>>
        /\ c.state = "served" /\ h.pc \in {"write", "writing"} /\ Len(h.left) = 1

Asking(c, h, cl, ping, due, cut) ==
  /\ ping /\ cl.pc # "off" => c.out = << >>
  /\ cl.pc = "send" => Sending(c, cl, ping, due, cut)
  /\ cl.pc \in {"drain", "connected"} => due = NoItem
  /\ cl.pc = "wait" /\ due # NoItem => Waiting(c, h, cl, due, cut)

Agreed(c, h, cl, ping, due, cut) ==
  /\ cut => due \in Files
  /\ Reading(c, h, ping, due, cut)
  /\ Counted(c, ping, due, cut)
  /\ Writing(c, h, cl, ping, due)
  /\ Asking(c, h, cl, ping, due, cut)

Sound(c, h, cl) ==
  \E ping \in BOOLEAN, due \in Items \cup {NoItem}, cut \in BOOLEAN :
    Agreed(c, h, cl, ping, due, cut)

(* What the client has not read is its Pong, and of the answer to what it   *)
(* waits for as much as was written.                                        *)
Coming(item, rest) ==
  \/ rest \in {<< >>, <<AnswerHeader(item)>>}
  \/ \E body \in Given(item) :
       rest \in {<<AnswerBody(item, body)>>, <<AnswerHeader(item), AnswerBody(item, body)>>}

Leftover(c, cl) ==
  LET rest == Behind(c.out)
  IN  /\ cl.pc = "wait" => Coming(cl.item, rest)
      /\ cl.pc = "drain" => rest = << >>
      /\ cl.pc \in {"send", "connected"} /\ c.state # "closed" => rest = << >>

(* The connections that have a server thread, and the client of each. *)
Active == {k \in Connections : conn[k].state \in {"queued", "served"}}

Host(k) == thread[conn[k].host]

ClientOf(k) == IF client.pc # "off" /\ client.conn = k THEN client ELSE Off

(* An open or queued connection has a thread, and a thread that serves has  *)
(* a connection; the others are as new.                                     *)
Hosted ==
  /\ \A k \in Active : conn[k].host \in Listening
  /\ \A k \in Connections : conn[k].state = "served" =>
       Host(k).pc \in Serving /\ Host(k).conn = k
  /\ \A t \in Threads : thread[t].pc \in Serving =>
       conn[thread[t].conn].state = "served" /\ conn[thread[t].conn].host = t

Untouched ==
  /\ \A k \in Connections \ Active :
       /\ conn[k].in = << >> /\ conn[k].asked = << >> /\ conn[k].answered = << >>
       /\ conn[k].state = "unused" => conn[k].out = << >>
  /\ client.pc # "off" => conn[client.conn].state # "unused"

Answered(c) ==
  /\ Len(c.answered) <= Len(c.asked)
  /\ \A i \in DOMAIN c.answered : c.answered[i] = c.asked[i]

Unread == client.pc # "off" => Leftover(conn[client.conn], client)

Got(cl) == cl.got[1] # NoItem => cl.got[1] \in Items /\ cl.got[2] \in Given(cl.got[1])

(* Whose parts agree: all of them until m_CanRun is cleared, and then that  *)
(* of a thread that is blocked in a write.                                  *)
Kept(k) == canRun \/ (conn[k].state = "served" /\ Host(k).pc = "writing")

AnswerInv ==
  /\ Hosted
  /\ Untouched
  /\ ~raced => /\ \A k \in Active : Kept(k) => Sound(conn[k], Host(k), ClientOf(k))
               /\ \A k \in Connections : Answered(conn[k])
               /\ Unread
               /\ Got(client)

-----------------------------------------------------------------------------
(* Lists of one or two. *)
LEMMA Lists ==
  ASSUME NEW a, NEW b
  PROVE  /\ Head(<<a>>) = a /\ Tail(<<a>>) = << >> /\ <<a>> # << >> /\ Len(<<a>>) = 1
         /\ Head(<<a, b>>) = a /\ Tail(<<a, b>>) = <<b>> /\ <<a, b>> # << >> /\ Len(<<a, b>>) = 2
         /\ Append(<< >>, a) = <<a>>
         /\ <<a>> # <<a, b>>
<1>1. Head(<<a>>) = a /\ Tail(<<a>>) = << >> /\ <<a>> # << >> /\ Len(<<a>>) = 1
  OBVIOUS
<1>2. Head(<<a, b>>) = a /\ Tail(<<a, b>>) = <<b>> /\ <<a, b>> # << >> /\ Len(<<a, b>>) = 2
  OBVIOUS
<1>3. Append(<< >>, a) = <<a>>
  OBVIOUS
<1>4. <<a>> # <<a, b>>
  OBVIOUS
<1> QED BY <1>1, <1>2, <1>3, <1>4

LEMMA ListOfTwo ==
  ASSUME NEW a, NEW b
  PROVE  Append(<<a>>, b) = <<a, b>>
<1>1. <<a>> \in Seq({a, b}) /\ b \in {a, b}
  OBVIOUS
<1>2. PICK s \in Seq({a, b}) : s = <<a>>
  BY <1>1
<1>3. Len(s) = 1 /\ s[1] = a
  BY <1>2
<1>4. PICK w : w = Append(s, b)
  OBVIOUS
<1>5. /\ w \in Seq({a, b}) /\ Len(w) = Len(s) + 1
      /\ \A i \in 1 .. Len(s) : w[i] = s[i]
      /\ w[Len(s) + 1] = b
  BY <1>1, <1>4, AppendProperties
<1>6. Len(w) = 2 /\ w[2] = b /\ w \in Seq({a, b})
  BY <1>3, <1>5
<1>7. w[1] = a
  BY <1>3, <1>5
<1>8. w = <<w[1], w[2]>>
  <2>1. w \in Seq({a, b}) /\ Len(w) = 2
    BY <1>6
  <2> QED BY <2>1
<1>9. w = <<a, b>>
  BY <1>6, <1>7, <1>8
<1> QED BY <1>2, <1>4, <1>9

(* A list grows at its end and is taken from at its head. *)
LEMMA Grown ==
  ASSUME NEW S, NEW s \in Seq(S), s # << >>, NEW p \in S
  PROVE  /\ Append(s, p) # << >>
         /\ Head(Append(s, p)) = Head(s)
         /\ Tail(Append(s, p)) = Append(Tail(s), p)
<1>1. Append(s, p) # << >>
  OBVIOUS
<1>2. Head(Append(s, p)) = Head(s)
  OBVIOUS
<1>3. Tail(Append(s, p)) = Append(Tail(s), p)
  OBVIOUS
<1> QED BY <1>1, <1>2, <1>3

LEMMA Parting ==
  /\ PingPart.cmd = "Ping" /\ PingPart.item = NoItem /\ ~PingPart.more
  /\ PongPart.cmd = "Pong" /\ ~PongPart.more
  /\ FileHeader.cmd = "GetFile" /\ FileHeader.item = NoItem /\ FileHeader.more
  /\ \A item : FileBody(item).cmd = "GetFile" /\ FileBody(item).item = item /\ ~FileBody(item).more
  /\ \A item : LET ask == TableAsk(item)
               IN  ask.cmd = CommandFor(item) /\ ask.item = NoItem /\ ~ask.more
  /\ \A item : AnswerHeader(item).cmd = CommandFor(item) /\ AnswerHeader(item).more
  /\ \A item, body : LET answer == AnswerBody(item, body)
                     IN  answer.cmd = CommandFor(item) /\ answer.item = body /\ ~answer.more
BY DEF Part, PingPart, PongPart, FileHeader, FileBody, TableAsk, AnswerHeader, AnswerBody

LEMMA Kinds ==
  ASSUME NEW item \in Items
  PROVE  /\ CommandFor(item) \in {"GetFileTable", "GetStringTable", "GetFile"}
         /\ CommandFor(item) = "GetFile" <=> item \in Files
         /\ item # NoItem /\ item # Short /\ item # Failed
         /\ item \notin Files => item \in {FileTable, StringTable}
<1>1. item # NoItem /\ item # Short /\ item # Failed
  BY RemoteModuleAssumption
<1>2. item \notin Files => item \in {FileTable, StringTable}
  BY DEF Items
<1>3. CASE item \in Files
  BY <1>1, <1>3, RemoteModuleAssumption DEF CommandFor
<1>4. CASE item \notin Files
  BY <1>1, <1>2, <1>4, RemoteModuleAssumption DEF CommandFor
<1> QED BY <1>1, <1>2, <1>3, <1>4

LEMMA Messages ==
  ASSUME NEW cmd, NEW item
  PROVE  /\ Message(cmd, item, TRUE) = <<Part(cmd, NoItem, TRUE), Part(cmd, item, FALSE)>>
         /\ Message(cmd, item, FALSE) = <<Part(cmd, item, FALSE)>>
BY DEF Message, Part

LEMMA Requests ==
  ASSUME NEW item \in Items
  PROVE  /\ item \in Files => Request(item) = <<FileHeader, FileBody(item)>>
         /\ item \notin Files => Request(item) = <<TableAsk(item)>>
<1>1. CASE item \in Files
  <2>1. Request(item) = Message("GetFile", item, TRUE)
    BY <1>1, Kinds DEF Request
  <2> QED BY <1>1, <2>1, Messages DEF FileHeader, FileBody
<1>2. CASE item \notin Files
  <2>1. (item \in Files) = FALSE /\ (IF item \in Files THEN item ELSE NoItem) = NoItem
    BY <1>2
  <2>2. Request(item) = Message(CommandFor(item), NoItem, FALSE)
    BY <2>1, Zenon DEF Request
  <2> QED BY <1>2, <2>2, Messages DEF TableAsk
<1> QED BY <1>1, <1>2

(* What is due is in the stream in these pieces. *)
LEMMA Dues ==
  ASSUME NEW item \in Items, NEW cut
  PROVE  /\ item \in Files /\ cut => Due(item, cut) = <<FileHeader>>
         /\ item \in Files /\ ~cut => Due(item, cut) = <<FileHeader, FileBody(item)>>
         /\ item \notin Files /\ ~cut => Due(item, cut) = <<TableAsk(item)>>
         /\ Due(NoItem, cut) = << >>
BY Requests, Kinds DEF Due

-----------------------------------------------------------------------------
(* What each step makes of what a connection, its thread and its client     *)
(* agree on.                                                                *)
SameStreams(c, d) ==
  d.in = c.in /\ d.out = c.out /\ d.asked = c.asked /\ d.answered = c.answered

SameButOut(c, d) ==
  d.state = c.state /\ d.in = c.in /\ d.asked = c.asked /\ d.answered = c.answered

LEMMA QueuedSound ==
  ASSUME NEW c, NEW h, NEW g, NEW cl, c.state = "queued", Sound(c, h, cl)
  PROVE  Sound(c, g, cl)
<1>1. PICK ping \in BOOLEAN, due \in Items \cup {NoItem}, cut \in BOOLEAN :
        Agreed(c, h, cl, ping, due, cut)
  BY DEF Sound
<1>2. Reading(c, g, ping, due, cut)
  BY <1>1 DEF Agreed, Reading
<1>3. Writing(c, g, cl, ping, due)
  BY DEF Writing
<1>4. Asking(c, g, cl, ping, due, cut)
  BY <1>1 DEF Agreed, Asking, Waiting
<1> QED BY <1>1, <1>2, <1>3, <1>4 DEF Sound, Agreed

LEMMA AcceptSound ==
  ASSUME NEW c, NEW h, NEW d, NEW g, NEW cl, c.state = "queued", d.state = "served",
         SameStreams(c, d), g.pc = "ready", Sound(c, h, cl)
  PROVE  Sound(d, g, cl)
<1>1. PICK ping \in BOOLEAN, due \in Items \cup {NoItem}, cut \in BOOLEAN :
        Agreed(c, h, cl, ping, due, cut)
  BY DEF Sound
<1>2. Reading(d, g, ping, due, cut)
  BY <1>1 DEF Agreed, Reading, SameStreams
<1>3. Writing(d, g, cl, ping, due)
  BY DEF Writing
<1>4. Asking(d, g, cl, ping, due, cut)
  BY <1>1 DEF Agreed, Asking, Sending, Waiting, SameStreams
<1>5. Counted(d, ping, due, cut)
  BY <1>1 DEF Agreed, Counted, SameStreams
<1> QED BY <1>1, <1>2, <1>3, <1>4, <1>5 DEF Sound, Agreed

(* The thread goes on to the header, from the header to the body, or to a write. *)
LEMMA TurnSound ==
  ASSUME NEW c, NEW h, NEW g, NEW cl, c.state = "served", Sound(c, h, cl),
         \/ h.pc \in {"ready", "reading"} /\ g.pc \in {"reading", "header"}
         \/ h.pc = "payload" /\ g.pc = "body" /\ g.cmd = h.cmd
         \/ /\ h.pc = "write" /\ g.pc = "writing"
            /\ g.cmd = h.cmd /\ g.item = h.item /\ g.left = h.left
  PROVE  Sound(c, g, cl)
<1>1. PICK ping \in BOOLEAN, due \in Items \cup {NoItem}, cut \in BOOLEAN :
        Agreed(c, h, cl, ping, due, cut)
  BY DEF Sound
<1>2. Reading(c, g, ping, due, cut)
  BY <1>1 DEF Agreed, Reading
<1>3. Writing(c, g, cl, ping, due)
  BY <1>1 DEF Agreed, Writing
<1>4. Asking(c, g, cl, ping, due, cut)
  BY <1>1 DEF Agreed, Asking, Waiting
<1> QED BY <1>1, <1>2, <1>3, <1>4 DEF Sound, Agreed

(* A header is read: the Ping, a request for a table, or of a file's. *)
LEMMA HeaderSound ==
  ASSUME NEW c \in ConnTypes, NEW d, NEW h, NEW g, NEW cl, Sound(c, h, cl),
         c.state = "served", d.state = "served", h.pc = "header", c.in # << >>,
         d.in = Tail(c.in), d.out = c.out, d.asked = c.asked, d.answered = c.answered,
         Head(c.in).item = NoItem => g.cmd = Head(c.in).cmd,
         g.pc = IF Head(c.in).more THEN "payload" ELSE "process",
         g.cmd # "GetFile" \/ Head(c.in).more => g.item = NoItem
  PROVE  Sound(d, g, cl)
<1>1. PICK ping \in BOOLEAN, due \in Items \cup {NoItem}, cut \in BOOLEAN :
        Agreed(c, h, cl, ping, due, cut)
  BY DEF Sound
<1>2. Streamed(c.in, ping, Due(due, cut)) /\ (cut => due \in Files)
  BY <1>1 DEF Agreed, Reading
<1>3. Reading(d, g, ping, due, cut)
  <2>1. CASE ping
    <3>1. Head(c.in) = PingPart /\ d.in = Due(due, cut)
      BY <1>2, <2>1 DEF Streamed
    <3>2. g.pc = "process" /\ g.cmd = "Ping" /\ g.item = NoItem
      BY <3>1, Parting
    <3> QED BY <2>1, <3>1, <3>2 DEF Reading
  <2>2. CASE ~ping
    <3>1. c.in = Due(due, cut) /\ due # NoItem /\ due \in Items
      <4>1. c.in = Due(due, cut)
        BY <1>2, <2>2 DEF Streamed
      <4>2. due # NoItem
        BY <4>1 DEF Due
      <4> QED BY <4>1, <4>2
    <3>2. CASE due \in Files
      <4>1. /\ Head(c.in) = FileHeader
            /\ d.in = IF cut THEN << >> ELSE <<FileBody(due)>>
        <5>1. CASE cut
          <6>1. c.in = <<FileHeader>>
            BY <3>1, <3>2, <5>1, Dues
          <6> QED BY <5>1, <6>1, Lists
        <5>2. CASE ~cut
          <6>1. c.in = <<FileHeader, FileBody(due)>>
            BY <3>1, <3>2, <5>2, Dues
          <6> QED BY <5>2, <6>1, Lists
        <5> QED BY <5>1, <5>2
      <4>2. g.pc = "payload" /\ g.cmd = "GetFile"
        BY <4>1, Parting
      <4> QED BY <2>2, <3>2, <4>1, <4>2 DEF Reading
    <3>3. CASE due \notin Files
      <4>0. c.in = <<TableAsk(due)>> /\ ~cut
        BY <1>2, <3>1, <3>3, Dues
      <4>1. /\ Head(c.in) = TableAsk(due) /\ d.in = << >> /\ ~cut
        BY <4>0, Lists
      <4>2. g.pc = "process" /\ g.cmd = CommandFor(due) /\ g.cmd # "GetFile"
        BY <3>1, <3>3, <4>1, Parting, Kinds
      <4>3. g.item = Wanted(due)
        BY <3>3, <4>2 DEF Wanted
      <4> QED BY <2>2, <3>1, <4>1, <4>2, <4>3 DEF Reading
    <3> QED BY <3>2, <3>3
  <2> QED BY <2>1, <2>2
<1>4. Writing(d, g, cl, ping, due)
  BY DEF Writing
<1>5. Asking(d, g, cl, ping, due, cut)
  BY <1>1 DEF Agreed, Asking, Sending, Waiting
<1>6. Counted(d, ping, due, cut)
  BY <1>1 DEF Agreed, Counted
<1> QED BY <1>1, <1>3, <1>4, <1>5, <1>6 DEF Sound, Agreed

(* A body is read: the name of the file. *)
LEMMA BodySound ==
  ASSUME NEW c, NEW d, NEW h, NEW g, NEW cl, Sound(c, h, cl),
         c.state = "served", d.state = "served", h.pc = "body", c.in # << >>,
         d.in = Tail(c.in), d.out = c.out, d.asked = c.asked, d.answered = c.answered,
         g.pc = "process", g.cmd = h.cmd, g.item = Head(c.in).item
  PROVE  Sound(d, g, cl)
<1>1. PICK ping \in BOOLEAN, due \in Items \cup {NoItem}, cut \in BOOLEAN :
        Agreed(c, h, cl, ping, due, cut)
  BY DEF Sound
<1>2. /\ ~ping /\ due \in Files /\ h.cmd = "GetFile" /\ ~cut
      /\ c.in = <<FileBody(due)>>
  <2>1. /\ ~ping /\ due \in Files /\ h.cmd = "GetFile"
        /\ c.in = IF cut THEN << >> ELSE <<FileBody(due)>>
    BY <1>1 DEF Agreed, Reading
  <2> QED BY <2>1
<1>3. d.in = << >> /\ g.item = due
  BY <1>2, Lists, Parting
<1>4. due # NoItem /\ due \in Items /\ CommandFor(due) = "GetFile" /\ Wanted(due) = due
  BY <1>2, Kinds DEF Items, Wanted
<1>5. Reading(d, g, ping, due, cut)
  BY <1>2, <1>3, <1>4 DEF Reading
<1>6. Writing(d, g, cl, ping, due)
  BY DEF Writing
<1>7. Asking(d, g, cl, ping, due, cut)
  BY <1>1 DEF Agreed, Asking, Sending, Waiting
<1>8. Counted(d, ping, due, cut)
  BY <1>1 DEF Agreed, Counted
<1> QED BY <1>1, <1>5, <1>6, <1>7, <1>8 DEF Sound, Agreed

(* A client that has a whole request out waits for its answer. *)
LEMMA DueWaits ==
  ASSUME NEW c, NEW h, NEW cl \in ClientTypes, NEW ping, NEW due, NEW cut,
         Asking(c, h, cl, ping, due, cut), cl.pc # "off", due # NoItem, ~cut
  PROVE  /\ cl.pc = "wait" /\ due = cl.item
         /\ \/ Behind(c.out) = << >>
            \/ Behind(c.out) = <<AnswerHeader(due)>> /\ h.pc \in {"write", "writing"} /\ Len(h.left) = 1
<1>1. cl.pc \in {"send", "drain", "wait", "connected"}
  BY DEF ClientTypes
<1>2. cl.pc \notin {"drain", "connected"}
  BY DEF Asking
<1>3. cl.pc # "send"
  BY DEF Asking, Sending
<1>4. cl.pc = "wait"
  BY <1>1, <1>2, <1>3
<1>5. Waiting(c, h, cl, due, cut)
  BY <1>4 DEF Asking
<1> QED BY <1>4, <1>5 DEF Waiting

(* The answers the server has for what is due. *)
LEMMA Responses ==
  ASSUME NEW due \in Items
  PROVE  \E body \in Given(due) :
           Response(CommandFor(due), Wanted(due)) \in
             {<<AnswerBody(due, body)>>, <<AnswerHeader(due), AnswerBody(due, body)>>}
<1> DEFINE Fit(used) == IF Size[due] + used > 131072 THEN Short ELSE due
<1>1. CASE due \in Files
  <2>1. CommandFor(due) = "GetFile" /\ Wanted(due) = due
    BY <1>1, Kinds DEF Wanted
  <2>2. Fit(24) \in Given(due) /\ PushString(due, 24) = Fit(24)
    BY <1>1 DEF Given, PushString
  <2> HIDE DEF Fit
  <2>3. Response(CommandFor(due), Wanted(due)) = Message(CommandFor(due), Fit(24), TRUE)
    BY <2>1, <2>2 DEF Response
  <2>4. Message(CommandFor(due), Fit(24), TRUE) = <<AnswerHeader(due), AnswerBody(due, Fit(24))>>
    BY Messages DEF AnswerHeader, AnswerBody
  <2> QED BY <2>2, <2>3, <2>4
<1>2. CASE due \notin Files
  <2>1. Fit(16) \in Given(due) /\ PushString(due, 16) = Fit(16)
    BY <1>2 DEF Given, PushString
  <2> HIDE DEF Fit
  <2>2. due \in {FileTable, StringTable}
    BY <1>2, Kinds
  <2>3. Response(CommandFor(due), Wanted(due)) = Message(CommandFor(due), Fit(16), Fit(16) # Short)
    <3>1. CASE due = FileTable
      <4>1. CommandFor(due) = "GetFileTable"
        BY <3>1, RemoteModuleAssumption DEF CommandFor
      <4> QED BY <2>1, <3>1, <4>1 DEF Response
    <3>2. CASE due = StringTable
      <4>1. CommandFor(due) = "GetStringTable"
        BY <3>2, RemoteModuleAssumption DEF CommandFor
      <4> QED BY <2>1, <3>2, <4>1 DEF Response
    <3> QED BY <2>2, <3>1, <3>2
  <2>4. CASE Fit(16) = Short
    <3>1. (Fit(16) # Short) = FALSE
      BY <2>4
    <3>2. Response(CommandFor(due), Wanted(due)) = <<AnswerBody(due, Fit(16))>>
      BY <2>3, <3>1, Messages DEF AnswerBody
    <3> QED BY <2>1, <3>2
  <2>5. CASE Fit(16) # Short
    <3>1. (Fit(16) # Short) = TRUE
      BY <2>5
    <3>2. Response(CommandFor(due), Wanted(due)) = <<AnswerHeader(due), AnswerBody(due, Fit(16))>>
      BY <2>3, <3>1, Messages DEF AnswerHeader, AnswerBody
    <3> QED BY <2>1, <3>2
  <2> QED BY <2>4, <2>5
<1> QED BY <1>1, <1>2

LEMMA ResponseSound ==
  ASSUME NEW c, NEW h, NEW g, NEW cl \in ClientTypes, Sound(c, h, cl),
         c.state = "served", h.pc = "process", g.pc = "write", g.cmd = h.cmd, g.item = h.item,
         \/ g.left = Response(h.cmd, h.item)
         \/ h.cmd = "GetFile" /\ g.left = Message(h.cmd, Failed, TRUE)
  PROVE  Sound(c, g, cl)
<1>1. PICK ping \in BOOLEAN, due \in Items \cup {NoItem}, cut \in BOOLEAN :
        Agreed(c, h, cl, ping, due, cut)
  BY DEF Sound
<1>2. Reading(c, g, ping, due, cut)
  BY <1>1 DEF Agreed, Reading
<1>3. Writing(c, g, cl, ping, due)
  <2>1. CASE ping
    <3>1. h.cmd = "Ping"
      BY <1>1, <2>1 DEF Agreed, Reading
    <3>2. g.left = Message("Pong", NoItem, FALSE)
      BY <3>1 DEF Response
    <3>3. g.left = <<PongPart>>
      BY <3>2, Messages DEF PongPart
    <3> QED BY <2>1, <3>3 DEF Writing
  <2>2. CASE ~ping
    <3>1. due \in Items /\ due # NoItem /\ ~cut /\ h.cmd = CommandFor(due) /\ h.item = Wanted(due)
      BY <1>1, <2>2 DEF Agreed, Reading
    <3>2. cl.pc # "off" => Behind(c.out) = << >>
      <4>1. Asking(c, h, cl, ping, due, cut)
        BY <1>1 DEF Agreed
      <4>2. ASSUME cl.pc # "off"
            PROVE  \/ Behind(c.out) = << >>
                   \/ Behind(c.out) = <<AnswerHeader(due)>> /\ h.pc \in {"write", "writing"} /\ Len(h.left) = 1
        <5>1. due # NoItem /\ ~cut
          BY <3>1
        <5> QED BY <4>1, <4>2, <5>1, DueWaits
      <4>3. h.pc \notin {"write", "writing"}
        OBVIOUS
      <4> QED BY <4>2, <4>3
    <3>3. PICK body \in Given(due) :
            g.left \in {<<AnswerBody(due, body)>>, <<AnswerHeader(due), AnswerBody(due, body)>>}
      <4>1. CASE g.left = Response(h.cmd, h.item)
        BY <3>1, <4>1, Responses
      <4>2. CASE h.cmd = "GetFile" /\ g.left = Message(h.cmd, Failed, TRUE)
        <5>1. due \in Files
          BY <3>1, <4>2, Kinds
        <5>2. Failed \in Given(due)
          BY <5>1 DEF Given
        <5>3. g.left = <<AnswerHeader(due), AnswerBody(due, Failed)>>
          BY <3>1, <4>2, Messages DEF AnswerHeader, AnswerBody
        <5> QED BY <5>2, <5>3
      <4> QED BY <4>1, <4>2
    <3> QED BY <2>2, <3>2, <3>3 DEF Writing
  <2> QED BY <2>1, <2>2
<1>4. Asking(c, g, cl, ping, due, cut)
  BY <1>1 DEF Agreed, Asking, Waiting
<1> QED BY <1>1, <1>2, <1>3, <1>4 DEF Sound, Agreed

(* The stream to the client grows behind the Pong. *)
LEMMA BehindGrows ==
  ASSUME NEW out \in Seq(Parts), NEW p \in Parts, p # PongPart
  PROVE  Behind(Append(out, p)) = Append(Behind(out), p)
<1>1. CASE out = << >>
  <2>1. Append(out, p) = <<p>> /\ Behind(out) = << >>
    BY <1>1, Lists DEF Behind
  <2>2. Behind(<<p>>) = <<p>>
    BY Lists DEF Behind
  <2> QED BY <1>1, <2>1, <2>2
<1>2. CASE out # << >>
  <2>1. /\ Append(out, p) # << >>
        /\ Head(Append(out, p)) = Head(out)
        /\ Tail(Append(out, p)) = Append(Tail(out), p)
    BY <1>2, Grown
  <2> QED BY <1>2, <2>1 DEF Behind
<1> QED BY <1>1, <1>2

LEMMA BehindPong == Behind(<< >>) = << >> /\ Behind(<<PongPart>>) = << >>
BY Lists DEF Behind

(* One more request is answered. *)
LEMMA OneMore ==
  ASSUME NEW S, NEW s \in Seq(S), NEW u \in Seq(S), NEW e \in S,
         \A i \in 1 .. Len(s) : s[i] = u[i], u[Len(s) + 1] = e
  PROVE  /\ Len(Append(s, e)) = Len(s) + 1
         /\ \A i \in 1 .. Len(Append(s, e)) : Append(s, e)[i] = u[i]
<1> DEFINE w == Append(s, e)
<1>1. /\ Len(w) = Len(s) + 1
      /\ \A i \in 1 .. Len(s) : w[i] = s[i]
      /\ w[Len(s) + 1] = e
  BY AppendProperties
<1>2. Len(s) \in Nat
  OBVIOUS
<1> HIDE DEF w
<1>3. \A i \in 1 .. Len(w) : w[i] = u[i]
  <2> SUFFICES ASSUME NEW i \in 1 .. Len(w) PROVE w[i] = u[i]
    OBVIOUS
  <2>1. CASE i = Len(s) + 1
    BY <1>1, <2>1
  <2>2. CASE i # Len(s) + 1
    <3>1. i \in 1 .. Len(s)
      BY <1>1, <1>2, <2>2
    <3> QED BY <1>1, <3>1
  <2> QED BY <2>1, <2>2
<1> QED BY <1>1, <1>3 DEF w

LEMMA CountedAnswers ==
  ASSUME NEW c \in ConnTypes, NEW ping, NEW due, NEW cut, Counted(c, ping, due, cut)
  PROVE  Answered(c)
<1>1. c.answered \in Seq(Asks) /\ c.asked \in Seq(Asks)
  BY DEF ConnTypes
<1>2. /\ Len(c.answered) \in Nat /\ Len(c.asked) \in Nat
      /\ DOMAIN c.answered = 1 .. Len(c.answered)
  BY <1>1
<1>3. Len(c.answered) <= Len(c.asked)
  <2> DEFINE a == IF ping THEN 1 ELSE 0
             b == IF due = NoItem \/ cut THEN 0 ELSE 1
  <2>1. a \in Nat /\ b \in Nat
    OBVIOUS
  <2>2. Len(c.asked) = Len(c.answered) + a + b
    BY DEF Counted
  <2> HIDE DEF a, b
  <2> QED BY <1>2, <2>1, <2>2
<1> QED BY <1>2, <1>3 DEF Counted, Answered

LEMMA AskTypes ==
  /\ PingAsk \in Asks
  /\ \A item \in Items : AskFor(item) \in Asks
<1>1. PingAsk \in Asks
  BY DEF PingAsk, Asks, Commands, Contents
<1>2. ASSUME NEW item \in Items PROVE AskFor(item) \in Asks
  <2>1. CommandFor(item) \in Commands
    BY Kinds DEF Commands
  <2>2. Wanted(item) \in Contents
    BY DEF Wanted, Contents
  <2> QED BY <2>1, <2>2 DEF AskFor, Asks
<1> QED BY <1>1, <1>2

(* What is answered next is the Ping, or what is due. *)
LEMMA PingCounted ==
  ASSUME NEW c \in ConnTypes, NEW d, NEW due, NEW cut, Counted(c, TRUE, due, cut),
         d.asked = c.asked, d.answered = Append(c.answered, PingAsk)
  PROVE  Counted(d, FALSE, due, cut)
<1>1. c.answered \in Seq(Asks) /\ c.asked \in Seq(Asks) /\ PingAsk \in Asks
  BY AskTypes DEF ConnTypes
<1>2. /\ \A i \in 1 .. Len(c.answered) : c.answered[i] = c.asked[i]
      /\ c.asked[Len(c.answered) + 1] = PingAsk
      /\ Len(c.asked) = Len(c.answered) + 1 + (IF due = NoItem \/ cut THEN 0 ELSE 1)
      /\ due # NoItem /\ ~cut => c.asked[Len(c.answered) + 1 + 1] = AskFor(due)
  BY DEF Counted
<1>3. /\ Len(d.answered) = Len(c.answered) + 1
      /\ \A i \in 1 .. Len(d.answered) : d.answered[i] = c.asked[i]
  BY <1>1, <1>2, OneMore
<1>4. Len(c.answered) \in Nat
  BY <1>1
<1>5. Len(d.asked) = Len(d.answered) + 0 + (IF due = NoItem \/ cut THEN 0 ELSE 1)
  <2> DEFINE b == IF due = NoItem \/ cut THEN 0 ELSE 1
  <2>1. b \in Nat
    OBVIOUS
  <2> HIDE DEF b
  <2>2. Len(d.asked) = Len(c.answered) + 1 + b
    BY <1>2 DEF b
  <2>3. Len(d.asked) = Len(d.answered) + 0 + b
    BY <1>3, <1>4, <2>1, <2>2
  <2> QED BY <2>3 DEF b
<1>6. due # NoItem /\ ~cut => d.asked[Len(d.answered) + 0 + 1] = AskFor(due)
  BY <1>2, <1>3, <1>4
<1> QED BY <1>3, <1>5, <1>6 DEF Counted

LEMMA DueCounted ==
  ASSUME NEW c \in ConnTypes, NEW d, NEW ping \in BOOLEAN, NEW due \in Items, NEW cut \in BOOLEAN,
         Counted(c, ping, due, cut), ~ping, ~cut, d.asked = c.asked, d.answered = Append(c.answered, AskFor(due))
  PROVE  Counted(d, FALSE, NoItem, FALSE)
<1>1. c.answered \in Seq(Asks) /\ c.asked \in Seq(Asks) /\ AskFor(due) \in Asks
  BY AskTypes DEF ConnTypes
<1>2. due # NoItem /\ Len(c.answered) \in Nat
  BY <1>1, Kinds
<1>3. /\ \A i \in 1 .. Len(c.answered) : c.answered[i] = c.asked[i]
      /\ Len(c.asked) = Len(c.answered) + 1
      /\ c.asked[Len(c.answered) + 1] = AskFor(due)
  <2>1. Len(c.answered) + (IF ping THEN 1 ELSE 0) = Len(c.answered)
    BY <1>2
  <2>2. (IF due = NoItem \/ cut THEN 0 ELSE 1) = 1
    BY <1>2
  <2> QED BY <2>1, <2>2, <1>2 DEF Counted
<1>4. /\ Len(d.answered) = Len(c.answered) + 1
      /\ \A i \in 1 .. Len(d.answered) : d.answered[i] = c.asked[i]
  BY <1>1, <1>3, OneMore
<1> QED BY <1>2, <1>3, <1>4 DEF Counted

(* After a part is written the three still agree, and the client finds      *)
(* nothing but what it may expect.                                          *)
Fits(d, g, cl) == Sound(d, g, cl) /\ Answered(d) /\ (cl.pc # "off" => Leftover(d, cl))

LEMMA PongFits ==
  ASSUME NEW c \in ConnTypes, NEW d \in ConnTypes, NEW h, NEW g, NEW cl,
         NEW due \in Items \cup {NoItem}, NEW cut \in BOOLEAN, Agreed(c, h, cl, TRUE, due, cut),
         c.state = "served", d.state = "served", h.pc \in {"write", "writing"}, g.pc = "ready",
         d.in = c.in, d.asked = c.asked, d.out \in {c.out, Append(c.out, PongPart)},
         d.answered = Append(c.answered, PingAsk)
  PROVE  Fits(d, g, cl)
<1>1. Counted(d, FALSE, due, cut)
  BY PingCounted DEF Agreed
<1>2. Reading(d, g, FALSE, due, cut)
  BY DEF Agreed, Reading, Streamed
<1>3. Writing(d, g, cl, FALSE, due)
  BY DEF Writing
<1>4. cl.pc # "off" => Behind(d.out) = << >> /\ Behind(c.out) = << >>
  <2> SUFFICES ASSUME cl.pc # "off" PROVE Behind(d.out) = << >> /\ Behind(c.out) = << >>
    OBVIOUS
  <2>1. c.out = << >>
    BY DEF Agreed, Asking
  <2>2. d.out \in {<< >>, <<PongPart>>}
    BY <2>1, Lists
  <2> QED BY <2>1, <2>2, BehindPong
<1>5. Asking(d, g, cl, FALSE, due, cut)
  <2>1. cl.pc = "send" => Sending(d, cl, FALSE, due, cut)
    BY DEF Agreed, Asking, Sending
  <2>2. cl.pc \in {"drain", "connected"} => due = NoItem
    BY DEF Agreed, Asking
  <2>3. cl.pc = "wait" /\ due # NoItem => Waiting(d, g, cl, due, cut)
    BY <1>4 DEF Agreed, Asking, Waiting
  <2> QED BY <2>1, <2>2, <2>3 DEF Asking
<1>6. Sound(d, g, cl)
  BY <1>1, <1>2, <1>3, <1>5 DEF Agreed, Sound
<1>7. Answered(d)
  BY <1>1, CountedAnswers
<1>8. cl.pc # "off" => Leftover(d, cl)
  BY <1>4 DEF Leftover, Coming
<1> QED BY <1>6, <1>7, <1>8 DEF Fits

LEMMA LastFits ==
  ASSUME NEW c \in ConnTypes, NEW d \in ConnTypes, NEW h, NEW g, NEW cl \in ClientTypes,
         NEW ping \in BOOLEAN, NEW due \in Items, NEW cut \in BOOLEAN, NEW body \in Given(due),
         Agreed(c, h, cl, ping, due, cut), ~ping, ~cut,
         c.state = "served", d.state = "served", h.pc \in {"write", "writing"}, g.pc = "ready",
         AnswerBody(due, body) \in Parts, c.in = << >>,
         d.in = c.in, d.asked = c.asked, d.out \in {c.out, Append(c.out, AnswerBody(due, body))},
         d.answered = Append(c.answered, AskFor(due))
  PROVE  Fits(d, g, cl)
<1>0. due # NoItem /\ AnswerBody(due, body) # PongPart
  <2>1. AnswerBody(due, body).cmd = CommandFor(due) /\ PongPart.cmd = "Pong"
    BY Parting
  <2>2. CommandFor(due) # "Pong"
    BY Kinds
  <2> QED BY <2>1, <2>2, Kinds
<1>1. Counted(d, FALSE, NoItem, FALSE)
  BY DueCounted DEF Agreed
<1>2. Reading(d, g, FALSE, NoItem, FALSE)
  BY DEF Reading, Streamed, Due
<1>3. Writing(d, g, cl, FALSE, NoItem)
  BY DEF Writing
<1>4. ASSUME cl.pc # "off"
      PROVE  /\ cl.pc = "wait" /\ cl.item = due
             /\ Behind(d.out) \in {<< >>, <<AnswerHeader(due)>>, <<AnswerBody(due, body)>>,
                                   <<AnswerHeader(due), AnswerBody(due, body)>>}
  <2>1. Asking(c, h, cl, ping, due, cut)
    BY DEF Agreed
  <2>2. cl.pc = "wait" /\ cl.item = due /\ Behind(c.out) \in {<< >>, <<AnswerHeader(due)>>}
    <3>1. cl.pc \in {"send", "drain", "wait", "connected"}
      BY <1>4 DEF ClientTypes
    <3>2. cl.pc \notin {"drain", "connected"}
      BY <1>0, <2>1 DEF Asking
    <3>3. cl.pc # "send"
      BY <1>0, <2>1 DEF Asking, Sending
    <3>4. cl.pc = "wait"
      BY <3>1, <3>2, <3>3
    <3>5. Waiting(c, h, cl, due, cut)
      BY <1>0, <2>1, <3>4 DEF Asking
    <3> QED BY <3>4, <3>5 DEF Waiting
  <2>3. CASE d.out = c.out
    BY <2>2, <2>3
  <2>4. CASE d.out = Append(c.out, AnswerBody(due, body))
    <3>1. c.out \in Seq(Parts)
      BY DEF ConnTypes
    <3>2. Behind(d.out) = Append(Behind(c.out), AnswerBody(due, body))
      BY <1>0, <2>4, <3>1, BehindGrows
    <3>3. CASE Behind(c.out) = << >>
      BY <2>2, <3>2, <3>3, Lists
    <3>4. CASE Behind(c.out) = <<AnswerHeader(due)>>
      BY <2>2, <3>2, <3>4, ListOfTwo
    <3> QED BY <2>2, <3>3, <3>4
  <2> QED BY <2>2, <2>3, <2>4
<1>5. Asking(d, g, cl, FALSE, NoItem, FALSE)
  <2>1. cl.pc # "send"
    BY <1>4
  <2> QED BY <2>1 DEF Asking
<1>6. Sound(d, g, cl)
  BY <1>1, <1>2, <1>3, <1>5 DEF Agreed, Sound
<1>7. Answered(d)
  BY <1>1, CountedAnswers
<1>8. cl.pc # "off" => Leftover(d, cl)
  <2>1. ASSUME cl.pc # "off" PROVE Coming(cl.item, Behind(d.out))
    BY <1>4, <2>1 DEF Coming
  <2> QED BY <1>4, <2>1 DEF Leftover
<1> QED BY <1>6, <1>7, <1>8 DEF Fits

LEMMA FirstFits ==
  ASSUME NEW c \in ConnTypes, NEW d \in ConnTypes, NEW h, NEW g, NEW cl \in ClientTypes,
         NEW ping \in BOOLEAN, NEW due \in Items, NEW cut \in BOOLEAN, NEW body \in Given(due),
         Agreed(c, h, cl, ping, due, cut), ~ping, ~cut,
         c.state = "served", d.state = "served", h.pc \in {"write", "writing"}, g.pc = "write",
         g.cmd = h.cmd, g.item = h.item, AnswerHeader(due) \in Parts,
         cl.pc # "off" => Behind(c.out) = << >>, g.left = <<AnswerBody(due, body)>>,
         d.in = c.in, d.asked = c.asked, d.out \in {c.out, Append(c.out, AnswerHeader(due))},
         d.answered = c.answered
  PROVE  Fits(d, g, cl)
<1>0. due # NoItem /\ AnswerHeader(due) # PongPart
  <2>1. AnswerHeader(due).cmd = CommandFor(due) /\ PongPart.cmd = "Pong"
    BY Parting
  <2>2. CommandFor(due) # "Pong"
    BY Kinds
  <2> QED BY <2>1, <2>2, Kinds
<1>1. Counted(d, ping, due, cut)
  BY DEF Agreed, Counted
<1>2. Reading(d, g, ping, due, cut)
  BY DEF Agreed, Reading
<1>3. Writing(d, g, cl, ping, due)
  BY DEF Writing
<1>4. ASSUME cl.pc # "off"
      PROVE  /\ cl.pc = "wait" /\ cl.item = due
             /\ Behind(d.out) \in {<< >>, <<AnswerHeader(due)>>}
  <2>1. Asking(c, h, cl, ping, due, cut)
    BY DEF Agreed
  <2>2. cl.pc = "wait" /\ due = cl.item
    BY <1>0, <1>4, <2>1, DueWaits
  <2>5. Behind(c.out) = << >>
    BY <1>4
  <2>3. CASE d.out = c.out
    BY <2>2, <2>3, <2>5
  <2>4. CASE d.out = Append(c.out, AnswerHeader(due))
    <3>1. c.out \in Seq(Parts)
      BY DEF ConnTypes
    <3>2. Behind(d.out) = Append(Behind(c.out), AnswerHeader(due))
      BY <1>0, <2>4, <3>1, BehindGrows
    <3> QED BY <2>2, <2>5, <3>2, Lists
  <2> QED BY <2>2, <2>3, <2>4
<1>5. Asking(d, g, cl, ping, due, cut)
  <2>1. cl.pc \notin {"send", "drain", "connected"}
    BY <1>4
  <2>2. cl.pc = "wait" => Waiting(d, g, cl, due, cut)
    <3>1. Len(g.left) = 1
      BY Lists
    <3> QED BY <1>4, <3>1 DEF Waiting
  <2> QED BY <2>1, <2>2 DEF Asking
<1>6. Sound(d, g, cl)
  BY <1>1, <1>2, <1>3, <1>5 DEF Agreed, Sound
<1>7. Answered(d)
  BY <1>1, CountedAnswers
<1>8. cl.pc # "off" => Leftover(d, cl)
  <2>1. ASSUME cl.pc # "off" PROVE Coming(cl.item, Behind(d.out))
    BY <1>4, <2>1 DEF Coming
  <2> QED BY <1>4, <2>1 DEF Leftover
<1> QED BY <1>6, <1>7, <1>8 DEF Fits

LEMMA WriteFits ==
  ASSUME NEW c \in ConnTypes, NEW d \in ConnTypes, NEW h \in ThreadTypes, NEW g, NEW cl \in ClientTypes,
         Sound(c, h, cl), c.state = "served", d.state = "served", h.pc \in {"write", "writing"}, h.left # << >>,
         d.in = c.in, d.asked = c.asked, d.out \in {c.out, Append(c.out, Head(h.left))},
         Len(h.left) = 1 =>
           /\ d.answered = Append(c.answered, [cmd |-> h.cmd, item |-> h.item])
           /\ g.pc = "ready",
         Len(h.left) # 1 =>
           /\ d.answered = c.answered /\ g.pc = "write" /\ g.cmd = h.cmd /\ g.item = h.item
           /\ g.left = Tail(h.left)
  PROVE  Fits(d, g, cl)
<1>1. PICK ping \in BOOLEAN, due \in Items \cup {NoItem}, cut \in BOOLEAN :
        Agreed(c, h, cl, ping, due, cut)
  BY DEF Sound
<1>2. Head(h.left) \in Parts
  <2>1. h.left \in Seq(Parts)
    BY DEF ThreadTypes
  <2> QED BY <2>1, MessageRest
<1>3. CASE ping
  <2>1. Agreed(c, h, cl, TRUE, due, cut)
    BY <1>1, <1>3
  <2>2. h.left = <<PongPart>> /\ h.cmd = "Ping" /\ h.item = NoItem
    BY <1>1, <1>3 DEF Agreed, Writing, Reading
  <2>3. Head(h.left) = PongPart /\ Len(h.left) = 1
    BY <2>2, Lists
  <2>4. d.answered = Append(c.answered, PingAsk)
    BY <2>2, <2>3 DEF PingAsk
  <2> QED BY <2>1, <2>3, <2>4, PongFits
<1>4. CASE ~ping
  <2>1. due \in Items /\ due # NoItem /\ ~cut
    BY <1>1, <1>4 DEF Agreed, Reading
  <2>2. c.in = << >> /\ h.cmd = CommandFor(due) /\ h.item = Wanted(due)
    BY <1>1, <1>4 DEF Agreed, Reading
  <2>3. PICK body \in Given(due) :
          \/ h.left = <<AnswerBody(due, body)>>
          \/ /\ h.left = <<AnswerHeader(due), AnswerBody(due, body)>>
             /\ cl.pc # "off" => Behind(c.out) = << >>
    BY <1>1, <1>4 DEF Agreed, Writing
  <2>4. CASE h.left = <<AnswerBody(due, body)>>
    <3>1. Head(h.left) = AnswerBody(due, body) /\ Len(h.left) = 1
      BY <2>4, Lists
    <3>2. d.answered = Append(c.answered, AskFor(due))
      BY <2>2, <3>1 DEF AskFor
    <3>3. d.out \in {c.out, Append(c.out, AnswerBody(due, body))} /\ AnswerBody(due, body) \in Parts
      BY <1>2, <3>1
    <3>4. g.pc = "ready"
      BY <3>1
    <3> QED BY <1>1, <1>4, <2>1, <2>2, <3>2, <3>3, <3>4, LastFits
  <2>5. CASE /\ h.left = <<AnswerHeader(due), AnswerBody(due, body)>>
             /\ cl.pc # "off" => Behind(c.out) = << >>
    <3>1. /\ Head(h.left) = AnswerHeader(due) /\ Len(h.left) # 1
          /\ Tail(h.left) = <<AnswerBody(due, body)>>
      BY <2>5, Lists
    <3>2. d.out \in {c.out, Append(c.out, AnswerHeader(due))} /\ AnswerHeader(due) \in Parts
      BY <1>2, <3>1
    <3>3. /\ d.answered = c.answered /\ g.pc = "write" /\ g.cmd = h.cmd /\ g.item = h.item
          /\ g.left = <<AnswerBody(due, body)>>
      BY <3>1
    <3>4. cl.pc # "off" => Behind(c.out) = << >>
      BY <2>5
    <3> QED BY <1>1, <1>4, <2>1, <3>2, <3>3, <3>4, FirstFits
  <2> QED BY <2>3, <2>4, <2>5
<1> QED BY <1>3, <1>4

-----------------------------------------------------------------------------
(* What each step of the client makes of it. *)
LEMMA StreamGrows ==
  ASSUME NEW in \in Seq(Parts), NEW rest, NEW p \in Parts, NEW ping \in BOOLEAN,
         Streamed(in, ping, rest)
  PROVE  Streamed(Append(in, p), ping, Append(rest, p))
<1>1. CASE ping
  <2>1. in # << >> /\ Head(in) = PingPart /\ Tail(in) = rest
    BY <1>1 DEF Streamed
  <2>2. /\ Append(in, p) # << >>
        /\ Head(Append(in, p)) = Head(in)
        /\ Tail(Append(in, p)) = Append(Tail(in), p)
    BY <2>1, Grown
  <2> QED BY <1>1, <2>1, <2>2 DEF Streamed
<1>2. CASE ~ping
  BY <1>2 DEF Streamed
<1> QED BY <1>1, <1>2

(* The first part of a request is written. *)
LEMMA ReadingStarts ==
  ASSUME NEW c \in ConnTypes, NEW d, NEW h, NEW p \in Parts, NEW ping \in BOOLEAN,
         NEW cut \in BOOLEAN, NEW next, NEW cut2 \in BOOLEAN,
         Reading(c, h, ping, NoItem, cut), d.state = c.state, d.in = Append(c.in, p),
         Due(next, cut2) = <<p>>
  PROVE  Reading(d, h, ping, next, cut2)
<1>0. c.in \in Seq(Parts) /\ NoItem \notin Files /\ Due(NoItem, cut) = << >>
  BY RemoteModuleAssumption DEF ConnTypes, Items, Due
<1>1. CASE /\ c.state = "queued" \/ h.pc \in {"ready", "reading", "header"}
           /\ Streamed(c.in, ping, Due(NoItem, cut))
  <2>1. Streamed(d.in, ping, Append(<< >>, p))
    BY <1>0, <1>1, StreamGrows
  <2>2. Streamed(d.in, ping, Due(next, cut2))
    BY <2>1, Lists
  <2> QED BY <1>1, <2>2 DEF Reading
<1>2. CASE /\ c.state = "served" /\ h.pc \in {"process", "write", "writing"}
           /\ ping /\ h.cmd = "Ping" /\ h.item = NoItem
           /\ c.in = Due(NoItem, cut)
  <2>1. d.in = Due(next, cut2)
    BY <1>0, <1>2, Lists
  <2> QED BY <1>2, <2>1 DEF Reading
<1> QED BY <1>0, <1>1, <1>2 DEF Reading

(* The rest of a request follows its header. *)
LEMMA ReadingEnds ==
  ASSUME NEW c \in ConnTypes, NEW d, NEW h, NEW ping \in BOOLEAN, NEW due \in Files,
         Reading(c, h, ping, due, TRUE), d.state = c.state, FileBody(due) \in Parts,
         d.in = Append(c.in, FileBody(due))
  PROVE  Reading(d, h, ping, due, FALSE)
<1>0. c.in \in Seq(Parts) /\ due \in Items
  BY DEF ConnTypes, Items
<1>1. Due(due, TRUE) = <<FileHeader>> /\ Due(due, FALSE) = <<FileHeader, FileBody(due)>>
  BY <1>0, Dues
<1>2. CASE /\ c.state = "queued" \/ h.pc \in {"ready", "reading", "header"}
           /\ Streamed(c.in, ping, Due(due, TRUE))
  <2>1. Streamed(d.in, ping, Append(<<FileHeader>>, FileBody(due)))
    BY <1>0, <1>1, <1>2, StreamGrows
  <2>2. Streamed(d.in, ping, Due(due, FALSE))
    BY <1>1, <2>1, ListOfTwo
  <2> QED BY <1>2, <2>2 DEF Reading
<1>3. CASE /\ c.state = "served" /\ h.pc \in {"payload", "body"}
           /\ ~ping /\ h.cmd = "GetFile" /\ c.in = << >>
  <2>1. d.in = <<FileBody(due)>>
    BY <1>3, Lists
  <2> QED BY <1>3, <2>1 DEF Reading
<1>4. CASE /\ c.state = "served" /\ h.pc \in {"process", "write", "writing"}
           /\ ping /\ h.cmd = "Ping" /\ h.item = NoItem
           /\ c.in = Due(due, TRUE)
  <2>1. d.in = Due(due, FALSE)
    BY <1>1, <1>4, ListOfTwo
  <2> QED BY <1>4, <2>1 DEF Reading
<1> QED BY <1>2, <1>3, <1>4 DEF Reading

(* One more request is made. *)
LEMMA AskedMore ==
  ASSUME NEW S, NEW s \in Seq(S), NEW e \in S
  PROVE  /\ Len(Append(s, e)) = Len(s) + 1
         /\ \A i \in 1 .. Len(s) : Append(s, e)[i] = s[i]
         /\ Append(s, e)[Len(s) + 1] = e
BY AppendProperties

LEMMA DueAsked ==
  ASSUME NEW c \in ConnTypes, NEW d, NEW ping \in BOOLEAN, NEW next \in Items,
         Counted(c, ping, NoItem, FALSE),
         d.answered = c.answered, d.asked = Append(c.asked, AskFor(next))
  PROVE  Counted(d, ping, next, FALSE)
<1> DEFINE a == IF ping THEN 1 ELSE 0
           n == Len(c.answered)
<1>1. c.answered \in Seq(Asks) /\ c.asked \in Seq(Asks) /\ AskFor(next) \in Asks
  BY AskTypes DEF ConnTypes
<1>2. n \in Nat /\ a \in Nat /\ (ping => a = 1)
  BY <1>1
<1>3. /\ Len(c.asked) = n + a
      /\ \A i \in 1 .. n : c.answered[i] = c.asked[i]
      /\ ping => c.asked[n + a] = PingAsk
  <2>1. (IF NoItem = NoItem \/ FALSE THEN 0 ELSE 1) = 0
    OBVIOUS
  <2>2. n + a + 0 = n + a
    BY <1>2
  <2> QED BY <2>1, <2>2 DEF Counted
<1>4. /\ Len(d.asked) = n + a + 1
      /\ \A i \in 1 .. n + a : d.asked[i] = c.asked[i]
      /\ d.asked[n + a + 1] = AskFor(next)
  <2>1. /\ Len(d.asked) = Len(c.asked) + 1
        /\ \A i \in 1 .. Len(c.asked) : d.asked[i] = c.asked[i]
        /\ d.asked[Len(c.asked) + 1] = AskFor(next)
    BY <1>1, AskedMore
  <2>2. Len(c.asked) = n + a
    BY <1>3
  <2> HIDE DEF a, n
  <2> QED BY <2>1, <2>2
<1> HIDE DEF a, n
<1>5. \A i \in 1 .. n : c.answered[i] = d.asked[i]
  <2> SUFFICES ASSUME NEW i \in 1 .. n PROVE c.answered[i] = d.asked[i]
    OBVIOUS
  <2>1. i \in 1 .. n + a
    BY <1>2
  <2> QED BY <1>3, <1>4, <2>1
<1>6. ping => d.asked[n + a] = PingAsk
  <2> SUFFICES ASSUME ping PROVE d.asked[n + a] = PingAsk
    OBVIOUS
  <2>1. n + a \in 1 .. n + a
    BY <1>2
  <2> QED BY <1>3, <1>4, <2>1
<1>7. next # NoItem /\ (IF next = NoItem \/ FALSE THEN 0 ELSE 1) = 1
  BY Kinds
<1>8. Len(d.asked) = Len(d.answered) + (IF ping THEN 1 ELSE 0)
                     + (IF next = NoItem \/ FALSE THEN 0 ELSE 1)
  BY <1>4, <1>7 DEF a, n
<1>9. \A i \in 1 .. Len(d.answered) : d.answered[i] = d.asked[i]
  BY <1>5 DEF n
<1>10. ping => d.asked[Len(d.answered) + (IF ping THEN 1 ELSE 0)] = PingAsk
  BY <1>6 DEF a, n
<1>11. d.asked[Len(d.answered) + (IF ping THEN 1 ELSE 0) + 1] = AskFor(next)
  BY <1>4 DEF a, n
<1> QED BY <1>8, <1>9, <1>10, <1>11 DEF Counted

LEMMA PingAsked ==
  ASSUME NEW c \in ConnTypes, NEW d, NEW ping \in BOOLEAN, NEW cut \in BOOLEAN,
         Counted(c, ping, NoItem, cut), ~ping, c.asked = << >>,
         d.answered = c.answered, d.asked = Append(c.asked, PingAsk)
  PROVE  Counted(d, TRUE, NoItem, FALSE)
<1>1. c.answered \in Seq(Asks) /\ Len(c.answered) \in Nat
  BY DEF ConnTypes
<1>2. Len(c.asked) = Len(c.answered) + 0 + 0
  <2>1. (IF ping THEN 1 ELSE 0) = 0 /\ (IF NoItem = NoItem \/ cut THEN 0 ELSE 1) = 0
    OBVIOUS
  <2> QED BY <2>1 DEF Counted
<1>3. Len(c.answered) = 0
  BY <1>1, <1>2
<1>4. d.asked = <<PingAsk>> /\ Len(d.asked) = 1 /\ d.asked[1] = PingAsk
  BY Lists
<1> QED BY <1>3, <1>4 DEF Counted

(* The client has written a part. *)
LEMMA SentSound ==
  ASSUME NEW c \in ConnTypes, NEW d, NEW h, NEW cl \in ClientTypes, NEW cm,
         Sound(c, h, cl), cl.pc = "send", cl.left # << >>, Behind(c.out) = << >>,
         d.state = c.state, d.in = Append(c.in, Head(cl.left)),
         d.out = c.out, d.answered = c.answered,
         Len(cl.left) = 1 =>
           d.asked = Append(c.asked, [cmd |-> Head(cl.left).cmd, item |-> Head(cl.left).item]),
         Len(cl.left) # 1 => d.asked = c.asked,
         cm.item = cl.item, cm.left = Tail(cl.left),
         cm.pc = IF Len(cl.left) # 1 THEN "send" ELSE IF cl.item = NoItem THEN "drain" ELSE "wait"
  PROVE  Sound(d, h, cm)
<1>1. PICK ping \in BOOLEAN, due \in Items \cup {NoItem}, cut \in BOOLEAN :
        Agreed(c, h, cl, ping, due, cut)
  BY DEF Sound
<1>2. /\ Reading(c, h, ping, due, cut) /\ Counted(c, ping, due, cut)
      /\ Writing(c, h, cl, ping, due) /\ Sending(c, cl, ping, due, cut)
      /\ ping => c.out = << >>
      /\ cut => due \in Files
  BY <1>1 DEF Agreed, Asking
<1>3. Head(cl.left) \in Parts /\ c.in \in Seq(Parts) /\ c.asked \in Seq(Asks)
  <2>1. cl.left \in Seq(Parts)
    BY DEF ClientTypes
  <2> QED BY <2>1, MessageRest DEF ConnTypes
<1>4. CASE /\ cl.item = NoItem /\ ~ping /\ due = NoItem /\ cl.left = <<PingPart>>
           /\ c.asked = << >> /\ c.out = << >>
  <2>1. Head(cl.left) = PingPart /\ Len(cl.left) = 1
    BY <1>4, Lists
  <2>2. d.asked = Append(c.asked, PingAsk)
    BY <2>1, Parting DEF PingAsk
  <2>3. Counted(d, TRUE, NoItem, FALSE)
    BY <1>2, <1>4, <2>2, PingAsked
  <2>4. /\ c.state = "queued" \/ h.pc \in {"ready", "reading", "header"}
        /\ c.in = << >>
    BY <1>2, <1>4, RemoteModuleAssumption DEF Reading, Streamed, Due, Items
  <2>5. d.in = <<PingPart>>
    BY <2>1, <2>4, Lists
  <2>6. Reading(d, h, TRUE, NoItem, FALSE)
    BY <2>4, <2>5, Lists DEF Reading, Streamed, Due
  <2>7. Writing(d, h, cm, TRUE, NoItem)
    <3>1. ~(c.state = "served" /\ h.pc \in {"write", "writing"})
      BY <1>2, <1>4, RemoteModuleAssumption DEF Reading, Items
    <3> QED BY <3>1 DEF Writing
  <2>8. Asking(d, h, cm, TRUE, NoItem, FALSE)
    BY <1>4, <2>1 DEF Asking
  <2> QED BY <2>3, <2>6, <2>7, <2>8 DEF Sound, Agreed
<1>5. CASE cl.item # NoItem /\ due = NoItem /\ cl.left = Request(cl.item)
  <2>1. cl.item \in Items
    BY <1>5 DEF ClientTypes
  <2>2. \A next, cut2 : Writing(d, h, cm, ping, next)
    <3>1. c.state = "served" /\ h.pc \in {"write", "writing"} => ping
      BY <1>2, <1>5, RemoteModuleAssumption DEF Reading, Items
    <3>2. c.state = "served" /\ h.pc \in {"write", "writing"} => h.left = <<PongPart>>
      BY <1>2, <3>1 DEF Writing
    <3> QED BY <3>1, <3>2 DEF Writing
  <2>3. CASE cl.item \in Files
    <3>0. PICK cut2 \in BOOLEAN : cut2
      OBVIOUS
    <3>1. cl.left = <<FileHeader, FileBody(cl.item)>>
      BY <3>0, <1>5, <2>1, <2>3, Requests
    <3>2. Head(cl.left) = FileHeader /\ Len(cl.left) # 1 /\ cm.left = <<FileBody(cl.item)>>
      BY <3>0, <3>1, Lists
    <3>3. Due(cl.item, cut2) = <<FileHeader>>
      <4>1. Due(cl.item, cut2) = <<FileHeader>>
        BY <3>0, <2>1, <2>3, Dues
      <4>2. Due(due, cut) = << >>
        BY <1>5 DEF Due
      <4> QED BY <4>1, <4>2, Lists
    <3>4. Reading(d, h, ping, cl.item, cut2)
      <4>1. FileHeader \in Parts /\ d.in = Append(c.in, FileHeader)
        BY <1>3, <3>2
      <4>2. Reading(c, h, ping, NoItem, cut)
        BY <1>2, <1>5
      <4> QED BY <3>3, <4>1, <4>2, ReadingStarts
    <3>5. Counted(d, ping, cl.item, cut2)
      BY <3>0, <1>2, <1>5, <3>2 DEF Counted
    <3>6. Asking(d, h, cm, ping, cl.item, cut2)
      BY <3>0, <1>2, <2>3, <3>2 DEF Asking, Sending
    <3> QED BY <3>0, <2>1, <2>2, <2>3, <3>4, <3>5, <3>6 DEF Sound, Agreed
  <2>4. CASE cl.item \notin Files
    <3>0. PICK cut2 \in BOOLEAN : ~cut2
      OBVIOUS
    <3>1. cl.left = <<TableAsk(cl.item)>>
      BY <3>0, <1>5, <2>1, <2>4, Requests
    <3>2. Head(cl.left) = TableAsk(cl.item) /\ Len(cl.left) = 1
      BY <3>0, <3>1, Lists
    <3>3. Due(cl.item, cut2) = <<TableAsk(cl.item)>>
      <4>1. Due(cl.item, cut2) = <<TableAsk(cl.item)>>
        BY <3>0, <2>1, <2>4, Dues
      <4>2. Due(due, cut) = << >>
        BY <1>5 DEF Due
      <4> QED BY <4>1, <4>2, Lists
    <3>4. Reading(d, h, ping, cl.item, cut2)
      <4>1. TableAsk(cl.item) \in Parts /\ d.in = Append(c.in, TableAsk(cl.item))
        BY <1>3, <3>2
      <4>2. Reading(c, h, ping, NoItem, cut)
        BY <1>2, <1>5
      <4> QED BY <3>3, <4>1, <4>2, ReadingStarts
    <3>5. d.asked = Append(c.asked, AskFor(cl.item))
      BY <3>0, <2>4, <3>2, Parting DEF AskFor, Wanted
    <3>6. Counted(d, ping, cl.item, cut2)
      <4>1. Counted(c, ping, NoItem, FALSE)
        BY <1>2, <1>5 DEF Counted
      <4>2. cut2 = FALSE
        BY <3>0
      <4>3. Counted(d, ping, cl.item, FALSE)
        BY <2>1, <3>5, <4>1, DueAsked
      <4> QED BY <4>2, <4>3
    <3>7. Asking(d, h, cm, ping, cl.item, cut2)
      BY <3>0, <1>2, <1>5, <3>2 DEF Asking, Waiting
    <3> QED BY <3>0, <2>1, <2>2, <3>4, <3>6, <3>7 DEF Sound, Agreed
  <2> QED BY <2>3, <2>4
<1>6. CASE cl.item \in Files /\ due = cl.item /\ cut /\ cl.left = <<FileBody(cl.item)>>
  <2>0. PICK cut2 \in BOOLEAN : ~cut2
    OBVIOUS
  <2>1. cl.item \in Items /\ cl.item # NoItem
    BY <2>0, <1>6, Kinds DEF Items
  <2>2. Head(cl.left) = FileBody(cl.item) /\ Len(cl.left) = 1
    BY <2>0, <1>6, Lists
  <2>3. cut = TRUE /\ cut2 = FALSE
    BY <1>6, <2>0
  <2>4. Reading(d, h, ping, cl.item, cut2)
    <3>1. FileBody(cl.item) \in Parts /\ d.in = Append(c.in, FileBody(cl.item))
      BY <1>3, <2>2
    <3>2. Reading(c, h, ping, cl.item, TRUE)
      BY <1>2, <1>6, <2>3
    <3>3. Reading(d, h, ping, cl.item, FALSE)
      BY <1>6, <3>1, <3>2, ReadingEnds
    <3> QED BY <2>3, <3>3
  <2>5. d.asked = Append(c.asked, AskFor(cl.item))
    <3>1. CommandFor(cl.item) = "GetFile"
      BY <1>6, <2>1, Kinds
    <3> QED BY <1>6, <2>2, <3>1, Parting DEF AskFor, Wanted
  <2>6. Counted(d, ping, cl.item, cut2)
    <3>1. Counted(c, ping, NoItem, FALSE)
      BY <1>2, <1>6 DEF Counted
    <3>2. Counted(d, ping, cl.item, FALSE)
      BY <2>1, <2>5, <3>1, DueAsked
    <3> QED BY <2>3, <3>2
  <2>7. Asking(d, h, cm, ping, cl.item, cut2)
    BY <2>0, <1>2, <2>1, <2>2 DEF Asking, Waiting
  <2>8. Writing(d, h, cm, ping, cl.item)
    <3>1. c.state = "served" /\ h.pc \in {"write", "writing"} => ping
      BY <1>2, <1>6 DEF Reading
    <3>2. c.state = "served" /\ h.pc \in {"write", "writing"} => h.left = <<PongPart>>
      BY <1>2, <3>1 DEF Writing
    <3> QED BY <3>1, <3>2 DEF Writing
  <2> QED BY <2>0, <2>1, <2>4, <2>6, <2>7, <2>8 DEF Sound, Agreed
<1> QED BY <1>2, <1>4, <1>5, <1>6 DEF Sending

(* The client finds the Pong, or the whole answer it waits for. *)
LEMMA PongIsRead ==
  ASSUME NEW out \in Seq(Parts), out # << >>, Head(out) = PongPart, NEW item \in Items \cup {NoItem},
         Behind(out) = << >> \/ (item \in Items /\ Coming(item, Behind(out)))
  PROVE  /\ SubSeq(out, 2, Len(out)) = Behind(out)
         /\ Behind(SubSeq(out, 2, Len(out))) = Behind(out)
<1>1. Behind(out) = Tail(out)
  BY DEF Behind
<1>2. SubSeq(out, 2, Len(out)) = Tail(out)
  OBVIOUS
<1>3. Behind(Behind(out)) = Behind(out)
  <2>1. CASE Behind(out) = << >>
    BY <2>1, BehindPong
  <2>2. CASE item \in Items /\ Behind(out) # << >>
    <3>1. PICK body : Head(Behind(out)) \in {AnswerHeader(item), AnswerBody(item, body)}
      BY <2>2, Lists DEF Coming
    <3>2. Head(Behind(out)).cmd = CommandFor(item)
      BY <3>1, Parting
    <3>3. Head(Behind(out)) # PongPart
      BY <2>2, <3>2, Kinds, Parting
    <3>4. PICK rest : rest = Behind(out)
      OBVIOUS
    <3>5. Behind(rest) = rest
      BY <3>3, <3>4 DEF Behind
    <3> QED BY <3>4, <3>5
  <2> QED BY <2>1, <2>2
<1> QED BY <1>1, <1>2, <1>3

LEMMA AnswerIsRead ==
  ASSUME NEW out \in Seq(Parts), out # << >>, Head(out) # PongPart, NEW item \in Items,
         Coming(item, Behind(out)), ~Head(out).more \/ Len(out) > 1
  PROVE  \E body \in Given(item) :
           LET used == IF Head(out).more THEN 2 ELSE 1
           IN  /\ Behind(out) \in {<<AnswerBody(item, body)>>,
                                   <<AnswerHeader(item), AnswerBody(item, body)>>}
               /\ Head(out).cmd = CommandFor(item)
               /\ out[used].item = body
               /\ SubSeq(out, used + 1, Len(out)) = << >>
<1>1. Behind(out) = out
  BY DEF Behind
<1>2. out # <<AnswerHeader(item)>>
  <2>1. ASSUME out = <<AnswerHeader(item)>> PROVE FALSE
    <3>1. Head(out) = AnswerHeader(item) /\ Len(out) = 1
      BY <2>1, Lists
    <3>2. Head(out).more
      BY <3>1, Parting
    <3> QED BY <3>1, <3>2
  <2> QED BY <2>1
<1>3. PICK body \in Given(item) :
        out \in {<<AnswerBody(item, body)>>, <<AnswerHeader(item), AnswerBody(item, body)>>}
  BY <1>1, <1>2 DEF Coming
<1>4. CASE out = <<AnswerBody(item, body)>>
  <2>1. Head(out) = AnswerBody(item, body) /\ Len(out) = 1 /\ out[1] = AnswerBody(item, body)
    BY <1>4, Lists
  <2>2. Head(out).cmd = CommandFor(item) /\ ~Head(out).more /\ out[1].item = body
    BY <2>1, Parting
  <2>3. SubSeq(out, 2, Len(out)) = << >>
    BY <2>1
  <2> QED BY <1>1, <1>3, <2>2, <2>3
<1>5. CASE out = <<AnswerHeader(item), AnswerBody(item, body)>>
  <2>1. Head(out) = AnswerHeader(item) /\ Len(out) = 2 /\ out[2] = AnswerBody(item, body)
    BY <1>5, Lists
  <2>2. Head(out).cmd = CommandFor(item) /\ Head(out).more /\ out[2].item = body
    BY <2>1, Parting
  <2>3. SubSeq(out, 3, Len(out)) = << >>
    BY <2>1
  <2> QED BY <1>1, <1>3, <2>2, <2>3
<1> QED BY <1>3, <1>4, <1>5

LEMMA PongReadSound ==
  ASSUME NEW c \in ConnTypes, NEW d, NEW h, NEW cl, Sound(c, h, cl), SameButOut(c, d),
         cl.pc \in {"drain", "wait"}, c.out # << >>, Behind(d.out) = Behind(c.out)
  PROVE  Sound(d, h, cl)
<1>1. PICK ping \in BOOLEAN, due \in Items \cup {NoItem}, cut \in BOOLEAN :
        Agreed(c, h, cl, ping, due, cut)
  BY DEF Sound
<1>2. ~ping
  BY <1>1 DEF Agreed, Asking
<1>3. Reading(d, h, ping, due, cut)
  BY <1>1 DEF Agreed, Reading, SameButOut
<1>4. Counted(d, ping, due, cut)
  BY <1>1 DEF Agreed, Counted, SameButOut
<1>5. Writing(d, h, cl, ping, due)
  BY <1>1 DEF Agreed, Writing, SameButOut
<1>6. Asking(d, h, cl, ping, due, cut)
  BY <1>1, <1>2 DEF Agreed, Asking, Waiting, SameButOut
<1> QED BY <1>1, <1>3, <1>4, <1>5, <1>6 DEF Sound, Agreed

LEMMA AnswerReadSound ==
  ASSUME NEW c \in ConnTypes, NEW d, NEW h, NEW cl \in ClientTypes, NEW cm, NEW body,
         Sound(c, h, cl), SameButOut(c, d), cl.pc = "wait", cl.item \in Items,
         Behind(c.out) \in {<<AnswerBody(cl.item, body)>>,
                            <<AnswerHeader(cl.item), AnswerBody(cl.item, body)>>},
         d.out = << >>,
         \/ cm.pc \in {"connected", "drain"}
         \/ cm.pc = "send" /\ cm.item \in Items /\ cm.left = Request(cm.item)
  PROVE  Sound(d, h, cm)
<1>1. PICK ping \in BOOLEAN, due \in Items \cup {NoItem}, cut \in BOOLEAN :
        Agreed(c, h, cl, ping, due, cut)
  BY DEF Sound
<1>2. Behind(c.out) # << >> /\ Behind(c.out) # <<AnswerHeader(cl.item)>>
  <2>1. AnswerHeader(cl.item) # AnswerBody(cl.item, body)
    BY Parting
  <2>2. <<AnswerBody(cl.item, body)>> # <<AnswerHeader(cl.item)>>
    BY <2>1, Lists
  <2> QED BY <2>2, Lists
<1>3. due = NoItem
  BY <1>1, <1>2 DEF Agreed, Asking, Waiting
<1>4. ~ping /\ ~cut /\ NoItem \notin Items /\ NoItem \notin Files
  <2>1. NoItem \notin Items /\ NoItem \notin Files
    BY RemoteModuleAssumption DEF Items
  <2>2. ~cut
    BY <1>1, <1>3, <2>1 DEF Agreed
  <2>3. c.out # << >>
    BY <1>2, BehindPong
  <2>4. ~ping
    BY <1>1, <2>3 DEF Agreed, Asking
  <2> QED BY <2>1, <2>2, <2>4
<1>5. Reading(d, h, ping, due, cut)
  BY <1>1 DEF Agreed, Reading, SameButOut
<1>6. Counted(d, ping, due, cut)
  BY <1>1 DEF Agreed, Counted, SameButOut
<1>7. Writing(d, h, cm, ping, due)
  BY <1>1, <1>3, <1>4 DEF Agreed, Reading, Writing, SameButOut
<1>8. Asking(d, h, cm, ping, due, cut)
  BY <1>3, <1>4 DEF Asking, Sending
<1> QED BY <1>1, <1>5, <1>6, <1>7, <1>8 DEF Sound, Agreed

(* The client connects, returns from a call, asks, and closes. *)
LEMMA ConnectSound ==
  ASSUME NEW c, NEW h, NEW cl, c.state = "queued", c.in = << >>, c.out = << >>, c.asked = << >>,
         c.answered = << >>, cl.pc = "send", cl.item = NoItem, cl.left = <<PingPart>>
  PROVE  Sound(c, h, cl) /\ Leftover(c, cl)
<1>1. PICK no \in BOOLEAN : ~no
  OBVIOUS
<1>2. Reading(c, h, no, NoItem, no)
  BY <1>1 DEF Reading, Streamed, Due
<1>3. Counted(c, no, NoItem, no)
  <2>1. Len(c.asked) = 0 /\ Len(c.answered) = 0
    OBVIOUS
  <2>2. (IF no THEN 1 ELSE 0) = 0 /\ (IF NoItem = NoItem \/ no THEN 0 ELSE 1) = 0
    BY <1>1
  <2> QED BY <1>1, <2>1, <2>2 DEF Counted
<1>4. Writing(c, h, cl, no, NoItem)
  BY DEF Writing
<1>5. Asking(c, h, cl, no, NoItem, no)
  BY <1>1 DEF Asking, Sending
<1>6. Sound(c, h, cl)
  BY <1>1, <1>2, <1>3, <1>4, <1>5 DEF Sound, Agreed
<1>7. Leftover(c, cl)
  BY BehindPong DEF Leftover
<1> QED BY <1>6, <1>7

LEMMA ReturnSound ==
  ASSUME NEW c, NEW h, NEW cl, NEW cm, Sound(c, h, cl),
         \/ cl.pc = "drain" /\ cm.pc = "connected"
         \/ /\ cl.pc = "connected" /\ cm.pc = "send"
            /\ cm.item \in Items /\ cm.left = Request(cm.item)
  PROVE  Sound(c, h, cm)
<1>1. PICK ping \in BOOLEAN, due \in Items \cup {NoItem}, cut \in BOOLEAN :
        Agreed(c, h, cl, ping, due, cut)
  BY DEF Sound
<1>2. Writing(c, h, cm, ping, due)
  BY <1>1 DEF Agreed, Writing
<1>3. Asking(c, h, cm, ping, due, cut)
  BY <1>1, Kinds DEF Agreed, Asking, Sending
<1> QED BY <1>1, <1>2, <1>3 DEF Sound, Agreed

LEMMA CloseSound ==
  ASSUME NEW c, NEW d, NEW h, NEW cl, NEW cm, Sound(c, h, cl), SameButOut(c, d), cm.pc = "off"
  PROVE  Sound(d, h, cm)
<1>1. PICK ping \in BOOLEAN, due \in Items \cup {NoItem}, cut \in BOOLEAN :
        Agreed(c, h, cl, ping, due, cut)
  BY DEF Sound
<1>2. Reading(d, h, ping, due, cut)
  BY <1>1 DEF Agreed, Reading, SameButOut
<1>3. Counted(d, ping, due, cut)
  BY <1>1 DEF Agreed, Counted, SameButOut
<1>4. Writing(d, h, cm, ping, due)
  BY <1>1 DEF Agreed, Writing, SameButOut
<1>5. Asking(d, h, cm, ping, due, cut)
  BY DEF Asking
<1> QED BY <1>1, <1>2, <1>3, <1>4, <1>5 DEF Sound, Agreed

-----------------------------------------------------------------------------
(* A step of a thread or of the client changes what one connection and the  *)
(* two at its ends hold; the other connections keep what they agree on,     *)
(* those of the same thread because they wait in its queue.                 *)
LEMMA OthersSound ==
  ASSUME Hosted, NEW t \in Threads, NEW j \in Active,
         \A u \in Threads \ {t} : thread'[u] = thread[u],
         conn'[j] = conn[j], ClientOf(j)' = ClientOf(j),
         conn[j].state = "served" => conn[j].host # t,
         Sound(conn[j], Host(j), ClientOf(j))
  PROVE  Sound(conn[j], Host(j), ClientOf(j))'
<1>1. conn[j].host \in Threads /\ conn[j].state \in {"queued", "served"}
  BY DEF Hosted, Listening, Active
<1>2. CASE conn[j].host # t
  <2>1. Host(j)' = Host(j)
    BY <1>1, <1>2 DEF Host
  <2> QED BY <2>1
<1>3. CASE conn[j].state = "queued"
  <2>1. Sound(conn[j], Host(j)', ClientOf(j))
    BY <1>3, QueuedSound
  <2> QED BY <2>1
<1> QED BY <1>1, <1>2, <1>3

(* A thread that serves has one connection, which it shares with nobody. *)
LEMMA ServedBy ==
  ASSUME TypeOK, Hosted, NEW t \in Threads, thread[t].pc \in Serving
  PROVE  /\ thread[t].conn \in Active
         /\ conn[thread[t].conn].state = "served"
         /\ conn[thread[t].conn].host = t
         /\ Host(thread[t].conn) = thread[t]
         /\ \A j \in Active \ {thread[t].conn} : conn[j].state = "served" => conn[j].host # t
<1>1. thread[t].conn \in Connections
  BY DEF TypeOK
<1>2. conn[thread[t].conn].state = "served" /\ conn[thread[t].conn].host = t
  BY DEF Hosted
<1>3. \A j \in Active \ {thread[t].conn} : conn[j].state = "served" => conn[j].host # t
  BY DEF Hosted, Active, Host
<1> QED BY <1>1, <1>2, <1>3 DEF Active, Host

(* A thread goes on with its client. *)
LEMMA ServeKeepsHosts ==
  ASSUME TypeOK, Hosted, Untouched, NEW t \in Threads, NEW k, k = thread[t].conn,
         thread[t].pc \in Serving, thread'[t].pc \in Serving, thread'[t].conn = k,
         \A u \in Threads \ {t} : thread'[u] = thread[u],
         \A j \in Connections \ {k} : conn'[j] = conn[j],
         conn'[k].state = "served", conn'[k].host = t, client' = client
  PROVE  Hosted' /\ Untouched' /\ Active' = Active
<1>1. k \in Active /\ k \in Connections /\ conn[k].state = "served" /\ conn[k].host = t
  BY ServedBy DEF Active
<1>2. \A j \in Connections : conn'[j].state = conn[j].state /\ conn'[j].host = conn[j].host
  BY <1>1
<1>3. Active' = Active
  BY <1>2 DEF Active
<1>4. Listening' = Listening
  <2>1. t \in Listening /\ t \in Listening'
    BY DEF Listening, Serving
  <2>2. \A u \in Threads \ {t} : u \in Listening <=> u \in Listening'
    BY DEF Listening
  <2>3. Listening \subseteq Threads /\ Listening' \subseteq Threads
    BY DEF Listening
  <2> QED BY <2>1, <2>2, <2>3
<1>5. \A j \in Active : (conn[j].host \in Listening)'
  BY <1>2, <1>3, <1>4 DEF Hosted, Active
<1>6. ASSUME NEW j \in Connections, conn'[j].state = "served"
      PROVE  Host(j)'.pc \in Serving /\ Host(j)'.conn = j
  <2>1. conn[j].host \in Threads
    BY <1>2, <1>6 DEF Hosted, Active, Listening
  <2>2. Host(j).pc \in Serving /\ Host(j).conn = j
    BY <1>2, <1>6 DEF Hosted
  <2>3. CASE conn[j].host = t
    BY <1>2, <2>2, <2>3 DEF Host
  <2>4. CASE conn[j].host # t
    BY <1>2, <2>1, <2>2, <2>4 DEF Host
  <2> QED BY <2>3, <2>4
<1>7. ASSUME NEW u \in Threads, thread'[u].pc \in Serving
      PROVE  conn'[thread'[u].conn].state = "served" /\ conn'[thread'[u].conn].host = u
  <2>1. CASE u = t
    BY <2>1
  <2>2. CASE u # t
    <3>1. thread'[u] = thread[u]
      BY <2>2
    <3>2. thread[u].conn \in Connections
      BY <1>7, <3>1 DEF TypeOK
    <3>3. conn[thread[u].conn].state = "served" /\ conn[thread[u].conn].host = u
      BY <1>7, <3>1 DEF Hosted
    <3> QED BY <1>2, <3>1, <3>2, <3>3
  <2> QED BY <2>1, <2>2
<1>8. Hosted'
  BY <1>3, <1>5, <1>6, <1>7 DEF Hosted
<1>9. Untouched'
  <2>1. \A j \in Connections \ Active : conn'[j] = conn[j]
    BY <1>1
  <2>2. client.pc # "off" => client.conn \in Connections
    BY DEF TypeOK
  <2> QED BY <1>2, <1>3, <2>1, <2>2 DEF Untouched
<1> QED BY <1>3, <1>8, <1>9

LEMMA ServeKeepsAnswers ==
  ASSUME TypeOK, AnswerInv, NEW t \in Threads, NEW k, k = thread[t].conn,
         thread[t].pc \in Serving, thread'[t].pc \in Serving, thread'[t].conn = k,
         \A u \in Threads \ {t} : thread'[u] = thread[u],
         \A j \in Connections \ {k} : conn'[j] = conn[j],
         conn'[k].state = "served", conn'[k].host = t,
         client' = client, canRun' = canRun, raced' = raced,
         canRun \/ thread'[t].pc # "writing",
         ~raced => /\ canRun => Sound(conn'[k], thread'[t], ClientOf(k))
                   /\ Answered(conn'[k])
                   /\ client.pc # "off" /\ client.conn = k => Leftover(conn'[k], client)
  PROVE  AnswerInv'
<1>1. Hosted /\ Untouched
  BY DEF AnswerInv
<1>2. Hosted' /\ Untouched' /\ Active' = Active
  BY <1>1, ServeKeepsHosts
<1>3. SUFFICES ASSUME ~raced
               PROVE  /\ \A j \in Active : Kept(j)' => Sound(conn[j], Host(j), ClientOf(j))'
                      /\ \A j \in Connections : Answered(conn'[j])
                      /\ Unread'
                      /\ Got(client)
  BY <1>2 DEF AnswerInv
<1>4. /\ \A j \in Active : Kept(j) => Sound(conn[j], Host(j), ClientOf(j))
      /\ \A j \in Connections : Answered(conn[j])
      /\ Unread /\ Got(client)
  BY <1>3 DEF AnswerInv
<1>5. ASSUME NEW j \in Active, Kept(j)' PROVE Sound(conn[j], Host(j), ClientOf(j))'
  <2>0. ClientOf(j)' = ClientOf(j)
    BY DEF ClientOf
  <2>1. CASE j = k
    <3>1. Host(j)' = thread'[t]
      BY <2>1 DEF Host
    <3>2. Sound(conn'[k], thread'[t], ClientOf(k))
      BY <1>3, <1>5, <3>1 DEF Kept
    <3> QED BY <2>0, <2>1, <3>1, <3>2
  <2>2. CASE j # k
    <3>1. conn'[j] = conn[j]
      BY <2>2 DEF Active
    <3>2. conn[j].state = "served" => conn[j].host # t
      BY <1>1, <2>2, ServedBy
    <3>3. conn[j].state = "served" => Host(j)' = Host(j)
      BY <1>1, <3>1, <3>2 DEF Host, Hosted, Active, Listening
    <3>4. Kept(j)
      BY <1>5, <3>1, <3>3 DEF Kept
    <3>5. Sound(conn[j], Host(j), ClientOf(j))
      BY <1>4, <3>4
    <3> QED BY <1>1, <2>0, <3>1, <3>2, <3>5, OthersSound
  <2> QED BY <2>1, <2>2
<1>6. \A j \in Connections : Answered(conn'[j])
  BY <1>3, <1>4
<1>7. Unread'
  <2>1. SUFFICES ASSUME client.pc # "off" PROVE Leftover(conn'[client.conn], client)
    BY DEF Unread
  <2>2. client.conn \in Connections /\ Leftover(conn[client.conn], client)
    BY <1>4, <2>1 DEF TypeOK, Unread
  <2>3. CASE client.conn = k
    BY <1>3, <2>1, <2>3
  <2>4. CASE client.conn # k
    <3>1. conn'[client.conn] = conn[client.conn]
      BY <2>2, <2>4
    <3> QED BY <2>2, <3>1
  <2> QED BY <2>3, <2>4
<1> QED BY <1>4, <1>5, <1>6, <1>7

(* A thread that has no client goes on, or begins to listen. *)
LEMMA IdleKeepsHosts ==
  ASSUME TypeOK, Hosted, Untouched, NEW t \in Threads, t \notin Listening,
         thread'[t].pc \notin Serving, \A u \in Threads \ {t} : thread'[u] = thread[u],
         conn' = conn, client' = client
  PROVE  Hosted' /\ Untouched' /\ Active' = Active
<1>1. Active' = Active
  BY DEF Active
<1>2. \A u \in Listening : u \in Listening' /\ thread'[u] = thread[u] /\ u \in Threads
  BY DEF Listening
<1>3. \A j \in Active : conn[j].host \in Listening
  BY DEF Hosted
<1>4. \A j \in Active : conn[j].host \in Listening' /\ Host(j)' = Host(j)
  BY <1>2, <1>3 DEF Host
<1>5. \A j \in Connections : conn[j].state = "served" => j \in Active
  BY DEF Active
<1>6. \A u \in Threads : thread'[u].pc \in Serving => thread'[u] = thread[u]
  OBVIOUS
<1>7. \A u \in Threads : thread'[u].pc \in Serving =>
        conn'[thread'[u].conn].state = "served" /\ conn'[thread'[u].conn].host = u
  BY <1>6 DEF Hosted
<1>8. \A j \in Connections : conn[j].state = "served" =>
        Host(j)'.pc \in Serving /\ Host(j)'.conn = j
  BY <1>4, <1>5 DEF Hosted
<1>9. Hosted'
  BY <1>1, <1>4, <1>7, <1>8 DEF Hosted
<1> QED BY <1>1, <1>9 DEF Untouched

LEMMA IdleKeepsAnswers ==
  ASSUME TypeOK, AnswerInv, NEW t \in Threads, t \notin Listening,
         thread'[t].pc \notin Serving, \A u \in Threads \ {t} : thread'[u] = thread[u],
         conn' = conn, client' = client, canRun' = canRun, raced' = raced
  PROVE  AnswerInv'
<1>1. Hosted /\ Untouched
  BY DEF AnswerInv
<1>2. Hosted' /\ Untouched' /\ Active' = Active
  BY <1>1, IdleKeepsHosts
<1>3. ASSUME ~raced, NEW j \in Active, Kept(j)'
      PROVE  Sound(conn[j], Host(j), ClientOf(j))'
  <2>1. conn[j].host # t /\ conn[j].host \in Threads
    BY <1>1 DEF Hosted, Listening
  <2>2. Host(j)' = Host(j) /\ ClientOf(j)' = ClientOf(j)
    BY <2>1 DEF Host, ClientOf
  <2>3. Kept(j)
    BY <1>3, <2>2 DEF Kept
  <2>4. Sound(conn[j], Host(j), ClientOf(j))
    BY <1>3, <2>3 DEF AnswerInv
  <2> QED BY <2>2, <2>4
<1>4. ~raced => (Unread' /\ \A j \in Connections : Answered(conn'[j])) /\ Got(client')
  BY DEF AnswerInv, Unread
<1> QED BY <1>2, <1>3, <1>4 DEF AnswerInv

(* What Goto leaves alone. *)
LEMMA Went ==
  ASSUME TypeOK, NEW t \in Threads, NEW pc, Goto(t, pc)
  PROVE  /\ thread'[t].pc = pc /\ thread'[t].conn = thread[t].conn
         /\ thread'[t].cmd = thread[t].cmd /\ thread'[t].item = thread[t].item
         /\ thread'[t].left = thread[t].left
         /\ \A u \in Threads \ {t} : thread'[u] = thread[u]
<1>1. thread \in [Threads -> ThreadTypes]
  BY DEF TypeOK
<1>2. thread[t] \in ThreadTypes
  BY <1>1
<1>3. thread'[t] = [thread[t] EXCEPT !.pc = pc]
  BY <1>1 DEF Goto
<1>4. \A u \in Threads \ {t} : thread'[u] = thread[u]
  BY <1>1 DEF Goto
<1> QED BY <1>2, <1>3, <1>4 DEF ThreadTypes

LEMMA IdleStepsKeepAnswers ==
  ASSUME TypeOK, AnswerInv, NEW t \in Threads,
         ThreadStarts(t) \/ Loop(t) \/ Bind(t) \/ BindFails(t) \/ ThreadEnds(t)
  PROVE  AnswerInv'
<1>1. PICK pc \in {"loop", "asleep", "accepting", "ending", "ended"} : Goto(t, pc)
  BY DEF ThreadStarts, Loop, Bind, BindFails, ThreadEnds
<1>2. t \notin Listening
  BY DEF ThreadStarts, Loop, Bind, BindFails, ThreadEnds, Listening
<1>3. conn' = conn /\ client' = client /\ canRun' = canRun /\ raced' = raced
  BY DEF ThreadStarts, Loop, Bind, BindFails, ThreadEnds
<1>4. thread'[t].pc \notin Serving /\ \A u \in Threads \ {t} : thread'[u] = thread[u]
  BY <1>1, Went DEF Serving
<1> QED BY <1>2, <1>3, <1>4, IdleKeepsAnswers

(* A thread that is started finds no connection: nobody else is there. *)
LEMMA EnableKeepsAnswers ==
  ASSUME IInv, AnswerInv, NEW t \in Threads, Enable(t)
  PROVE  AnswerInv'
<1>1. TypeOK /\ Hosted /\ Untouched
  BY DEF AnswerInv, IInv
<1>2. Goto(t, "spawned") /\ conn' = conn /\ client' = client
  BY DEF Enable, Goto
<1>3. thread[t].pc = "none" /\ t \notin Listening
  <2>1. t \in 1 .. t /\ ~(t < t)
    BY DEF Threads
  <2> QED BY <2>1 DEF Enable, Listening
<1>4. thread'[t].pc \notin Serving /\ \A u \in Threads \ {t} : thread'[u] = thread[u]
  BY <1>1, <1>2, Went DEF Serving
<1>5. Hosted' /\ Untouched' /\ Active' = Active
  BY <1>1, <1>2, <1>3, <1>4, IdleKeepsHosts
<1>6. ~raced' => Active = {}
  <2>1. SUFFICES ASSUME ~raced' PROVE Active = {}
    OBVIOUS
  <2>2. ~raced /\ ~Starting /\ ~threadRunning
    BY <2>1 DEF Enable
  <2>3. Alive = {}
    BY <2>2, FlagClearedAlone
  <2>4. Listening \subseteq Alive
    BY DEF Listening, Alive
  <2> QED BY <1>1, <2>3, <2>4 DEF Hosted
<1>7. ~raced' => ~raced
  BY DEF Enable
<1>8. ~raced => (Unread' /\ \A j \in Connections : Answered(conn'[j])) /\ Got(client')
  BY <1>2 DEF AnswerInv, Unread
<1> QED BY <1>5, <1>6, <1>7, <1>8 DEF AnswerInv

LEMMA DisableKeepsAnswers ==
  ASSUME AnswerInv, (\E from \in {"disabling", "destroying"} : Disable(from)) \/ DisableReturns
  PROVE  AnswerInv'
<1>1. thread' = thread /\ conn' = conn /\ client' = client
  BY DEF Disable, DisableReturns
<1>2. (canRun' => canRun) /\ (~raced' => ~raced)
  <2>1. CASE \E from \in {"disabling", "destroying"} : Disable(from)
    <3>1. canRun' = FALSE
      BY <2>1 DEF Disable
    <3>2. ~raced' => ~raced
      BY <2>1 DEF Disable
    <3> QED BY <3>1, <3>2
  <2>2. CASE DisableReturns
    BY <2>2 DEF DisableReturns
  <2> QED BY <2>1, <2>2
<1>3. Active' = Active /\ Hosted' /\ Untouched' /\ (~raced => Unread')
  BY <1>1 DEF AnswerInv, Hosted, Untouched, Active, Unread, Listening, Host
<1>4. \A j \in Active : Host(j)' = Host(j) /\ ClientOf(j)' = ClientOf(j)
  BY <1>1 DEF Host, ClientOf
<1>5. ASSUME ~raced', NEW j \in Active, Kept(j)'
      PROVE  Sound(conn[j], Host(j), ClientOf(j))'
  <2>0. Kept(j)
    BY <1>1, <1>2, <1>4, <1>5 DEF Kept
  <2>1. Sound(conn[j], Host(j), ClientOf(j))
    BY <1>2, <1>5, <2>0 DEF AnswerInv
  <2>2. conn'[j] = conn[j] /\ Host(j)' = Host(j) /\ ClientOf(j)' = ClientOf(j)
    BY <1>1, <1>4, <1>5
  <2> QED BY <2>1, <2>2
<1>6. ~raced => (\A j \in Connections : Answered(conn'[j])) /\ Got(client')
  BY <1>1 DEF AnswerInv
<1> QED BY <1>2, <1>3, <1>5, <1>6 DEF AnswerInv

LEMMA ClientOfTypes ==
  ASSUME TypeOK, NEW k
  PROVE  /\ ClientOf(k) \in ClientTypes
         /\ client.pc # "off" /\ client.conn = k => ClientOf(k) = client
         /\ ClientOf(k).pc # "off" => client.pc # "off" /\ client.conn = k
BY OffTypes DEF ClientOf, TypeOK

(* Steps that leave the connections alone. *)
LEMMA TurnsKeepAnswers ==
  ASSUME TypeOK, AnswerInv, NEW t \in Threads, NEW k, k = thread[t].conn,
         thread[t].pc \in Serving, thread'[t].pc \in Serving, thread'[t].conn = k,
         \A u \in Threads \ {t} : thread'[u] = thread[u],
         conn' = conn, client' = client, canRun' = canRun, raced' = raced,
         canRun \/ thread'[t].pc # "writing",
         canRun /\ Sound(conn[k], thread[t], ClientOf(k))
           => Sound(conn[k], thread'[t], ClientOf(k))
  PROVE  AnswerInv'
<1>1. Hosted
  BY DEF AnswerInv
<1>2. /\ k \in Active /\ k \in Connections
      /\ conn[k].state = "served" /\ conn[k].host = t /\ Host(k) = thread[t]
  BY <1>1, ServedBy DEF Active
<1>3. conn'[k].state = "served" /\ conn'[k].host = t
  BY <1>2
<1>4. ~raced => /\ canRun => Sound(conn'[k], thread'[t], ClientOf(k))
                /\ Answered(conn'[k])
                /\ client.pc # "off" /\ client.conn = k => Leftover(conn'[k], client)
  <2> SUFFICES ASSUME ~raced
               PROVE  /\ canRun => Sound(conn'[k], thread'[t], ClientOf(k))
                      /\ Answered(conn'[k])
                      /\ client.pc # "off" /\ client.conn = k => Leftover(conn'[k], client)
    OBVIOUS
  <2>1. canRun => Sound(conn[k], Host(k), ClientOf(k))
    BY <1>2 DEF AnswerInv, Kept
  <2>2. canRun => Sound(conn[k], thread'[t], ClientOf(k))
    BY <1>2, <2>1
  <2>3. Answered(conn[k]) /\ Unread
    BY <1>2 DEF AnswerInv
  <2>4. conn'[k] = conn[k]
    OBVIOUS
  <2> QED BY <2>2, <2>3, <2>4 DEF Unread
<1>5. \A j \in Connections \ {k} : conn'[j] = conn[j]
  OBVIOUS
<1> QED BY <1>3, <1>4, <1>5, ServeKeepsAnswers

LEMMA HandleKeepsAnswers ==
  ASSUME TypeOK, AnswerInv, NEW t \in Threads, NEW pc \in Serving,
         \/ thread[t].pc = "ready" /\ pc = "reading"
         \/ thread[t].pc = "reading" /\ pc = "header"
         \/ thread[t].pc = "payload" /\ pc = "body"
         \/ canRun /\ thread[t].pc = "write" /\ pc = "writing",
         Goto(t, pc), conn' = conn, client' = client, canRun' = canRun, raced' = raced
  PROVE  AnswerInv'
<1>1. PICK k : k = thread[t].conn
  OBVIOUS
<1>2. Hosted /\ thread[t].pc \in Serving
  BY DEF AnswerInv, Serving
<1>3. conn[k].state = "served"
  BY <1>1, <1>2, ServedBy
<1>4. /\ thread'[t].pc = pc /\ thread'[t].conn = k /\ thread'[t].cmd = thread[t].cmd
      /\ thread'[t].item = thread[t].item /\ thread'[t].left = thread[t].left
      /\ \A u \in Threads \ {t} : thread'[u] = thread[u]
  BY <1>1, Went
<1>5. PICK h, g, c, cl : h = thread[t] /\ g = thread'[t] /\ c = conn[k] /\ cl = ClientOf(k)
  OBVIOUS
<1>6. \/ h.pc \in {"ready", "reading"} /\ g.pc \in {"reading", "header"}
      \/ h.pc = "payload" /\ g.pc = "body" /\ g.cmd = h.cmd
      \/ /\ h.pc = "write" /\ g.pc = "writing"
         /\ g.cmd = h.cmd /\ g.item = h.item /\ g.left = h.left
  BY <1>4, <1>5
<1>7. Sound(c, h, cl) => Sound(c, g, cl)
  BY <1>3, <1>5, <1>6, TurnSound
<1>8. Sound(conn[k], thread[t], ClientOf(k)) => Sound(conn[k], thread'[t], ClientOf(k))
  BY <1>5, <1>7
<1> QED BY <1>1, <1>2, <1>4, <1>8, TurnsKeepAnswers

(* A thread turns to a message. *)
Turns(t, pc, cmd, item) ==
  thread' = [thread EXCEPT ![t].pc = pc, ![t].cmd = cmd, ![t].item = item]

LEMMA Turned ==
  ASSUME TypeOK, NEW t \in Threads, NEW pc, NEW cmd, NEW item,
         Turns(t, pc, cmd, item)
  PROVE  /\ thread'[t].pc = pc /\ thread'[t].conn = thread[t].conn
         /\ thread'[t].cmd = cmd /\ thread'[t].item = item
         /\ \A u \in Threads \ {t} : thread'[u] = thread[u]
<1>1. thread \in [Threads -> ThreadTypes]
  BY DEF TypeOK
<1>2. thread[t] \in ThreadTypes
  BY <1>1
<1>3. thread'[t] = [thread[t] EXCEPT !.pc = pc, !.cmd = cmd, !.item = item]
  BY <1>1 DEF Turns
<1>4. \A u \in Threads \ {t} : thread'[u] = thread[u]
  BY <1>1 DEF Turns
<1>5. PICK h \in ThreadTypes : h = thread[t]
  BY <1>2
<1>6. thread'[t] = [h EXCEPT !.pc = pc, !.cmd = cmd, !.item = item]
  BY <1>3, <1>5
<1>7. /\ thread'[t].pc = pc /\ thread'[t].conn = h.conn
      /\ thread'[t].cmd = cmd /\ thread'[t].item = item
  BY <1>6 DEF ThreadTypes
<1> QED BY <1>4, <1>5, <1>7

(* What m_CanRun stops is answered, if at all, to nobody. *)
LEMMA StopsKeepAnswers ==
  ASSUME TypeOK, AnswerInv, NEW t \in Threads, NEW cmd, NEW item, ~canRun,
         thread[t].pc \in Serving,
         Turns(t, "process", cmd, item),
         conn' = conn, client' = client, canRun' = canRun, raced' = raced
  PROVE  AnswerInv'
<1>1. PICK k : k = thread[t].conn
  OBVIOUS
<1>2. /\ thread'[t].pc = "process" /\ thread'[t].conn = k
      /\ \A u \in Threads \ {t} : thread'[u] = thread[u]
  BY <1>1, Turned
<1>3. thread'[t].pc \in Serving /\ thread'[t].pc # "writing"
  BY <1>2 DEF Serving
<1> QED BY <1>1, <1>2, <1>3, TurnsKeepAnswers

LEMMA StartStepsKeepAnswers ==
  ASSUME TypeOK, AnswerInv, NEW t \in Threads, StartHeader(t) \/ StartBody(t)
  PROVE  AnswerInv'
<1>1. thread[t].pc \in Serving /\ UNCHANGED <<canRun, raced, conn, client>>
  BY DEF StartHeader, StartBody, Serving
<1>2. CASE thread[t].pc = "reading" /\ Goto(t, "header")
  BY <1>1, <1>2, HandleKeepsAnswers DEF Serving
<1>3. CASE thread[t].pc = "payload" /\ Goto(t, "body")
  BY <1>1, <1>3, HandleKeepsAnswers DEF Serving
<1>4. CASE StartHeader(t) /\ ~Goto(t, "header")
  <2>1. PICK stale \in Files, cmd \in Commands :
          Turns(t, "process", cmd, IF cmd = "GetFile" THEN stale ELSE NoItem)
    BY <1>4 DEF StartHeader, Turns
  <2>2. ~canRun
    BY <1>4 DEF StartHeader
  <2> QED BY <1>1, <2>1, <2>2, StopsKeepAnswers
<1>5. CASE StartBody(t) /\ ~Goto(t, "body")
  <2>1. PICK stale \in Files : thread' = [thread EXCEPT ![t].pc = "process", ![t].item = stale]
    BY <1>5 DEF StartBody
  <2>2. Turns(t, "process", thread[t].cmd, stale)
    <3>1. thread \in [Threads -> ThreadTypes]
      BY DEF TypeOK
    <3> QED BY <2>1, <3>1 DEF ThreadTypes, Turns
  <2>3. ~canRun
    BY <1>5 DEF StartBody
  <2> QED BY <1>1, <2>2, <2>3, StopsKeepAnswers
<1> QED BY <1>2, <1>3, <1>4, <1>5 DEF StartHeader, StartBody

(* A part is taken from the stream. *)
LEMMA ReadKeepsAnswers ==
  ASSUME TypeOK, AnswerInv, NEW t \in Threads, NEW k, k = thread[t].conn,
         thread[t].pc \in Serving, thread'[t].pc \in Serving \ {"writing"}, thread'[t].conn = k,
         \A u \in Threads \ {t} : thread'[u] = thread[u],
         conn' = [conn EXCEPT ![k].in = Tail(@)],
         client' = client, canRun' = canRun, raced' = raced,
         \A d, cl : /\ d.state = "served" /\ d.in = Tail(conn[k].in) /\ d.out = conn[k].out
                    /\ d.asked = conn[k].asked /\ d.answered = conn[k].answered
                    /\ Sound(conn[k], thread[t], cl)
                    => Sound(d, thread'[t], cl)
  PROVE  AnswerInv'
<1>1. Hosted
  BY DEF AnswerInv
<1>2. /\ k \in Active /\ k \in Connections
      /\ conn[k].state = "served" /\ conn[k].host = t /\ Host(k) = thread[t]
  BY <1>1, ServedBy DEF Active
<1>3. conn \in [Connections -> ConnTypes] /\ conn[k] \in ConnTypes
  BY <1>2 DEF TypeOK
<1>4. conn'[k] = [conn[k] EXCEPT !.in = Tail(@)] /\ \A j \in Connections \ {k} : conn'[j] = conn[j]
  BY <1>2, <1>3
<1>5. /\ conn'[k].state = "served" /\ conn'[k].host = t
      /\ conn'[k].in = Tail(conn[k].in) /\ conn'[k].out = conn[k].out
      /\ conn'[k].asked = conn[k].asked /\ conn'[k].answered = conn[k].answered
  BY <1>2, <1>3, <1>4 DEF ConnTypes
<1>6. ~raced => /\ canRun => Sound(conn'[k], thread'[t], ClientOf(k))
                /\ Answered(conn'[k])
                /\ client.pc # "off" /\ client.conn = k => Leftover(conn'[k], client)
  <2> SUFFICES ASSUME ~raced
               PROVE  /\ canRun => Sound(conn'[k], thread'[t], ClientOf(k))
                      /\ Answered(conn'[k])
                      /\ client.pc # "off" /\ client.conn = k => Leftover(conn'[k], client)
    OBVIOUS
  <2>1. canRun => Sound(conn[k], thread[t], ClientOf(k))
    BY <1>2 DEF AnswerInv, Kept
  <2>2. canRun => Sound(conn'[k], thread'[t], ClientOf(k))
    BY <1>5, <2>1
  <2>3. Answered(conn[k]) /\ Unread
    BY <1>2 DEF AnswerInv
  <2>4. Answered(conn'[k])
    BY <1>5, <2>3 DEF Answered
  <2>5. client.pc # "off" /\ client.conn = k => Leftover(conn'[k], client)
    BY <1>2, <1>5, <2>3 DEF Unread, Leftover
  <2> QED BY <2>2, <2>4, <2>5
<1> QED BY <1>4, <1>5, <1>6, ServeKeepsAnswers

LEMMA ReadHeaderKeepsAnswers ==
  ASSUME TypeOK, AnswerInv, NEW t \in Threads, ReadHeader(t)
  PROVE  AnswerInv'
<1>1. PICK k : k = thread[t].conn
  OBVIOUS
<1>2. PICK c, h, part : c = conn[k] /\ h = thread[t] /\ part = Head(c.in)
  OBVIOUS
<1>3. /\ h.pc = "header" /\ thread[t].pc \in Serving /\ c.in # << >>
      /\ conn' = [conn EXCEPT ![k].in = Tail(@)]
      /\ UNCHANGED <<canRun, raced, client>>
  BY <1>1, <1>2 DEF ReadHeader, Serving
<1>4. PICK cmd \in Commands, stale \in Files :
        /\ part.item = NoItem => cmd = part.cmd
        /\ thread' = [thread EXCEPT ![t].cmd = cmd, ![t].pc = IF part.more THEN "payload" ELSE "process",
                        ![t].item = IF cmd = "GetFile" /\ ~part.more THEN stale ELSE NoItem]
  BY <1>1, <1>2 DEF ReadHeader
<1>5. c \in ConnTypes /\ c.state = "served"
  <2>1. Hosted
    BY DEF AnswerInv
  <2>2. k \in Active /\ conn[k].state = "served"
    BY <1>1, <1>3, <2>1, ServedBy
  <2> QED BY <1>2, <2>2 DEF TypeOK, Active
<1> DEFINE pc == IF part.more THEN "payload" ELSE "process"
           item == IF cmd = "GetFile" /\ ~part.more THEN stale ELSE NoItem
<1>6. Turns(t, pc, cmd, item)
  <2>1. thread \in [Threads -> ThreadTypes]
    BY DEF TypeOK
  <2> QED BY <1>4, <2>1 DEF Turns
<1>7. /\ pc = IF part.more THEN "payload" ELSE "process"
      /\ cmd # "GetFile" \/ part.more => item = NoItem
      /\ pc \in Serving
  BY DEF Serving
<1> HIDE DEF pc, item
<1>8. /\ thread'[t].pc = pc /\ thread'[t].conn = k
      /\ thread'[t].cmd = cmd /\ thread'[t].item = item
      /\ \A u \in Threads \ {t} : thread'[u] = thread[u]
  BY <1>1, <1>6, Turned
<1>9. PICK g : g = thread'[t]
  OBVIOUS
<1>10. /\ Head(c.in).item = NoItem => g.cmd = Head(c.in).cmd
       /\ g.pc = IF Head(c.in).more THEN "payload" ELSE "process"
       /\ g.cmd # "GetFile" \/ Head(c.in).more => g.item = NoItem
  BY <1>2, <1>4, <1>7, <1>8, <1>9
<1>11. ASSUME NEW d, NEW cl, d.state = "served", d.in = Tail(c.in), d.out = c.out,
              d.asked = c.asked, d.answered = c.answered, Sound(c, h, cl)
       PROVE  Sound(d, g, cl)
  BY <1>3, <1>5, <1>10, <1>11, HeaderSound
<1>12. \A d, cl : /\ d.state = "served" /\ d.in = Tail(conn[k].in) /\ d.out = conn[k].out
                  /\ d.asked = conn[k].asked /\ d.answered = conn[k].answered
                  /\ Sound(conn[k], thread[t], cl)
                  => Sound(d, thread'[t], cl)
  BY <1>2, <1>9, <1>11
<1>13. thread'[t].pc \in Serving \ {"writing"} /\ client' = client /\ canRun' = canRun /\ raced' = raced
  BY <1>3, <1>7, <1>8
<1> QED BY <1>1, <1>3, <1>8, <1>12, <1>13, ReadKeepsAnswers

LEMMA ReadBodyKeepsAnswers ==
  ASSUME TypeOK, AnswerInv, NEW t \in Threads, ReadBody(t)
  PROVE  AnswerInv'
<1>1. PICK k : k = thread[t].conn
  OBVIOUS
<1>2. PICK c, h : c = conn[k] /\ h = thread[t]
  OBVIOUS
<1>3. /\ h.pc = "body" /\ thread[t].pc \in Serving /\ c.in # << >>
      /\ conn' = [conn EXCEPT ![k].in = Tail(@)]
      /\ UNCHANGED <<canRun, raced, client>>
  BY <1>1, <1>2 DEF ReadBody, Serving
<1>4. thread' = [thread EXCEPT ![t].pc = "process", ![t].item = Head(c.in).item]
  BY <1>1, <1>2 DEF ReadBody
<1>5. c.state = "served"
  <2>1. Hosted
    BY DEF AnswerInv
  <2> QED BY <1>1, <1>2, <1>3, <2>1, ServedBy
<1>6. PICK item : item = Head(c.in).item
  OBVIOUS
<1>7. Turns(t, "process", thread[t].cmd, item)
  <2>1. thread \in [Threads -> ThreadTypes]
    BY DEF TypeOK
  <2> QED BY <1>4, <1>6, <2>1 DEF ThreadTypes, Turns
<1>8. /\ thread'[t].pc = "process" /\ thread'[t].conn = k
      /\ thread'[t].cmd = thread[t].cmd /\ thread'[t].item = item
      /\ \A u \in Threads \ {t} : thread'[u] = thread[u]
  BY <1>1, <1>7, Turned
<1>9. PICK g : g = thread'[t]
  OBVIOUS
<1>10. g.pc = "process" /\ g.cmd = h.cmd /\ g.item = Head(c.in).item
  BY <1>2, <1>6, <1>8, <1>9
<1>11. ASSUME NEW d, NEW cl, d.state = "served", d.in = Tail(c.in), d.out = c.out,
              d.asked = c.asked, d.answered = c.answered, Sound(c, h, cl)
       PROVE  Sound(d, g, cl)
  BY <1>3, <1>5, <1>10, <1>11, BodySound
<1>12. \A d, cl : /\ d.state = "served" /\ d.in = Tail(conn[k].in) /\ d.out = conn[k].out
                  /\ d.asked = conn[k].asked /\ d.answered = conn[k].answered
                  /\ Sound(conn[k], thread[t], cl)
                  => Sound(d, thread'[t], cl)
  BY <1>2, <1>9, <1>11
<1>13. thread'[t].pc \in Serving \ {"writing"} /\ client' = client /\ canRun' = canRun /\ raced' = raced
  BY <1>3, <1>8 DEF Serving
<1> QED BY <1>1, <1>3, <1>8, <1>12, <1>13, ReadKeepsAnswers

LEMMA CommandSound ==
  ASSUME NEW c, NEW h, NEW cl, Sound(c, h, cl), c.state = "served", h.pc = "process"
  PROVE  h.cmd # "NOP"
<1>1. PICK ping \in BOOLEAN, due \in Items \cup {NoItem}, cut \in BOOLEAN :
        Agreed(c, h, cl, ping, due, cut)
  BY DEF Sound
<1>2. h.cmd = "Ping" \/ (due \in Items /\ h.cmd = CommandFor(due))
  BY <1>1 DEF Agreed, Reading
<1> QED BY <1>2, Kinds

LEMMA ProcessCommandKeepsAnswers ==
  ASSUME TypeOK, AnswerInv, NEW t \in Threads, ProcessCommand(t)
  PROVE  AnswerInv'
<1>1. PICK k : k = thread[t].conn
  OBVIOUS
<1>2. PICK c, h, cl : c = conn[k] /\ h = thread[t] /\ cl = ClientOf(k)
  OBVIOUS
<1>3. /\ h.pc = "process" /\ thread[t].pc \in Serving
      /\ conn' = conn /\ client' = client /\ canRun' = canRun /\ raced' = raced
  BY <1>1, <1>2 DEF ProcessCommand, Serving
<1>4. c.state = "served" /\ cl \in ClientTypes /\ thread \in [Threads -> ThreadTypes]
  <2>1. Hosted
    BY DEF AnswerInv
  <2>2. cl \in ClientTypes
    BY <1>2, ClientOfTypes
  <2> QED BY <1>1, <1>2, <1>3, <2>1, <2>2, ServedBy DEF TypeOK
<1>5. CASE h.cmd = "NOP" /\ Goto(t, "ready")
  <2>1. /\ thread'[t].pc \in Serving /\ thread'[t].pc # "writing" /\ thread'[t].conn = k
        /\ \A u \in Threads \ {t} : thread'[u] = thread[u]
    BY <1>1, <1>5, Went DEF Serving
  <2>2. ~Sound(c, h, cl)
    BY <1>3, <1>4, <1>5, CommandSound
  <2>3. Sound(conn[k], thread[t], ClientOf(k)) => Sound(conn[k], thread'[t], ClientOf(k))
    BY <1>2, <2>2
  <2> QED BY <1>1, <1>3, <2>1, <2>3, TurnsKeepAnswers
<1>6. ASSUME NEW message,
             thread' = [thread EXCEPT ![t].pc = "write", ![t].left = message],
             message = Response(h.cmd, h.item)
               \/ (h.cmd = "GetFile" /\ message = Message(h.cmd, Failed, TRUE))
      PROVE  AnswerInv'
  <2>1. h \in ThreadTypes
    BY <1>2, <1>4
  <2>2. thread'[t] = [h EXCEPT !.pc = "write", !.left = message]
    BY <1>2, <1>4, <1>6
  <2>3. \A u \in Threads \ {t} : thread'[u] = thread[u]
    BY <1>4, <1>6
  <2>4. PICK g : g = thread'[t]
    OBVIOUS
  <2>5. g.pc = "write" /\ g.conn = h.conn /\ g.cmd = h.cmd /\ g.item = h.item /\ g.left = message
    BY <2>1, <2>2, <2>4 DEF ThreadTypes
  <2>6. Sound(c, h, cl) => Sound(c, g, cl)
    BY <1>3, <1>4, <1>6, <2>5, ResponseSound
  <2>7. Sound(conn[k], thread[t], ClientOf(k)) => Sound(conn[k], thread'[t], ClientOf(k))
    BY <1>2, <2>4, <2>6
  <2>8. thread'[t].pc \in Serving /\ thread'[t].pc # "writing" /\ thread'[t].conn = k
    BY <1>1, <1>2, <2>4, <2>5 DEF Serving
  <2> QED BY <1>1, <1>3, <2>3, <2>7, <2>8, TurnsKeepAnswers
<1>7. CASE thread' = [thread EXCEPT ![t].pc = "write", ![t].left = Response(h.cmd, h.item)]
  BY <1>6, <1>7
<1>8. CASE /\ h.cmd = "GetFile"
           /\ thread' = [thread EXCEPT ![t].pc = "write", ![t].left = Message(h.cmd, Failed, TRUE)]
  BY <1>6, <1>8
<1> QED BY <1>2, <1>5, <1>7, <1>8 DEF ProcessCommand

LEMMA WritePartKeepsAnswers ==
  ASSUME IInv, IInv', AnswerInv, NEW t \in Threads, WritePart(t)
  PROVE  AnswerInv'
<1>1. PICK k : k = thread[t].conn
  OBVIOUS
<1>2. PICK c, h, cl, left, d, g : /\ c = conn[k] /\ h = thread[t] /\ cl = ClientOf(k)
                                  /\ left = h.left /\ d = conn'[k] /\ g = thread'[t]
  OBVIOUS
<1>3. /\ h.pc = "writing" /\ thread[t].pc \in Serving
      /\ UNCHANGED <<canRun, raced, client>>
  BY <1>1, <1>2 DEF WritePart, Serving
<1>4. TypeOK /\ TypeOK' /\ Hosted
  BY DEF IInv, AnswerInv
<1>5. /\ k \in Active /\ k \in Connections
      /\ c.state = "served" /\ c.host = t /\ Host(k) = thread[t]
  BY <1>1, <1>2, <1>3, <1>4, ServedBy DEF Active
<1>6. /\ thread \in [Threads -> ThreadTypes] /\ conn \in [Connections -> ConnTypes]
      /\ h \in ThreadTypes /\ c \in ConnTypes /\ d \in ConnTypes /\ cl \in ClientTypes
      /\ left # << >>
  BY <1>2, <1>3, <1>4, <1>5, ClientOfTypes DEF TypeOK
<1> DEFINE done == Len(left) = 1
           ask == [cmd |-> h.cmd, item |-> h.item]
<1>7. /\ d = [c EXCEPT !.out = IF c.open THEN Append(@, Head(left)) ELSE @,
                       !.answered = IF done THEN Append(@, ask) ELSE @]
      /\ \A j \in Connections \ {k} : conn'[j] = conn[j]
  BY <1>1, <1>2, <1>5, <1>6 DEF WritePart
<1>8. /\ g = IF done THEN [Fresh EXCEPT !.pc = "ready", !.conn = k] ELSE [h EXCEPT !.pc = "write", !.left = Tail(left)]
      /\ \A u \in Threads \ {t} : thread'[u] = thread[u]
  BY <1>1, <1>2, <1>6 DEF WritePart
<1>9. /\ d.state = "served" /\ d.host = t /\ d.in = c.in /\ d.asked = c.asked
      /\ d.out \in {c.out, Append(c.out, Head(left))}
      /\ done => d.answered = Append(c.answered, ask)
      /\ ~done => d.answered = c.answered
  BY <1>5, <1>6, <1>7 DEF ConnTypes
<1>10. done => g.pc = "ready" /\ g.conn = k
  BY <1>8 DEF Fresh
<1>11. ~done => /\ g.pc = "write" /\ g.conn = k /\ g.cmd = h.cmd /\ g.item = h.item
                /\ g.left = Tail(left)
  BY <1>1, <1>2, <1>3, <1>6, <1>8 DEF ThreadTypes
<1>12. Sound(c, h, cl) => Fits(d, g, cl)
  BY <1>2, <1>3, <1>5, <1>6, <1>9, <1>10, <1>11, WriteFits
<1>13. ~raced => /\ canRun => Sound(conn'[k], thread'[t], ClientOf(k))
                 /\ Answered(conn'[k])
                 /\ client.pc # "off" /\ client.conn = k => Leftover(conn'[k], client)
  <2> SUFFICES ASSUME ~raced
               PROVE  /\ Sound(conn'[k], thread'[t], ClientOf(k))
                      /\ Answered(conn'[k])
                      /\ client.pc # "off" /\ client.conn = k => Leftover(conn'[k], client)
    OBVIOUS
  <2>0. Kept(k)
    BY <1>2, <1>3, <1>5 DEF Kept
  <2>1. Sound(conn[k], Host(k), ClientOf(k))
    BY <1>5, <2>0 DEF AnswerInv
  <2>2. Sound(c, h, cl)
    BY <1>2, <1>5, <2>1
  <2>3. Fits(d, g, cl)
    BY <1>12, <2>2
  <2>4. client.pc # "off" /\ client.conn = k => cl = client
    BY <1>2, <1>4, ClientOfTypes
  <2> QED BY <1>2, <2>3, <2>4 DEF Fits
<1>14. thread'[t].pc \in Serving /\ thread'[t].pc # "writing" /\ thread'[t].conn = k
  BY <1>2, <1>10, <1>11 DEF Serving
<1>15. conn'[k].state = "served" /\ conn'[k].host = t
  BY <1>2, <1>9
<1> QED BY <1>1, <1>3, <1>4, <1>7, <1>8, <1>13, <1>14, <1>15, ServeKeepsAnswers

LEMMA WriteMessageKeepsAnswers ==
  ASSUME IInv, AnswerInv, NEW t \in Threads, WriteMessage(t)
  PROVE  AnswerInv'
<1>1. /\ thread[t].pc = "write" /\ thread[t].pc \in Serving
      /\ thread \in [Threads -> ThreadTypes] /\ TypeOK
      /\ UNCHANGED <<canRun, raced, conn, client>>
  BY DEF IInv, TypeOK, WriteMessage, Serving
<1>2. CASE canRun /\ Goto(t, "writing")
  BY <1>1, <1>2, HandleKeepsAnswers DEF Serving
<1>3. CASE ~(canRun /\ Goto(t, "writing"))
  <2>1. PICK k : k = thread[t].conn
    OBVIOUS
  <2>2. /\ ~canRun
        /\ thread' = [thread EXCEPT ![t] = [Fresh EXCEPT !.pc = "ready", !.conn = k]]
    BY <1>3, <2>1 DEF WriteMessage
  <2>3. /\ thread'[t] = [Fresh EXCEPT !.pc = "ready", !.conn = k]
        /\ \A u \in Threads \ {t} : thread'[u] = thread[u]
    BY <1>1, <2>2
  <2>4. thread'[t].pc \in Serving /\ thread'[t].pc # "writing" /\ thread'[t].conn = k
    BY <2>3 DEF Fresh, Serving
  <2> QED BY <1>1, <2>1, <2>2, <2>3, <2>4, TurnsKeepAnswers
<1> QED BY <1>2, <1>3

(* The thread takes a connection from its queue. *)
LEMMA AcceptKeepsHosts ==
  ASSUME TypeOK, Hosted, Untouched, NEW t \in Threads, NEW k \in Connections, Accept(t, k)
  PROVE  /\ Hosted' /\ Untouched' /\ Active' = Active
         /\ k \in Active /\ conn[k].host = t
         /\ conn'[k].state = "served" /\ SameStreams(conn[k], conn'[k])
         /\ thread'[t].pc = "ready"
         /\ \A u \in Threads \ {t} : thread'[u] = thread[u]
         /\ \A j \in Connections \ {k} : conn'[j] = conn[j]
         /\ \A j \in Active : conn[j].state = "served" => conn[j].host # t
<1>1. thread \in [Threads -> ThreadTypes] /\ conn \in [Connections -> ConnTypes]
  BY DEF TypeOK
<1>2. thread[t].pc = "accepting" /\ conn[k].state = "queued" /\ conn[k].host = t
  BY DEF Accept
<1>3. thread'[t] = [thread[t] EXCEPT !.pc = "ready", !.conn = k]
  BY <1>1 DEF Accept
<1>4. conn'[k] = [conn[k] EXCEPT !.state = "served"]
  BY <1>1 DEF Accept
<1>5. /\ \A u \in Threads \ {t} : thread'[u] = thread[u]
      /\ \A j \in Connections \ {k} : conn'[j] = conn[j]
  BY <1>1 DEF Accept
<1>6. thread'[t].pc = "ready" /\ thread'[t].conn = k
  BY <1>1, <1>3 DEF ThreadTypes
<1>7. conn'[k].state = "served" /\ conn'[k].host = t /\ SameStreams(conn[k], conn'[k])
  BY <1>1, <1>2, <1>4 DEF ConnTypes, SameStreams
<1>8. Active' = Active /\ k \in Active
  BY <1>2, <1>5, <1>7 DEF Active
<1>9. \A j \in Connections : conn[j].state = "served" =>
        conn[j].host # t /\ conn[j].host \in Threads /\ j # k
  BY <1>2 DEF Hosted, Active, Host, Serving, Listening
<1>10. \A u \in Listening : u \in Listening'
  BY <1>5, <1>6 DEF Listening
<1>11. \A j \in Active : conn'[j].host \in Listening'
  BY <1>5, <1>7, <1>8, <1>10, <1>2 DEF Hosted, Active
<1>12. ASSUME NEW j \in Connections, conn'[j].state = "served"
       PROVE  Host(j)'.pc \in Serving /\ Host(j)'.conn = j
  <2>1. CASE j = k
    BY <1>6, <1>7, <2>1 DEF Host, Serving
  <2>2. CASE j # k
    <3>1. conn'[j] = conn[j]
      BY <1>5, <2>2
    <3>2. conn[j].host # t /\ conn[j].host \in Threads
      BY <1>9, <1>12, <3>1
    <3>3. Host(j)' = Host(j)
      BY <1>5, <3>1, <3>2 DEF Host
    <3> QED BY <1>12, <3>1, <3>3 DEF Hosted
  <2> QED BY <2>1, <2>2
<1>13. ASSUME NEW u \in Threads, thread'[u].pc \in Serving
       PROVE  conn'[thread'[u].conn].state = "served" /\ conn'[thread'[u].conn].host = u
  <2>1. CASE u = t
    BY <1>6, <1>7, <2>1
  <2>2. CASE u # t
    <3>1. thread'[u] = thread[u]
      BY <1>5, <2>2
    <3>2. conn[thread[u].conn].state = "served" /\ conn[thread[u].conn].host = u
      BY <1>13, <3>1 DEF Hosted
    <3>3. thread[u].conn \in Connections /\ thread[u].conn # k
      BY <1>2, <1>13, <3>1, <3>2 DEF TypeOK
    <3> QED BY <1>5, <3>1, <3>2, <3>3
  <2> QED BY <2>1, <2>2
<1>14. Hosted'
  BY <1>8, <1>11, <1>12, <1>13 DEF Hosted
<1>15. Untouched'
  <2>1. \A j \in Connections \ Active : conn'[j] = conn[j]
    BY <1>5, <1>8
  <2>2. \A j \in Connections : conn'[j].state = "unused" => conn[j].state = "unused"
    BY <1>5, <1>7
  <2>3. client' = client /\ (client.pc # "off" => client.conn \in Connections)
    BY DEF Accept, TypeOK
  <2> QED BY <1>8, <2>1, <2>2, <2>3 DEF Untouched
<1> QED BY <1>2, <1>5, <1>6, <1>7, <1>8, <1>9, <1>14, <1>15 DEF Active

LEMMA AcceptKeepsAnswers ==
  ASSUME TypeOK, AnswerInv, NEW t \in Threads, NEW k \in Connections, Accept(t, k)
  PROVE  AnswerInv'
<1>1. Hosted /\ Untouched /\ conn[k].state = "queued"
      /\ UNCHANGED <<canRun, raced, client>>
  BY DEF AnswerInv, Accept
<1>2. /\ Hosted' /\ Untouched' /\ Active' = Active
      /\ k \in Active /\ conn[k].host = t
      /\ conn'[k].state = "served" /\ SameStreams(conn[k], conn'[k])
      /\ thread'[t].pc = "ready"
      /\ \A u \in Threads \ {t} : thread'[u] = thread[u]
      /\ \A j \in Connections \ {k} : conn'[j] = conn[j]
      /\ \A j \in Active : conn[j].state = "served" => conn[j].host # t
  BY <1>1, AcceptKeepsHosts
<1>3. SUFFICES ASSUME ~raced
               PROVE  /\ \A j \in Active : Kept(j)' => Sound(conn[j], Host(j), ClientOf(j))'
                      /\ \A j \in Connections : Answered(conn'[j])
                      /\ Unread'
                      /\ Got(client)
  BY <1>1, <1>2 DEF AnswerInv
<1>4. /\ \A j \in Active : Kept(j) => Sound(conn[j], Host(j), ClientOf(j))
      /\ \A j \in Connections : Answered(conn[j])
      /\ Unread /\ Got(client)
  BY <1>3 DEF AnswerInv
<1>5. ASSUME NEW j \in Active, Kept(j)' PROVE Sound(conn[j], Host(j), ClientOf(j))'
  <2>0. ClientOf(j)' = ClientOf(j)
    BY <1>1 DEF ClientOf
  <2>1. Sound(conn[j], Host(j), ClientOf(j))
    <3>1. CASE canRun
      BY <1>4, <1>5, <3>1 DEF Kept
    <3>2. CASE ~canRun
      <4>1. conn'[j].state = "served" /\ Host(j)'.pc = "writing"
        BY <1>1, <1>5, <3>2 DEF Kept
      <4>2. j # k
        <5>1. conn'[k].host = t
          BY DEF Accept, TypeOK, ConnTypes
        <5> QED BY <1>2, <4>1, <5>1 DEF Host
      <4>3. conn'[j] = conn[j] /\ conn[j].host # t /\ conn[j].host \in Threads
        BY <1>1, <1>2, <1>5, <4>1, <4>2 DEF Active, Hosted, Listening
      <4>4. Host(j)' = Host(j)
        BY <1>2, <4>3 DEF Host
      <4> QED BY <1>4, <1>5, <4>1, <4>3, <4>4 DEF Kept
    <3> QED BY <3>1, <3>2
  <2>2. CASE j = k
    <3>1. PICK c, h, d, g, cl : /\ c = conn[k] /\ h = Host(k) /\ d = conn'[k]
                                /\ g = thread'[t] /\ cl = ClientOf(k)
      OBVIOUS
    <3>2. d.state = "served" /\ SameStreams(c, d) /\ g.pc = "ready" /\ c.state = "queued"
      BY <1>1, <1>2, <3>1
    <3>3. Sound(c, h, cl)
      BY <2>1, <2>2, <3>1
    <3>4. Sound(d, g, cl)
      BY <3>2, <3>3, AcceptSound
    <3>5. Host(k)' = thread'[t]
      <4>1. conn'[k].host = t
        BY DEF Accept, TypeOK, ConnTypes
      <4> QED BY <4>1 DEF Host
    <3> QED BY <2>0, <2>2, <3>1, <3>4, <3>5
  <2>3. CASE j # k
    <3>1. conn'[j] = conn[j] /\ (conn[j].state = "served" => conn[j].host # t)
      BY <1>2, <1>5, <2>3 DEF Active
    <3> QED BY <1>1, <1>2, <1>5, <2>0, <2>1, <3>1, OthersSound
  <2> QED BY <2>2, <2>3
<1>6. \A j \in Connections : Answered(conn'[j])
  <2>1. Answered(conn'[k])
    BY <1>2, <1>4 DEF Answered, SameStreams
  <2> QED BY <1>2, <1>4, <2>1
<1>7. Unread'
  <2>1. SUFFICES ASSUME client.pc # "off" PROVE Leftover(conn'[client.conn], client)
    BY <1>1 DEF Unread
  <2>2. client.conn \in Connections /\ Leftover(conn[client.conn], client)
    BY <1>4, <2>1 DEF TypeOK, Unread
  <2>3. CASE client.conn = k
    <3>1. Leftover(conn[k], client) /\ conn'[k].out = conn[k].out /\ conn[k].state # "closed"
      BY <1>1, <1>2, <2>2, <2>3 DEF SameStreams
    <3> QED BY <2>3, <3>1 DEF Leftover
  <2>4. CASE client.conn # k
    BY <1>2, <2>2, <2>4
  <2> QED BY <2>3, <2>4
<1> QED BY <1>4, <1>5, <1>6, <1>7

(* The thread drops its client and what waits in its queue. *)
Dropped(t) == {k \in Connections : conn[k].host = t /\ conn[k].state \in {"queued", "served"}}

LEMMA Drops ==
  ASSUME TypeOK, NEW t \in Threads, Leave(t)
  PROVE  /\ \A k \in Dropped(t) :
              /\ conn'[k].state = "closed" /\ conn'[k].out = conn[k].out
              /\ conn'[k].in = << >> /\ conn'[k].asked = << >> /\ conn'[k].answered = << >>
         /\ \A k \in Connections \ Dropped(t) : conn'[k] = conn[k]
         /\ thread'[t].pc = "loop"
         /\ \A u \in Threads \ {t} : thread'[u] = thread[u]
<1>1. thread \in [Threads -> ThreadTypes] /\ conn \in [Connections -> ConnTypes]
  BY DEF TypeOK
<1>2. ASSUME NEW k \in Dropped(t)
      PROVE  /\ conn'[k].state = "closed" /\ conn'[k].out = conn[k].out
             /\ conn'[k].in = << >> /\ conn'[k].asked = << >> /\ conn'[k].answered = << >>
  <2>1. conn'[k] = [Unused EXCEPT !.state = "closed", !.host = t,
                                  !.open = conn[k].open, !.out = conn[k].out]
    BY DEF Leave, Dropped
  <2> QED BY <2>1 DEF Unused
<1>3. \A k \in Connections \ Dropped(t) : conn'[k] = conn[k]
  BY DEF Leave, Dropped
<1>4. thread'[t].pc = "loop"
  BY <1>1 DEF Leave, Fresh
<1>5. \A u \in Threads \ {t} : thread'[u] = thread[u]
  BY <1>1 DEF Leave
<1> QED BY <1>2, <1>3, <1>4, <1>5

LEMMA LeaveKeepsHosts ==
  ASSUME TypeOK, Hosted, Untouched, NEW t \in Threads, Leave(t)
  PROVE  Hosted' /\ Untouched' /\ Active' = Active \ Dropped(t)
<1>1. /\ \A k \in Dropped(t) :
           /\ conn'[k].state = "closed" /\ conn'[k].out = conn[k].out
           /\ conn'[k].in = << >> /\ conn'[k].asked = << >> /\ conn'[k].answered = << >>
      /\ \A k \in Connections \ Dropped(t) : conn'[k] = conn[k]
      /\ thread'[t].pc = "loop"
      /\ \A u \in Threads \ {t} : thread'[u] = thread[u]
  BY Drops
<1>2. Dropped(t) \subseteq Active /\ Active \subseteq Connections
  BY DEF Dropped, Active
<1>3. Active' = Active \ Dropped(t)
  BY <1>1, <1>2 DEF Active
<1>4. \A k \in Active' : conn'[k] = conn[k] /\ conn[k].host # t /\ conn[k].host \in Listening
  BY <1>1, <1>3 DEF Hosted, Active, Dropped
<1>5. \A k \in Active' : conn'[k].host \in Listening' /\ Host(k)' = Host(k)
  <2>1. \A u \in Listening \ {t} : u \in Listening' /\ thread'[u] = thread[u]
    BY <1>1 DEF Listening
  <2> QED BY <1>4, <2>1 DEF Host
<1>6. \A k \in Connections : conn'[k].state = "served" =>
        Host(k)'.pc \in Serving /\ Host(k)'.conn = k
  <2>1. \A k \in Connections : conn'[k].state = "served" => k \in Active'
    BY DEF Active
  <2> QED BY <1>2, <1>3, <1>4, <1>5, <2>1 DEF Hosted
<1>7. ASSUME NEW u \in Threads, thread'[u].pc \in Serving
      PROVE  conn'[thread'[u].conn].state = "served" /\ conn'[thread'[u].conn].host = u
  <2>1. u # t
    BY <1>1, <1>7 DEF Serving
  <2>2. thread'[u] = thread[u]
    BY <1>1, <2>1
  <2>3. conn[thread[u].conn].state = "served" /\ conn[thread[u].conn].host = u
    BY <1>7, <2>2 DEF Hosted
  <2>4. thread[u].conn \in Connections \ Dropped(t)
    BY <1>7, <2>1, <2>2, <2>3 DEF TypeOK, Dropped
  <2> QED BY <1>1, <2>2, <2>3, <2>4
<1>8. Hosted'
  BY <1>5, <1>6, <1>7 DEF Hosted
<1>9. Untouched'
  <2>1. ASSUME NEW k \in Connections, k \notin Active'
        PROVE  /\ conn'[k].in = << >> /\ conn'[k].asked = << >> /\ conn'[k].answered = << >>
               /\ conn'[k].state = "unused" => conn'[k].out = << >>
    <3>1. CASE k \in Dropped(t)
      BY <1>1, <3>1
    <3>2. CASE k \notin Dropped(t)
      BY <1>1, <1>3, <2>1, <3>2 DEF Untouched
    <3> QED BY <3>1, <3>2
  <2>2. client' = client /\ (client.pc # "off" => client.conn \in Connections)
    BY DEF Leave, TypeOK
  <2>3. \A k \in Connections : conn'[k].state = "unused" => conn[k].state = "unused"
    BY <1>1
  <2> QED BY <2>1, <2>2, <2>3 DEF Untouched
<1> QED BY <1>3, <1>8, <1>9

LEMMA LeaveKeepsAnswers ==
  ASSUME TypeOK, AnswerInv, NEW t \in Threads, Leave(t)
  PROVE  AnswerInv'
<1>1. Hosted /\ Untouched /\ UNCHANGED <<canRun, raced, client>>
  BY DEF AnswerInv, Leave
<1>2. Hosted' /\ Untouched' /\ Active' = Active \ Dropped(t)
  BY <1>1, LeaveKeepsHosts
<1>3. /\ \A k \in Dropped(t) :
           /\ conn'[k].state = "closed" /\ conn'[k].out = conn[k].out
           /\ conn'[k].in = << >> /\ conn'[k].asked = << >> /\ conn'[k].answered = << >>
      /\ \A k \in Connections \ Dropped(t) : conn'[k] = conn[k]
      /\ \A u \in Threads \ {t} : thread'[u] = thread[u]
  BY Drops
<1>4. SUFFICES ASSUME ~raced
               PROVE  /\ \A j \in Active' : Kept(j)' => Sound(conn[j], Host(j), ClientOf(j))'
                      /\ \A j \in Connections : Answered(conn'[j])
                      /\ Unread'
                      /\ Got(client)
  BY <1>1, <1>2 DEF AnswerInv
<1>5. /\ \A j \in Active : Kept(j) => Sound(conn[j], Host(j), ClientOf(j))
      /\ \A j \in Connections : Answered(conn[j])
      /\ Unread /\ Got(client)
  BY <1>4 DEF AnswerInv
<1>6. ASSUME NEW j \in Active', Kept(j)' PROVE Sound(conn[j], Host(j), ClientOf(j))'
  <2>1. j \in Active /\ j \in Connections \ Dropped(t)
    BY <1>2, <1>6 DEF Active
  <2>2. conn'[j] = conn[j] /\ ClientOf(j)' = ClientOf(j) /\ conn[j].host # t
    BY <1>1, <1>3, <2>1 DEF ClientOf, Dropped, Active
  <2>3. Host(j)' = Host(j)
    BY <1>1, <1>3, <2>1, <2>2 DEF Host, Hosted, Listening
  <2>4. Kept(j)
    BY <1>1, <1>6, <2>2, <2>3 DEF Kept
  <2>5. Sound(conn[j], Host(j), ClientOf(j))
    BY <1>5, <2>1, <2>4
  <2> QED BY <1>1, <1>3, <2>1, <2>2, <2>5, OthersSound
<1>7. \A j \in Connections : Answered(conn'[j])
  <2>1. \A j \in Dropped(t) : Answered(conn'[j])
    <3> SUFFICES ASSUME NEW j \in Dropped(t) PROVE Answered(conn'[j])
      OBVIOUS
    <3>1. PICK d : d = conn'[j] /\ d.asked = << >> /\ d.answered = << >>
      BY <1>3
    <3>2. Len(d.asked) = 0 /\ Len(d.answered) = 0 /\ DOMAIN d.answered = {}
      BY <3>1
    <3> QED BY <3>1, <3>2 DEF Answered
  <2> QED BY <1>3, <1>5, <2>1
<1>8. Unread'
  <2>1. SUFFICES ASSUME client.pc # "off" PROVE Leftover(conn'[client.conn], client)
    BY <1>1 DEF Unread
  <2>2. client.conn \in Connections /\ Leftover(conn[client.conn], client)
    BY <1>5, <2>1 DEF TypeOK, Unread
  <2>3. CASE client.conn \in Dropped(t)
    BY <1>3, <2>2, <2>3 DEF Leftover
  <2>4. CASE client.conn \notin Dropped(t)
    BY <1>3, <2>2, <2>4
  <2> QED BY <2>3, <2>4
<1> QED BY <1>5, <1>6, <1>7, <1>8

-----------------------------------------------------------------------------
(* Steps of the client: its connection and what it holds change.  The two   *)
(* facts about the end of the stream need not hold once the connection is   *)
(* closed.                                                                  *)
LEMMA ClientKeepsAnswers ==
  ASSUME TypeOK, AnswerInv, NEW k, k = client.conn, client.pc # "off",
         NEW cm, cm = IF client'.pc # "off" THEN client' ELSE Off,
         client'.pc # "off" => client'.conn = k,
         thread' = thread, canRun' = canRun, raced' = raced,
         \A j \in Connections \ {k} : conn'[j] = conn[j],
         conn'[k].state = conn[k].state, conn'[k].host = conn[k].host,
         k \notin Active => SameButOut(conn[k], conn'[k]),
         ~raced => /\ Kept(k) /\ k \in Active => Sound(conn'[k], Host(k), cm)
                   /\ Answered(conn'[k])
                   /\ client'.pc # "off" => Leftover(conn'[k], client')
                   /\ Got(client')
  PROVE  AnswerInv'
<1>1. Hosted /\ Untouched /\ k \in Connections /\ conn[k].state # "unused"
  BY DEF AnswerInv, TypeOK, Untouched
<1>2. \A j \in Connections : conn'[j].state = conn[j].state /\ conn'[j].host = conn[j].host
  BY <1>1
<1>3. Active' = Active
  BY <1>2 DEF Active
<1>4. Listening' = Listening
  BY DEF Listening
<1>5. \A j \in Connections : Host(j)' = Host(j)
  BY <1>2 DEF Host
<1>6. Hosted'
  <2>1. \A j \in Active' : conn'[j].host \in Listening'
    BY <1>1, <1>2, <1>3, <1>4 DEF Hosted, Active
  <2>2. \A j \in Connections : conn'[j].state = "served" =>
          Host(j)'.pc \in Serving /\ Host(j)'.conn = j
    BY <1>1, <1>2, <1>5 DEF Hosted
  <2>3. ASSUME NEW u \in Threads, thread'[u].pc \in Serving
        PROVE  conn'[thread'[u].conn].state = "served" /\ conn'[thread'[u].conn].host = u
    <3>1. thread'[u] = thread[u] /\ thread[u].conn \in Connections
      BY <2>3 DEF TypeOK
    <3>2. conn[thread[u].conn].state = "served" /\ conn[thread[u].conn].host = u
      BY <1>1, <2>3, <3>1 DEF Hosted
    <3> QED BY <1>2, <3>1, <3>2
  <2> QED BY <2>1, <2>2, <2>3 DEF Hosted
<1>7. Untouched'
  <2>1. ASSUME NEW j \in Connections, j \notin Active'
        PROVE  /\ conn'[j].in = << >> /\ conn'[j].asked = << >> /\ conn'[j].answered = << >>
               /\ conn'[j].state = "unused" => conn'[j].out = << >>
    <3>1. CASE j = k
      BY <1>1, <1>2, <1>3, <2>1, <3>1 DEF Untouched, SameButOut
    <3>2. CASE j # k
      BY <1>1, <1>3, <2>1, <3>2 DEF Untouched
    <3> QED BY <3>1, <3>2
  <2>2. client'.pc # "off" => conn'[client'.conn].state # "unused"
    BY <1>1
  <2> QED BY <2>1, <2>2 DEF Untouched
<1>8. SUFFICES ASSUME ~raced
               PROVE  /\ \A j \in Active : Kept(j)' => Sound(conn[j], Host(j), ClientOf(j))'
                      /\ \A j \in Connections : Answered(conn'[j])
                      /\ Unread'
                      /\ Got(client')
  BY <1>3, <1>6, <1>7 DEF AnswerInv
<1>9. ASSUME NEW j \in Active, Kept(j)' PROVE Sound(conn[j], Host(j), ClientOf(j))'
  <2>1. j \in Connections
    BY DEF Active
  <2>0. Kept(j)
    BY <1>2, <1>5, <1>9, <2>1 DEF Kept
  <2>2. CASE j = k
    <3>1. ClientOf(j)' = cm
      BY <2>2 DEF ClientOf
    <3>2. Sound(conn'[k], Host(k), cm)
      BY <1>8, <1>9, <2>0, <2>2
    <3> QED BY <1>5, <2>1, <2>2, <3>1, <3>2
  <2>3. CASE j # k
    <3>1. ClientOf(j)' = ClientOf(j)
      BY <2>3 DEF ClientOf
    <3>2. Sound(conn[j], Host(j), ClientOf(j))
      BY <1>8, <1>9, <2>0 DEF AnswerInv
    <3>3. conn'[j] = conn[j] /\ Host(j)' = Host(j)
      BY <1>5, <2>1, <2>3
    <3> QED BY <3>1, <3>2, <3>3
  <2> QED BY <2>2, <2>3
<1>10. \A j \in Connections : Answered(conn'[j])
  BY <1>8 DEF AnswerInv
<1>11. Unread'
  BY <1>8 DEF Unread
<1> QED BY <1>8, <1>9, <1>10, <1>11

(* What holds of the connection of a client before its step. *)
LEMMA ClientHas ==
  ASSUME TypeOK, AnswerInv, NEW k, k = client.conn, client.pc # "off"
  PROVE  /\ k \in Connections /\ conn[k].state # "unused" /\ client \in ClientTypes
         /\ conn \in [Connections -> ConnTypes] /\ conn[k] \in ConnTypes
         /\ k \in Active <=> conn[k].state # "closed"
         /\ ~raced => /\ Kept(k) /\ k \in Active => Sound(conn[k], Host(k), client)
                      /\ Answered(conn[k])
                      /\ Leftover(conn[k], client)
                      /\ Got(client)
<1>1. k \in Connections /\ conn[k].state # "unused" /\ conn[k] \in ConnTypes
      /\ client \in ClientTypes /\ conn \in [Connections -> ConnTypes]
  BY DEF AnswerInv, TypeOK, Untouched
<1>2. k \in Active <=> conn[k].state # "closed"
  BY <1>1 DEF Active, ConnTypes
<1>3. ClientOf(k) = client
  BY DEF ClientOf
<1>4. ~raced => /\ Kept(k) /\ k \in Active => Sound(conn[k], Host(k), ClientOf(k))
                /\ Answered(conn[k]) /\ Leftover(conn[k], client) /\ Got(client)
  BY <1>1 DEF AnswerInv, Unread
<1> QED BY <1>1, <1>2, <1>3, <1>4

LEMMA CallsKeepAnswers ==
  ASSUME TypeOK, AnswerInv, CallReturns \/ CallFails \/ \E item \in Items : Ask(item)
  PROVE  AnswerInv'
<1>1. PICK k, c, h, cm : k = client.conn /\ c = conn[k] /\ h = Host(k) /\ cm = client'
  OBVIOUS
<1>2. client.pc # "off" /\ UNCHANGED <<thread, canRun, raced, conn>>
  BY DEF CallReturns, CallFails, Ask
<1>3. /\ k \in Connections /\ conn[k].state # "unused" /\ client \in ClientTypes
      /\ conn \in [Connections -> ConnTypes] /\ conn[k] \in ConnTypes
      /\ k \in Active <=> conn[k].state # "closed"
      /\ ~raced => /\ Kept(k) /\ k \in Active => Sound(conn[k], Host(k), client)
                   /\ Answered(conn[k])
                   /\ Leftover(conn[k], client)
                   /\ Got(client)
  BY <1>1, <1>2, ClientHas
<1>4. /\ cm.pc # "off" /\ cm.conn = k
      /\ Got(client) => Got(cm)
      /\ c.state # "closed" => \/ client.pc = "drain" /\ cm.pc = "connected"
                               \/ /\ client.pc = "connected" /\ cm.pc = "send"
                                  /\ cm.item \in Items /\ cm.left = Request(cm.item)
      /\ cm.pc \in {"send", "connected"}
  <2>1. CASE CallReturns
    <3>1. client.pc = "drain" /\ client' = [client EXCEPT !.pc = "connected", !.item = NoItem]
      BY <2>1 DEF CallReturns
    <3>2. cm.pc = "connected" /\ cm.conn = k /\ cm.got = client.got
      BY <1>1, <1>3, <3>1 DEF ClientTypes
    <3> QED BY <3>1, <3>2 DEF Got
  <2>2. CASE CallFails
    <3>1. /\ c.state = "closed"
          /\ client' = [client EXCEPT !.pc = "connected", !.item = NoItem, !.left = << >>]
      BY <1>1, <2>2 DEF CallFails
    <3>2. cm.pc = "connected" /\ cm.conn = k /\ cm.got = client.got
      BY <1>1, <1>3, <3>1 DEF ClientTypes
    <3> QED BY <3>1, <3>2 DEF Got
  <2>3. ASSUME NEW item \in Items, Ask(item)
        PROVE  /\ client.pc = "connected" /\ cm.pc = "send" /\ cm.conn = k
               /\ cm.item \in Items /\ cm.left = Request(cm.item) /\ Got(cm)
    <3>1. /\ client.pc = "connected"
          /\ client' = [Send(Request(item), item) EXCEPT !.got = Off.got]
      BY <2>3 DEF Ask
    <3>2. /\ cm.pc = "send" /\ cm.conn = k /\ cm.item = item /\ cm.left = Request(item)
          /\ cm.got = <<NoItem, NoItem>>
      BY <1>1, <1>3, <3>1 DEF ClientTypes, Send, Off
    <3> QED BY <3>1, <3>2 DEF Got
  <2> QED BY <2>1, <2>2, <2>3
<1>5. ~raced => /\ Kept(k) /\ k \in Active => Sound(conn'[k], Host(k), cm)
                /\ Answered(conn'[k])
                /\ client'.pc # "off" => Leftover(conn'[k], client')
                /\ Got(client')
  <2> SUFFICES ASSUME ~raced
               PROVE  /\ Kept(k) /\ k \in Active => Sound(c, h, cm)
                      /\ Answered(c) /\ Leftover(c, cm) /\ Got(cm)
    BY <1>1, <1>2
  <2>1. Answered(c) /\ Leftover(c, client) /\ Got(cm)
    BY <1>1, <1>3, <1>4
  <2>2. Leftover(c, cm)
    BY <1>4, <2>1 DEF Leftover
  <2>3. ASSUME Kept(k), k \in Active PROVE Sound(c, h, cm)
    <3>1. Sound(c, h, client) /\ c.state # "closed"
      BY <1>1, <1>3, <2>3
    <3> QED BY <1>4, <3>1, ReturnSound
  <2> QED BY <2>1, <2>2, <2>3
<1>6. cm = IF client'.pc # "off" THEN client' ELSE Off
  BY <1>1, <1>4
<1>7. SameButOut(conn[k], conn'[k]) /\ conn'[k].host = conn[k].host /\ conn'[k].state = conn[k].state
  BY <1>2 DEF SameButOut
<1>8. client'.conn = k /\ \A j \in Connections \ {k} : conn'[j] = conn[j]
  BY <1>1, <1>2, <1>4
<1> QED BY <1>1, <1>2, <1>5, <1>6, <1>7, <1>8, ClientKeepsAnswers

LEMMA StillAnswered ==
  ASSUME NEW c \in ConnTypes, NEW d, NEW e \in Asks, Answered(c), d.answered = c.answered,
         d.asked \in {c.asked, Append(c.asked, e)}
  PROVE  Answered(d)
<1>1. CASE d.asked = c.asked
  BY <1>1 DEF Answered
<1>2. CASE d.asked = Append(c.asked, e)
  <2>1. c.asked \in Seq(Asks) /\ c.answered \in Seq(Asks)
    BY DEF ConnTypes
  <2>2. /\ Len(d.asked) = Len(c.asked) + 1
        /\ \A i \in 1 .. Len(c.asked) : d.asked[i] = c.asked[i]
    BY <1>2, <2>1, AskedMore
  <2>3. /\ Len(c.answered) \in Nat /\ Len(c.asked) \in Nat
        /\ DOMAIN c.answered = 1 .. Len(c.answered)
    BY <2>1
  <2>4. Len(c.answered) <= Len(c.asked) /\ \A i \in DOMAIN c.answered : c.answered[i] = c.asked[i]
    BY DEF Answered
  <2>5. \A i \in DOMAIN c.answered : i \in 1 .. Len(c.asked)
    BY <2>3, <2>4
  <2>6. \A i \in DOMAIN c.answered : c.answered[i] = d.asked[i]
    BY <2>2, <2>4, <2>5
  <2>7. Len(c.answered) <= Len(d.asked)
    BY <2>2, <2>3, <2>4
  <2> QED BY <2>6, <2>7 DEF Answered
<1> QED BY <1>1, <1>2

LEMMA ClientWritesKeepsAnswers ==
  ASSUME TypeOK, AnswerInv, ClientWrites
  PROVE  AnswerInv'
<1>1. PICK k, c, d, h, cl, cm : /\ k = client.conn /\ c = conn[k] /\ d = conn'[k]
                                /\ h = Host(k) /\ cl = client /\ cm = client'
  OBVIOUS
<1>2. cl.pc = "send" /\ client.pc # "off" /\ c.state # "closed"
      /\ UNCHANGED <<thread, canRun, raced>>
  BY <1>1 DEF ClientWrites
<1>3. /\ k \in Connections /\ cl \in ClientTypes
      /\ conn \in [Connections -> ConnTypes] /\ c \in ConnTypes
      /\ k \in Active
      /\ ~raced => /\ Kept(k) => Sound(c, h, cl)
                   /\ Answered(c) /\ Leftover(c, cl) /\ Got(cl)
  BY <1>1, <1>2, ClientHas
<1>4. cl.left # << >> /\ cl.left \in Seq(Parts)
  BY <1>1, <1>2, <1>3 DEF TypeOK, ClientTypes
<1>5. PICK part, e, done : /\ part = Head(cl.left) /\ done = (Len(cl.left) = 1)
                           /\ e = [cmd |-> part.cmd, item |-> part.item]
  OBVIOUS
<1>6. part \in Parts /\ e \in Asks
  BY <1>4, <1>5, MessageRest DEF Parts, Asks
<1>7. /\ conn' = [conn EXCEPT ![k].in = Append(@, part),
                              ![k].asked = IF done THEN Append(@, e) ELSE @]
      /\ client' = [cl EXCEPT !.left = Tail(@),
                      !.pc = IF ~done THEN "send" ELSE IF cl.item = NoItem THEN "drain" ELSE "wait"]
  BY <1>1, <1>5 DEF ClientWrites
<1>8. /\ d = [c EXCEPT !.in = Append(@, part), !.asked = IF done THEN Append(@, e) ELSE @]
      /\ \A j \in Connections \ {k} : conn'[j] = conn[j]
  BY <1>1, <1>3, <1>7
<1>9. /\ d.state = c.state /\ d.host = c.host /\ d.in = Append(c.in, part)
      /\ d.out = c.out /\ d.answered = c.answered
      /\ done => d.asked = Append(c.asked, e)
      /\ ~done => d.asked = c.asked
  BY <1>3, <1>8 DEF ConnTypes
<1>10. /\ cm.item = cl.item /\ cm.left = Tail(cl.left) /\ cm.conn = k /\ cm.got = cl.got
       /\ cm.pc = IF ~done THEN "send" ELSE IF cl.item = NoItem THEN "drain" ELSE "wait"
  BY <1>1, <1>3, <1>7 DEF ClientTypes
<1>11. cm.pc \in {"send", "drain", "wait"}
  BY <1>10
<1>12. Sound(c, h, cl) /\ Behind(c.out) = << >> => Sound(d, h, cm)
  <2> SUFFICES ASSUME Sound(c, h, cl), Behind(c.out) = << >> PROVE Sound(d, h, cm)
    OBVIOUS
  <2>1. /\ d.in = Append(c.in, Head(cl.left))
        /\ Len(cl.left) = 1 =>
             d.asked = Append(c.asked, [cmd |-> Head(cl.left).cmd, item |-> Head(cl.left).item])
        /\ Len(cl.left) # 1 => d.asked = c.asked
    BY <1>5, <1>9
  <2>2. cm.pc = IF Len(cl.left) # 1 THEN "send" ELSE IF cl.item = NoItem THEN "drain" ELSE "wait"
    BY <1>5, <1>10
  <2> QED BY <1>2, <1>3, <1>4, <1>9, <1>10, <2>1, <2>2, SentSound
<1>13. ~raced => /\ Kept(k) /\ k \in Active => Sound(conn'[k], Host(k), cm)
                 /\ Answered(conn'[k])
                 /\ client'.pc # "off" => Leftover(conn'[k], client')
                 /\ Got(client')
  <2> SUFFICES ASSUME ~raced
               PROVE  /\ Kept(k) => Sound(d, h, cm)
                      /\ Answered(d) /\ Leftover(d, cm) /\ Got(cm)
    BY <1>1
  <2>1. (Kept(k) => Sound(c, h, cl)) /\ Answered(c) /\ Leftover(c, cl) /\ Got(cl)
    BY <1>3
  <2>2. Behind(c.out) = << >>
    BY <1>2, <2>1 DEF Leftover
  <2>3. Answered(d)
    BY <1>3, <1>6, <1>9, <2>1, StillAnswered
  <2>4. Leftover(d, cm)
    BY <1>9, <1>11, <2>2 DEF Leftover, Coming
  <2>5. Got(cm)
    BY <1>10, <2>1 DEF Got
  <2> QED BY <1>12, <2>1, <2>2, <2>3, <2>4, <2>5
<1>14. cm = IF client'.pc # "off" THEN client' ELSE Off
  BY <1>1, <1>11
<1>15. conn'[k].host = conn[k].host /\ conn'[k].state = conn[k].state /\ client'.conn = k
  BY <1>1, <1>9, <1>10
<1> QED BY <1>1, <1>2, <1>3, <1>8, <1>13, <1>14, <1>15, ClientKeepsAnswers

(* The client goes on with the answer: to the next table, or back. *)
LEMMA TakesAnswer ==
  ASSUME client \in ClientTypes, client.item \in Items, NEW body, NEW cm,
         cm = IF client.item \in Files THEN TakesFile(body) ELSE TakesTable(body)
  PROVE  /\ cm.pc # "off" /\ cm.conn = client.conn
         /\ \/ cm.pc \in {"connected", "drain"}
            \/ cm.pc = "send" /\ cm.item \in Items /\ cm.left = Request(cm.item)
         /\ cm.got[1] = client.item /\ cm.got[2] = body
<1>1. CASE client.item \in Files
  <2>1. cm = [client EXCEPT !.got = <<client.item, body>>, !.pc = "connected", !.item = NoItem]
    BY <1>1 DEF TakesFile
  <2>2. cm.pc = "connected" /\ cm.conn = client.conn /\ cm.got = <<client.item, body>>
    BY <2>1 DEF ClientTypes
  <2> QED BY <2>2
<1>2. CASE client.item = FileTable
  <2>1. cm = [Send(Request(StringTable), StringTable) EXCEPT !.got = <<FileTable, body>>]
    BY <1>2, RemoteModuleAssumption DEF TakesTable
  <2>2. /\ cm.pc = "send" /\ cm.conn = client.conn /\ cm.item = StringTable
        /\ cm.left = Request(StringTable) /\ cm.got = <<FileTable, body>>
    BY <2>1 DEF ClientTypes, Send
  <2> QED BY <1>2, <2>2 DEF Items
<1>3. CASE client.item \notin Files /\ client.item # FileTable
  <2>1. cm = [client EXCEPT !.got = <<StringTable, body>>, !.pc = "drain"]
    BY <1>3 DEF TakesTable
  <2>2. client.item = StringTable
    BY <1>3 DEF Items
  <2>3. cm.pc = "drain" /\ cm.conn = client.conn /\ cm.got = <<StringTable, body>>
    BY <2>1 DEF ClientTypes
  <2> QED BY <2>2, <2>3
<1> QED BY <1>1, <1>2, <1>3

LEMMA ClientReadsKeepsAnswers ==
  ASSUME TypeOK, AnswerInv, ClientReads
  PROVE  AnswerInv'
<1>1. PICK k, c, d, h, cl, cm, out : /\ k = client.conn /\ c = conn[k] /\ d = conn'[k]
                                     /\ h = Host(k) /\ cl = client /\ cm = client' /\ out = c.out
  OBVIOUS
<1>2. /\ cl.pc \in {"drain", "wait"} /\ client.pc # "off"
      /\ out # << >> /\ (~Head(out).more \/ Len(out) > 1)
      /\ UNCHANGED <<thread, canRun, raced>>
  BY <1>1 DEF ClientReads, Arrived
<1>3. /\ k \in Connections /\ cl \in ClientTypes
      /\ conn \in [Connections -> ConnTypes] /\ c \in ConnTypes
      /\ ~raced => /\ Kept(k) /\ k \in Active => Sound(c, h, cl)
                   /\ Answered(c) /\ Leftover(c, cl) /\ Got(cl)
  BY <1>1, <1>2, ClientHas
<1>4. out \in Seq(Parts) /\ cl.item \in Items \cup {NoItem} /\ (cl.pc = "wait" => cl.item \in Items)
  BY <1>1, <1>2, <1>3 DEF TypeOK, ClientTypes, ConnTypes
<1>5. PICK used, body : /\ used = IF Head(out).more THEN 2 ELSE 1
                        /\ body = out[used].item
  OBVIOUS
<1>6. /\ conn' = [conn EXCEPT ![k].out = SubSeq(@, used + 1, Len(@))]
      /\ client' = IF client.pc = "wait" /\ IsResponse(Head(out).cmd)
                   THEN IF client.item \in Files THEN TakesFile(body) ELSE TakesTable(body)
                   ELSE client
  BY <1>1, <1>5 DEF ClientReads
<1>7. /\ d = [c EXCEPT !.out = SubSeq(@, used + 1, Len(@))]
      /\ \A j \in Connections \ {k} : conn'[j] = conn[j]
  BY <1>1, <1>3, <1>6
<1>8. d.out = SubSeq(out, used + 1, Len(out)) /\ d.host = c.host /\ SameButOut(c, d)
  BY <1>1, <1>3, <1>7 DEF ConnTypes, SameButOut
<1>9. CASE client.pc = "wait" /\ IsResponse(Head(out).cmd)
  <2>1. cl.item \in Items /\ Head(out).cmd = CommandFor(cl.item)
    BY <1>1, <1>4, <1>9 DEF IsResponse
  <2>2. cm = IF client.item \in Files THEN TakesFile(body) ELSE TakesTable(body)
    BY <1>1, <1>6, <1>9
  <2>3. /\ cm.pc # "off" /\ cm.conn = client.conn
        /\ \/ cm.pc \in {"connected", "drain"}
           \/ cm.pc = "send" /\ cm.item \in Items /\ cm.left = Request(cm.item)
        /\ cm.got[1] = client.item /\ cm.got[2] = body
    BY <1>1, <1>3, <2>1, <2>2, TakesAnswer
  <2>4. Head(out) # PongPart
    BY <2>1, Kinds, Parting
  <2>5. ~raced => /\ Kept(k) /\ k \in Active => Sound(d, h, cm)
                  /\ Answered(d) /\ Leftover(d, cm) /\ Got(cm)
    <3> SUFFICES ASSUME ~raced
                 PROVE  /\ Kept(k) /\ k \in Active => Sound(d, h, cm)
                        /\ Answered(d) /\ Leftover(d, cm) /\ Got(cm)
      OBVIOUS
    <3>1. (Kept(k) /\ k \in Active => Sound(c, h, cl)) /\ Answered(c) /\ Leftover(c, cl)
      BY <1>3
    <3>2. Coming(cl.item, Behind(out)) /\ cl.pc = "wait"
      BY <1>1, <1>9, <3>1 DEF Leftover
    <3>3. PICK b \in Given(cl.item) :
            /\ Behind(out) \in {<<AnswerBody(cl.item, b)>>,
                                <<AnswerHeader(cl.item), AnswerBody(cl.item, b)>>}
            /\ out[used].item = b
            /\ SubSeq(out, used + 1, Len(out)) = << >>
      BY <1>2, <1>4, <1>5, <2>1, <2>4, <3>2, AnswerIsRead
    <3>4. d.out = << >> /\ body = b
      BY <1>5, <1>8, <3>3
    <3>5. Sound(c, h, cl) => Sound(d, h, cm)
      BY <1>1, <1>3, <1>8, <2>1, <2>3, <3>2, <3>3, <3>4, AnswerReadSound
    <3>6. Answered(d)
      BY <1>8, <3>1 DEF Answered, SameButOut
    <3>7. Leftover(d, cm)
      BY <3>4, BehindPong DEF Leftover, Coming
    <3>8. Got(cm)
      BY <1>1, <2>1, <2>3, <3>3, <3>4 DEF Got
    <3> QED BY <3>1, <3>5, <3>6, <3>7, <3>8
  <2>6. cm = IF client'.pc # "off" THEN client' ELSE Off
    BY <1>1, <2>3
  <2>7. conn'[k].host = conn[k].host /\ conn'[k].state = conn[k].state /\ client'.conn = k
        /\ SameButOut(conn[k], conn'[k])
    BY <1>1, <1>8, <2>3 DEF SameButOut
  <2>8. ~raced => /\ Kept(k) /\ k \in Active => Sound(conn'[k], Host(k), cm)
                  /\ Answered(conn'[k])
                  /\ client'.pc # "off" => Leftover(conn'[k], client')
                  /\ Got(client')
    BY <1>1, <2>5
  <2> QED BY <1>1, <1>2, <1>7, <2>6, <2>7, <2>8, ClientKeepsAnswers
<1>10. CASE ~(client.pc = "wait" /\ IsResponse(Head(out).cmd))
  <2>1. cm = cl /\ client' = client
    BY <1>1, <1>6, <1>10
  <2>2. ~raced => /\ Kept(k) /\ k \in Active => Sound(d, h, cm)
                  /\ Answered(d) /\ Leftover(d, cm) /\ Got(cm)
    <3> SUFFICES ASSUME ~raced
                 PROVE  /\ Kept(k) /\ k \in Active => Sound(d, h, cl)
                        /\ Answered(d) /\ Leftover(d, cl) /\ Got(cl)
      BY <2>1
    <3>1. (Kept(k) /\ k \in Active => Sound(c, h, cl)) /\ Answered(c) /\ Leftover(c, cl) /\ Got(cl)
      BY <1>3
    <3>2. Behind(out) = << >> \/ (cl.item \in Items /\ Coming(cl.item, Behind(out)))
      BY <1>1, <1>2, <1>4, <3>1 DEF Leftover
    <3>3. Head(out) = PongPart
      <4>1. ASSUME Head(out) # PongPart PROVE FALSE
        <5>1. Behind(out) # << >>
          BY <1>2, <4>1 DEF Behind
        <5>2. cl.pc = "wait" /\ cl.item \in Items /\ Coming(cl.item, Behind(out))
          BY <1>1, <1>2, <1>4, <3>1, <5>1 DEF Leftover
        <5>3. Head(out).cmd = CommandFor(cl.item)
          BY <1>2, <1>4, <4>1, <5>2, AnswerIsRead
        <5>4. cl.item # NoItem
          BY <5>2, Kinds
        <5> QED BY <1>1, <1>10, <5>2, <5>3, <5>4 DEF IsResponse
      <4> QED BY <4>1
    <3>4. used = 1
      BY <1>5, <3>3, Parting
    <3>5. Behind(d.out) = Behind(out) /\ d.out = Behind(out)
      <4>1. /\ SubSeq(out, 2, Len(out)) = Behind(out)
            /\ Behind(SubSeq(out, 2, Len(out))) = Behind(out)
        BY <1>2, <1>4, <3>2, <3>3, PongIsRead
      <4> QED BY <1>8, <3>4, <4>1
    <3>6. Sound(c, h, cl) => Sound(d, h, cl)
      BY <1>1, <1>2, <1>3, <1>8, <3>5, PongReadSound
    <3>7. Answered(d)
      BY <1>8, <3>1 DEF Answered, SameButOut
    <3>8. Leftover(d, cl)
      BY <1>1, <1>8, <3>1, <3>5 DEF Leftover, SameButOut
    <3> QED BY <3>1, <3>6, <3>7, <3>8
  <2>3. cm = IF client'.pc # "off" THEN client' ELSE Off
    BY <1>1, <1>2, <2>1
  <2>4. conn'[k].host = conn[k].host /\ conn'[k].state = conn[k].state /\ client'.conn = k
        /\ SameButOut(conn[k], conn'[k])
    BY <1>1, <1>8, <2>1 DEF SameButOut
  <2>5. ~raced => /\ Kept(k) /\ k \in Active => Sound(conn'[k], Host(k), cm)
                  /\ Answered(conn'[k])
                  /\ client'.pc # "off" => Leftover(conn'[k], client')
                  /\ Got(client')
    BY <1>1, <2>2
  <2> QED BY <1>1, <1>2, <1>7, <2>3, <2>4, <2>5, ClientKeepsAnswers
<1> QED BY <1>9, <1>10

LEMMA CloseKeepsAnswers ==
  ASSUME TypeOK, AnswerInv, Close
  PROVE  AnswerInv'
<1>1. PICK k, c, d, h, cl, cm : /\ k = client.conn /\ c = conn[k] /\ d = conn'[k]
                                /\ h = Host(k) /\ cl = client /\ cm = Off
  OBVIOUS
<1>2. /\ client.pc # "off" /\ client' = Off
      /\ conn' = [conn EXCEPT ![k].open = FALSE, ![k].out = << >>]
      /\ UNCHANGED <<thread, canRun, raced>>
  BY <1>1 DEF Close
<1>3. /\ k \in Connections /\ c \in ConnTypes /\ conn \in [Connections -> ConnTypes]
      /\ ~raced => /\ Kept(k) /\ k \in Active => Sound(c, h, cl)
                   /\ Answered(c)
  BY <1>1, <1>2, ClientHas
<1>4. d = [c EXCEPT !.open = FALSE, !.out = << >>] /\ \A j \in Connections \ {k} : conn'[j] = conn[j]
  BY <1>1, <1>2, <1>3
<1>5. d.host = c.host /\ SameButOut(c, d)
  BY <1>3, <1>4 DEF ConnTypes, SameButOut
<1>6. cm.pc = "off" /\ client'.pc = "off" /\ Got(client')
  BY <1>1, <1>2 DEF Off, Got
<1>7. ~raced => /\ Kept(k) /\ k \in Active => Sound(conn'[k], Host(k), cm)
                /\ Answered(conn'[k])
                /\ client'.pc # "off" => Leftover(conn'[k], client')
                /\ Got(client')
  <2>1. Sound(c, h, cl) => Sound(d, h, cm)
    BY <1>5, <1>6, CloseSound
  <2>2. Answered(c) => Answered(d)
    BY <1>5 DEF Answered, SameButOut
  <2> QED BY <1>1, <1>3, <1>6, <2>1, <2>2
<1>8. conn'[k].host = conn[k].host /\ conn'[k].state = conn[k].state /\ SameButOut(conn[k], conn'[k])
  BY <1>1, <1>5 DEF SameButOut
<1>9. cm = IF client'.pc # "off" THEN client' ELSE Off
  BY <1>1, <1>6
<1> QED BY <1>1, <1>2, <1>4, <1>6, <1>7, <1>8, <1>9, ClientKeepsAnswers

LEMMA ConnectKeepsAnswers ==
  ASSUME TypeOK, AnswerInv, NEW k \in Connections, NEW t \in Threads, Connect(k, t)
  PROVE  AnswerInv'
<1>1. /\ client.pc = "off" /\ t \in Listening /\ conn[k].state = "unused"
      /\ conn' = [conn EXCEPT ![k].state = "queued", ![k].host = t, ![k].open = TRUE]
      /\ client' = [Send(Message("Ping", NoItem, FALSE), NoItem) EXCEPT !.conn = k]
      /\ UNCHANGED <<thread, canRun, raced>>
      /\ Hosted /\ Untouched
  BY DEF Connect, AnswerInv
<1>2. PICK c, d : c = conn[k] /\ d = conn'[k]
  OBVIOUS
<1>3. conn \in [Connections -> ConnTypes] /\ c \in ConnTypes /\ client \in ClientTypes
  BY <1>2 DEF TypeOK
<1>4. /\ d = [c EXCEPT !.state = "queued", !.host = t, !.open = TRUE]
      /\ \A j \in Connections \ {k} : conn'[j] = conn[j]
  BY <1>1, <1>2, <1>3
<1>5. /\ c.in = << >> /\ c.out = << >> /\ c.asked = << >> /\ c.answered = << >>
      /\ k \notin Active
  BY <1>1, <1>2 DEF Untouched, Active
<1>6. /\ d.state = "queued" /\ d.host = t /\ d.in = << >> /\ d.out = << >>
      /\ d.asked = << >> /\ d.answered = << >>
  BY <1>3, <1>4, <1>5 DEF ConnTypes
<1>7. /\ client'.pc = "send" /\ client'.conn = k /\ client'.item = NoItem
      /\ client'.left = <<PingPart>> /\ client'.got = client.got
  <2>1. Message("Ping", NoItem, FALSE) = <<PingPart>>
    BY Messages DEF PingPart
  <2>2. client' = [[client EXCEPT !.pc = "send", !.left = <<PingPart>>, !.item = NoItem] EXCEPT !.conn = k]
    BY <1>1, <2>1 DEF Send
  <2> QED BY <1>3, <2>2 DEF ClientTypes
<1>8. /\ conn[k].state = "unused" /\ conn'[k].state = "queued" /\ conn'[k].host = t
      /\ thread' = thread /\ Hosted /\ Untouched /\ t \in Listening
      /\ \A j \in Connections \ {k} : conn'[j] = conn[j]
  BY <1>1, <1>2, <1>4, <1>6
<1>9. Active' = Active \cup {k} /\ Listening' = Listening
  <2>1. \A j \in Connections : j \in Active' <=> j \in Active \/ j = k
    BY <1>8 DEF Active
  <2>2. Active' \subseteq Connections /\ Active \subseteq Connections
    BY DEF Active
  <2>3. Listening' = Listening
    BY <1>8 DEF Listening
  <2> QED BY <2>1, <2>2, <2>3
<1>10. \A j \in Connections \ {k} : Host(j)' = Host(j)
  BY <1>8 DEF Host
<1>11. Hosted'
  <2>1. \A j \in Active' : conn'[j].host \in Listening'
    BY <1>8, <1>9 DEF Hosted, Active
  <2>2. \A j \in Connections : conn'[j].state = "served" =>
          Host(j)'.pc \in Serving /\ Host(j)'.conn = j
    BY <1>8, <1>10 DEF Hosted
  <2>3. ASSUME NEW u \in Threads, thread'[u].pc \in Serving
        PROVE  conn'[thread'[u].conn].state = "served" /\ conn'[thread'[u].conn].host = u
    <3>1. thread'[u] = thread[u]
      BY <1>1
    <3>2. conn[thread[u].conn].state = "served" /\ conn[thread[u].conn].host = u
      BY <1>8, <2>3, <3>1 DEF Hosted
    <3>3. thread[u].conn \in Connections \ {k}
      BY <1>8, <2>3, <3>1, <3>2 DEF TypeOK
    <3> QED BY <1>8, <3>1, <3>2, <3>3
  <2> QED BY <2>1, <2>2, <2>3 DEF Hosted
<1>12. Untouched'
  <2>1. \A j \in Connections \ Active' : j # k /\ j \notin Active /\ conn'[j] = conn[j]
    BY <1>4, <1>9
  <2>2. client'.pc # "off" => conn'[client'.conn].state # "unused"
    BY <1>8, <1>7
  <2>3. \A j \in Connections \ Active' :
          /\ conn'[j].in = << >> /\ conn'[j].asked = << >> /\ conn'[j].answered = << >>
          /\ conn'[j].state = "unused" => conn'[j].out = << >>
    BY <1>8, <2>1 DEF Untouched
  <2> QED BY <2>2, <2>3 DEF Untouched
<1>13. PICK h, cl : h = Host(k)' /\ cl = client'
  OBVIOUS
<1>14. Sound(d, h, cl) /\ Leftover(d, cl)
  BY <1>6, <1>7, <1>13, ConnectSound
<1>15. SUFFICES ASSUME ~raced
                PROVE  /\ \A j \in Active' : Kept(j)' => Sound(conn[j], Host(j), ClientOf(j))'
                       /\ \A j \in Connections : Answered(conn'[j])
                       /\ Unread'
                       /\ Got(client')
  BY <1>1, <1>11, <1>12 DEF AnswerInv
<1>16. ASSUME NEW j \in Active', Kept(j)' PROVE Sound(conn[j], Host(j), ClientOf(j))'
  <2>1. CASE j = k
    <3>1. ClientOf(j)' = cl
      BY <1>7, <1>13, <2>1 DEF ClientOf
    <3> QED BY <1>2, <1>13, <1>14, <2>1, <3>1
  <2>2. CASE j # k
    <3>1. j \in Active /\ j \in Connections \ {k}
      BY <1>9, <1>16, <2>2 DEF Active
    <3>2. ClientOf(j)' = Off /\ ClientOf(j) = Off
      BY <1>1, <1>7, <2>2 DEF ClientOf
    <3>3. conn'[j] = conn[j] /\ Host(j)' = Host(j) /\ ClientOf(j)' = ClientOf(j)
      BY <1>4, <1>10, <3>1, <3>2
    <3>4. Kept(j)
      BY <1>1, <1>16, <3>3 DEF Kept
    <3>5. Sound(conn[j], Host(j), ClientOf(j))
      BY <1>15, <3>1, <3>4 DEF AnswerInv
    <3> QED BY <3>3, <3>5
  <2> QED BY <2>1, <2>2
<1>17. \A j \in Connections : Answered(conn'[j])
  <2>1. Len(d.asked) = 0 /\ Len(d.answered) = 0 /\ DOMAIN d.answered = {}
    BY <1>6
  <2>2. Answered(d)
    BY <1>6, <2>1 DEF Answered
  <2>3. \A j \in Connections : Answered(conn[j])
    BY <1>15 DEF AnswerInv
  <2> QED BY <1>2, <1>4, <2>2, <2>3
<1>18. Unread'
  BY <1>2, <1>7, <1>13, <1>14 DEF Unread
<1>19. Got(client')
  <2>1. Got(client)
    BY <1>15 DEF AnswerInv
  <2> QED BY <1>7, <2>1 DEF Got
<1> QED BY <1>16, <1>17, <1>18, <1>19

LEMMA ServerStepKeepsAnswers ==
  ASSUME IInv, IInv', AnswerInv, NEW t \in Threads, ServerStep(t) \/ AcceptFails(t)
  PROVE  AnswerInv'
<1>1. TypeOK
  BY DEF IInv
<1>2. CASE ThreadStarts(t) \/ Loop(t) \/ Bind(t) \/ BindFails(t) \/ ThreadEnds(t)
  BY <1>1, <1>2, IdleStepsKeepAnswers
<1>3. CASE \E k \in Connections : Accept(t, k)
  BY <1>1, <1>3, AcceptKeepsAnswers
<1>4. CASE HandleClient(t)
  <2>1. CASE Leave(t)
    BY <1>1, <2>1, LeaveKeepsAnswers
  <2>2. CASE ~Leave(t)
    <3>1. /\ thread[t].pc = "ready" /\ Goto(t, "reading")
          /\ conn' = conn /\ client' = client /\ canRun' = canRun /\ raced' = raced
      BY <1>4, <2>2 DEF HandleClient
    <3> QED BY <1>1, <3>1, HandleKeepsAnswers DEF Serving
  <2> QED BY <2>1, <2>2
<1>5. CASE StartHeader(t) \/ StartBody(t)
  BY <1>1, <1>5, StartStepsKeepAnswers
<1>6. CASE ReadHeader(t)
  BY <1>1, <1>6, ReadHeaderKeepsAnswers
<1>7. CASE ReadBody(t)
  BY <1>1, <1>7, ReadBodyKeepsAnswers
<1>8. CASE Disconnected(t) \/ AcceptFails(t)
  BY <1>1, <1>8, LeaveKeepsAnswers DEF Disconnected, AcceptFails
<1>9. CASE ProcessCommand(t)
  BY <1>1, <1>9, ProcessCommandKeepsAnswers
<1>10. CASE WriteMessage(t)
  BY <1>10, WriteMessageKeepsAnswers
<1>11. CASE WritePart(t)
  BY <1>11, WritePartKeepsAnswers
<1> QED
  BY <1>2, <1>3, <1>4, <1>5, <1>6, <1>7, <1>8, <1>9, <1>10, <1>11 DEF ServerStep

LEMMA InitAnswers == Init => AnswerInv
<1> SUFFICES ASSUME Init PROVE AnswerInv
  OBVIOUS
<1>1. /\ \A t \in Threads : thread[t].pc = "none"
      /\ \A k \in Connections : conn[k] = Unused
      /\ client.pc = "off" /\ client.got[1] = NoItem
  BY DEF Init, Fresh, Off
<1>2. Active = {}
  BY <1>1 DEF Active, Unused
<1>3. Hosted
  BY <1>1, <1>2 DEF Hosted, Serving, Unused
<1>4. Untouched
  BY <1>1 DEF Untouched, Unused
<1>5. \A k \in Connections : Answered(conn[k])
  <2>1. Len(Unused.asked) = 0 /\ Len(Unused.answered) = 0 /\ DOMAIN Unused.answered = {}
    BY DEF Unused
  <2>2. Answered(Unused)
    BY <2>1 DEF Answered
  <2> QED BY <1>1, <2>2
<1>6. Unread /\ Got(client)
  BY <1>1 DEF Unread, Got
<1> QED BY <1>2, <1>3, <1>4, <1>5, <1>6 DEF AnswerInv

LEMMA StepAnswers == IInv /\ AnswerInv /\ [Next]_vars => AnswerInv'
<1> SUFFICES ASSUME IInv, AnswerInv, [Next]_vars PROVE AnswerInv'
  OBVIOUS
<1>1. TypeOK /\ IInv'
  BY StepIInv DEF IInv
<1>2. CASE \E t \in Threads : Enable(t)
  BY <1>2, EnableKeepsAnswers
<1>3. CASE (\E from \in {"disabling", "destroying"} : Disable(from)) \/ DisableReturns
  BY <1>3, DisableKeepsAnswers
<1>4. CASE \E t \in Threads : ServerStep(t) \/ AcceptFails(t)
  BY <1>1, <1>4, ServerStepKeepsAnswers
<1>5. CASE \E k \in Connections, t \in Threads : Connect(k, t)
  BY <1>1, <1>5, ConnectKeepsAnswers
<1>6. CASE ClientWrites
  BY <1>1, <1>6, ClientWritesKeepsAnswers
<1>7. CASE ClientReads
  BY <1>1, <1>7, ClientReadsKeepsAnswers
<1>8. CASE CallReturns \/ CallFails \/ \E item \in Items : Ask(item)
  BY <1>1, <1>8, CallsKeepAnswers
<1>9. CASE Close
  BY <1>1, <1>9, CloseKeepsAnswers
<1>10. CASE UNCHANGED vars
  <2>1. /\ thread' = thread /\ conn' = conn /\ client' = client
        /\ canRun' = canRun /\ raced' = raced
    BY <1>10 DEF vars
  <2>2. Active' = Active /\ Hosted' /\ Untouched' /\ (~raced => Unread')
    BY <2>1 DEF AnswerInv, Hosted, Untouched, Active, Unread, Listening, Host
  <2>3. ASSUME ~raced, NEW j \in Active, Kept(j)'
        PROVE  Sound(conn[j], Host(j), ClientOf(j))'
    <3>1. conn'[j] = conn[j] /\ Host(j)' = Host(j) /\ ClientOf(j)' = ClientOf(j)
      BY <2>1 DEF Host, ClientOf
    <3>2. Kept(j)
      BY <2>1, <2>3, <3>1 DEF Kept
    <3>3. Sound(conn[j], Host(j), ClientOf(j))
      BY <2>3, <3>2 DEF AnswerInv
    <3> QED BY <3>1, <3>3
  <2>4. ~raced => (\A j \in Connections : Answered(conn'[j])) /\ Got(client')
    BY <2>1 DEF AnswerInv
  <2> QED BY <2>1, <2>2, <2>3, <2>4 DEF AnswerInv
<1> QED
  BY <1>2, <1>3, <1>4, <1>5, <1>6, <1>7, <1>8, <1>9, <1>10 DEF Next

(* In every state that no overtaken start spoiled, a connection, the thread *)
(* that serves it and the client at its other end agree on where the Ping   *)
(* and the one request that may be due are.                                 *)
THEOREM AnswerInvariant == Spec => [](IInv /\ AnswerInv)
BY InitIInv, StepIInv, InitAnswers, StepAnswers, PTL DEF Spec

(* The server answers a client's requests in their order, each as it was    *)
(* asked, and none that had not come whole: what a thread that m_CanRun     *)
(* stopped makes of half a message reaches nobody.                          *)
THEOREM AnswersMatch == Spec => []AnsweredInOrder
<1>1. AnswerInv => AnsweredInOrder
  BY DEF AnswerInv, AnsweredInOrder, Answered
<1> QED
  BY <1>1, AnswerInvariant, PTL

(* The client gets what it asked for, though it compares commands only and  *)
(* drops what it does not wait for: the content, a file's failure, or, when *)
(* PushString dropped a content that did not fit, nothing.                  *)
THEOREM ClientGetsIt == Spec => []GetsWhatItAsked
<1>1. AnswerInv => GetsWhatItAsked
  BY DEF AnswerInv, GetsWhatItAsked, Got, Given
<1> QED
  BY <1>1, AnswerInvariant, PTL
=============================================================================

------------------------ MODULE ScriptedDaemonProofs ------------------------
(***************************************************************************)
(* Proofs about ScriptedDaemon, for every set of clients, every length of  *)
(* the script and every number of sends.                                   *)
(*                                                                         *)
(* The inductive invariant has seven parts. Links ties the ends that are   *)
(* open to the backlog, to the connection being served and to what each    *)
(* client is doing. Calls says how far a call has come: a client that      *)
(* waits has its request on the way in, or the thread holds it, or has the *)
(* reply on the way out, and never two of these. Written and Script keep   *)
(* the books over that: a turn is in the transcript before its reply is    *)
(* sent, and a reply on its way is the latest turn of the script anybody   *)
(* was sent. Handed follows each turn of the script from the moment the    *)
(* cursor passes it: to the client that heard it, or to one that is gone   *)
(* for good. Dropped is about the end.                                     *)
(*                                                                         *)
(* Calls is what the others lean on. That a reply is written only when the *)
(* client's last one has been read is nowhere in the code: it follows from *)
(* each side waiting for the other.                                        *)
(***************************************************************************)
EXTENDS ScriptedDaemon, SequenceTheorems, FiniteSetTheorems, TLAPS

---------------------------------------------------------------------------
(* Sequences without repetition, seen as sets                              *)

(* Joining the end of a queue adds one member.                             *)
LEMMA AppendSet ==
    ASSUME NEW S, NEW s \in Seq(S), NEW x \in S
    PROVE  ToSet(Append(s, x)) = ToSet(s) \cup {x}
<1> DEFINE t == Append(s, x)
<1>1. /\ DOMAIN t = 1..(Len(s) + 1) /\ DOMAIN s = 1..Len(s) /\ Len(s) \in Nat
      /\ \A i \in 1..Len(s) : t[i] = s[i]
      /\ t[Len(s) + 1] = x
  OBVIOUS
<1> HIDE DEF t
<1>2. \A y : y \in ToSet(t) <=> y \in ToSet(s) \/ y = x
  BY <1>1 DEF ToSet
<1> QED BY <1>2 DEF t

(* The first of a queue leaves it, and is not in it twice.                 *)
LEMMA TailSet ==
    ASSUME NEW S, NEW s \in Seq(S), s # <<>>,
           \A i, j \in DOMAIN s : s[i] = s[j] => i = j
    PROVE  /\ Head(s) \in ToSet(s)
           /\ ToSet(Tail(s)) = ToSet(s) \ {Head(s)}
           /\ \A i, j \in DOMAIN Tail(s) : Tail(s)[i] = Tail(s)[j] => i = j
<1> DEFINE t == Tail(s)  n == Len(s)
<1>1. /\ DOMAIN t = 1..(n - 1) /\ DOMAIN s = 1..n /\ n \in Nat /\ n > 0
      /\ \A i \in 1..(n - 1) : t[i] = s[i + 1]
      /\ Head(s) = s[1]
  OBVIOUS
<1> HIDE DEF t, n
<1>2. \A i, j \in DOMAIN t : t[i] = t[j] => i = j
  BY <1>1
<1>3. \A y \in ToSet(s) : y = Head(s) \/ y \in ToSet(t)
  <2> SUFFICES ASSUME NEW i \in 1..n, i # 1 PROVE s[i] \in ToSet(t)
    BY <1>1 DEF ToSet
  <2>1. i - 1 \in DOMAIN t /\ s[i] = t[i - 1]
    BY <1>1
  <2> QED BY <2>1 DEF ToSet
<1>4. \A y \in ToSet(t) : y \in ToSet(s) /\ y # Head(s)
  BY <1>1 DEF ToSet
<1>5. Head(s) \in ToSet(s)
  BY <1>1 DEF ToSet
<1> QED BY <1>2, <1>3, <1>4, <1>5 DEF t

(* Nobody is in an empty queue.                                            *)
LEMMA EmptySet == ToSet(<<>>) = {}
BY DEF ToSet

---------------------------------------------------------------------------
(* Connections, ends and clients                                           *)

(* The thread never serves a connection that still waits, no connection    *)
(* waits twice, and nobody waits for a thread that has returned.           *)
Shape ==
    /\ backlog \in Seq(Client)
    /\ \A i, j \in DOMAIN backlog : backlog[i] = backlog[j] => i = j
    /\ conn \notin ToSet(backlog)
    /\ pc = "done" => backlog = <<>>
    /\ line \in [Client -> Requests \cup {None}]
    /\ reply \in [Client -> Responses \cup {None}]
    /\ open \in [Client -> SUBSET {"client", "daemon"}]
    /\ pc = "answer" => response \in Responses

(* A client's end is open while the client lives, and who has not          *)
(* connected is nowhere in the daemon.                                     *)
Ends ==
    \A c \in Client :
        /\ "client" \in open[c] <=> harness[c] \notin {"new", "ended"}
        /\ harness[c] = "new" => c # conn /\ c \notin ToSet(backlog)

(* How connections, ends and clients hang together.                        *)
Links == TypeOK /\ Shape /\ Ends

(* At the start nobody has connected.                                      *)
LEMMA LinksInit == Init => Links
<1> SUFFICES ASSUME Init PROVE Links
  OBVIOUS
<1> USE ScriptAssumption, NoneAssumption
<1>1. TypeOK
  BY EmptySet DEF Init, TypeOK, Serving
<1>2. Shape
  BY EmptySet DEF Init, Shape
<1>3. Ends
  BY EmptySet, None \notin Client DEF Init, Ends
<1> QED BY <1>1, <1>2, <1>3 DEF Links

(* serve() returning keeps them.                                           *)
LEMMA ReturnLinks ==
    ASSUME Links, pc \in Serving, Return,
           UNCHANGED <<shutdown, backlog, served, owner, file, harness, reply, late>>
    PROVE  Links'
<1> USE ScriptAssumption, NoneAssumption
<1>1. /\ conn \in Client /\ conn' = None /\ None \notin Client
      /\ conn \notin ToSet(backlog) /\ pc # "done" /\ pc' = "check"
      /\ response' = None /\ backlog' = backlog
      /\ UNCHANGED <<shutdown, backlog, served, owner, file, harness, reply, late>>
  BY DEF Links, TypeOK, Shape, Serving, Return
<1>2. /\ open' \in [Client -> SUBSET {"client", "daemon"}]
      /\ line' \in [Client -> Requests \cup {None}]
      /\ \A c \in Client : open'[c] = IF c = conn THEN open[c] \ {"daemon"} ELSE open[c]
  BY <1>1 DEF Links, Shape, Return
<1>3. \A c \in Client : "daemon" \in open'[c] <=> (c = conn' \/ c \in ToSet(backlog'))
  BY <1>1, <1>2 DEF Links, TypeOK
<1>4. TypeOK'
  BY <1>1, <1>2, <1>3 DEF Links, TypeOK, Shape, Serving
<1>5. Shape'
  <2>1. None \notin ToSet(backlog)
    BY <1>1 DEF Links, Shape, ToSet
  <2> QED BY <1>1, <1>2, <2>1 DEF Links, TypeOK, Shape
<1>6. Ends'
  BY <1>1, <1>2 DEF Links, TypeOK, Shape, Ends
<1> QED BY <1>4, <1>5, <1>6 DEF Links

(* The listener closing with the thread keeps them.                        *)
LEMMA CloseLinks ==
    ASSUME Links, pc \in {"check", "accept"}, CloseListener,
           UNCHANGED <<shutdown, conn, response, served, owner, file, harness, line,
                       reply, late>>
    PROVE  Links'
<1> USE ScriptAssumption, NoneAssumption
<1>1. /\ conn = None /\ conn' = conn /\ None \notin Client /\ pc' = "done"
      /\ backlog' = <<>> /\ ToSet(backlog') = {}
      /\ UNCHANGED <<shutdown, conn, response, served, owner, file, harness, line,
                     reply, late>>
  BY EmptySet DEF Links, TypeOK, Serving, CloseListener
<1>2. /\ open' \in [Client -> SUBSET {"client", "daemon"}]
      /\ \A c \in Client :
            /\ "daemon" \notin open'[c]
            /\ "client" \in open'[c] <=> "client" \in open[c]
  BY <1>1 DEF Links, TypeOK, Shape, CloseListener
<1>3. TypeOK'
  BY <1>1, <1>2 DEF Links, TypeOK, Serving
<1>4. Shape'
  BY <1>1, <1>2 DEF Links, Shape
<1>5. Ends'
  BY <1>1, <1>2 DEF Links, Ends
<1> QED BY <1>3, <1>4, <1>5 DEF Links

(* A client writing a line, or failing to, keeps them.                     *)
LEMMA WriteLinks ==
    ASSUME NEW c \in Client, NEW from \in {"connected", "open"},
           NEW request \in Requests, NEW wait \in Waiting,
           Links, Write(c, from, request, wait),
           UNCHANGED <<daemon, reply, late>>
    PROVE  Links'
<1> USE ScriptAssumption, NoneAssumption
<1>1. /\ UNCHANGED <<shutdown, pc, backlog, conn, response, served, owner, file, reply, late>>
      /\ harness[c] = from
  BY DEF Write, daemon
<1>2. CASE "daemon" \in open[c]
  <2>1. /\ line' = [line EXCEPT ![c] = request]
        /\ harness' = [harness EXCEPT ![c] = wait] /\ open' = open
    BY <1>2 DEF Write
  <2>2. /\ line' \in [Client -> Requests \cup {None}]
        /\ harness' \in [Client -> Waiting \cup {"new", "connected", "open", "ended"}]
        /\ \A d \in Client : d # c => harness'[d] = harness[d]
        /\ harness'[c] = wait
    BY <2>1 DEF Links, TypeOK, Shape
  <2>3. wait \notin {"new", "ended"}
    BY DEF Waiting
  <2>4. TypeOK'
    BY <1>1, <2>1, <2>2 DEF Links, TypeOK
  <2>5. Shape'
    BY <1>1, <2>1, <2>2 DEF Links, Shape
  <2>6. Ends'
    BY <1>1, <2>1, <2>2, <2>3 DEF Links, Ends
  <2> QED BY <2>4, <2>5, <2>6 DEF Links
<1>3. CASE "daemon" \notin open[c]
  <2>1. /\ line' = line /\ harness' = [harness EXCEPT ![c] = "ended"]
        /\ open' = [open EXCEPT ![c] = open[c] \ {"client"}]
    BY <1>3 DEF Write
  <2>2. /\ harness' \in [Client -> Waiting \cup {"new", "connected", "open", "ended"}]
        /\ \A d \in Client : d # c => harness'[d] = harness[d] /\ open'[d] = open[d]
        /\ harness'[c] = "ended" /\ open'[c] = open[c] \ {"client"}
        /\ open' \in [Client -> SUBSET {"client", "daemon"}]
    BY <2>1 DEF Links, TypeOK, Shape
  <2>3. \A d \in Client : "daemon" \in open'[d] <=> "daemon" \in open[d]
    BY <2>2
  <2>4. TypeOK'
    BY <1>1, <2>1, <2>2, <2>3 DEF Links, TypeOK
  <2>5. Shape'
    BY <1>1, <2>1, <2>2 DEF Links, Shape
  <2>6. Ends'
    BY <1>1, <2>1, <2>2 DEF Links, Ends
  <2> QED BY <2>4, <2>5, <2>6 DEF Links
<1> QED BY <1>2, <1>3

(* Every step keeps the links.                                             *)
LEMMA LinksStep == Links /\ [Next]_vars => Links'
<1> SUFFICES ASSUME Links, [Next]_vars PROVE Links'
  OBVIOUS
<1> USE ScriptAssumption, NoneAssumption
<1>1. CASE CheckShutdown
  <2>1. CASE shutdown
    BY <1>1, <2>1, CloseLinks DEF CheckShutdown, client
  <2>2. CASE ~shutdown
    BY <1>1, <2>2
       DEF CheckShutdown, Links, TypeOK, Shape, Ends, Serving, client
  <2> QED BY <2>1, <2>2
<1>2. CASE Accept
  BY <1>2, TailSet
     DEF Accept, Links, TypeOK, Shape, Ends, Serving, client, wire
<1>3. CASE NobodyThere
  BY <1>3 DEF NobodyThere, Links, TypeOK, Shape, Ends, Serving, client, wire
<1>4. CASE ReadOpening
  BY <1>4
     DEF ReadOpening, Take, Record, Links, TypeOK, Shape, Ends, Serving,
         Responses, client
<1>5. CASE ReadTurn
  BY <1>5
     DEF ReadTurn, Take, Record, Links, TypeOK, Shape, Ends, Serving, client
<1>6. CASE ReadSnapshot
  BY <1>6
     DEF ReadSnapshot, Take, Record, Links, TypeOK, Shape, Ends, Serving,
         Responses, client
<1>7. CASE ReadEnd
  BY <1>7, ReturnLinks DEF ReadEnd, Serving, client
<1>8. CASE Count
  BY <1>8
     DEF Count, Links, TypeOK, Shape, Ends, Serving, Responses, client, wire
<1>9. CASE Answer
  <2>1. CASE "client" \in open[conn]
    BY <1>9, <2>1 DEF Answer, Links, TypeOK, Shape, Ends, Serving, client
  <2>2. CASE "client" \notin open[conn]
    BY <1>9, <2>2, ReturnLinks DEF Answer, Serving, client
  <2> QED BY <2>1, <2>2
<1>10. CASE End
  BY <1>10, ReturnLinks DEF End, Serving, client
<1>11. CASE AcceptFails
  BY <1>11, CloseLinks DEF AcceptFails, client
<1>12. CASE SetShutdown
  BY <1>12 DEF SetShutdown, Links, TypeOK, Shape, Ends, client, wire
<1>13. CASE Join
  BY <1>13 DEF Join, Links, TypeOK, Shape, Ends, client, wire
<1>14. ASSUME NEW c \in Client, Connect(c) PROVE Links'
  <2>1. CASE file /\ pc # "done"
    <3>1. /\ ToSet(backlog') = ToSet(backlog) \cup {c}
          /\ c \notin ToSet(backlog) /\ c # conn
          /\ backlog' \in Seq(Client)
      <4>1. backlog' = Append(backlog, c) /\ harness[c] = "new" /\ backlog \in Seq(Client)
        BY <1>14, <2>1 DEF Connect, Links, Shape
      <4>2. c \notin ToSet(backlog) /\ c # conn
        BY <4>1 DEF Links, Ends
      <4> QED BY <4>1, <4>2, AppendSet
    <3>2. \A i, j \in DOMAIN backlog' : backlog'[i] = backlog'[j] => i = j
      BY <1>14, <2>1, <3>1 DEF Connect, Links, Shape, ToSet
    <3>3. /\ open' = [open EXCEPT ![c] = {"client", "daemon"}]
          /\ harness' = [harness EXCEPT ![c] = "connected"]
          /\ UNCHANGED <<shutdown, pc, conn, response, transcript, served, owner, file,
                         line, reply, late>>
      BY <1>14, <2>1 DEF Connect
    <3>4. TypeOK'
      BY <2>1, <3>1, <3>3 DEF Links, TypeOK, Shape, Serving
    <3>5. Shape'
      BY <2>1, <3>1, <3>2, <3>3 DEF Links, TypeOK, Shape
    <3>6. Ends'
      BY <2>1, <3>1, <3>3 DEF Links, TypeOK, Shape, Ends
    <3> QED BY <3>4, <3>5, <3>6 DEF Links
  <2>2. CASE ~(file /\ pc # "done")
    BY <1>14, <2>2 DEF Connect, Links, TypeOK, Shape, Ends, Serving
  <2> QED BY <2>1, <2>2
<1>15. ASSUME NEW c \in Client, Open(c) PROVE Links'
  BY <1>15, WriteLinks DEF Open, Waiting, Requests
<1>16. ASSUME NEW c \in Client, Generate(c) PROVE Links'
  BY <1>16, WriteLinks DEF Generate, Waiting, Requests
<1>17. ASSUME NEW c \in Client, Send(c) PROVE Links'
  BY <1>17, WriteLinks DEF Send, Waiting, Requests
<1>18. ASSUME NEW c \in Client, Snapshot(c) PROVE Links'
  BY <1>18, WriteLinks DEF Snapshot, Waiting, Requests
<1>19. ASSUME NEW c \in Client, HangUp(c) PROVE Links'
  BY <1>19 DEF HangUp, Links, TypeOK, Shape, Ends, Waiting, daemon
<1>20. ASSUME NEW c \in Client, Hear(c) PROVE Links'
  BY <1>20
     DEF Hear, Returns, After, Links, TypeOK, Shape, Ends, Waiting, daemon
<1>21. ASSUME NEW c \in Client, HearEnd(c) PROVE Links'
  BY <1>21
     DEF HearEnd, Returns, After, Links, TypeOK, Shape, Ends, Waiting, daemon
<1>22. CASE UNCHANGED vars
  BY <1>22 DEF Links, TypeOK, Shape, Ends, vars, daemon, client, wire
<1>23. CASE Over
  BY <1>22, <1>23 DEF Over
<1> QED
  BY <1>1, <1>2, <1>3, <1>4, <1>5, <1>6, <1>7, <1>8, <1>9, <1>10, <1>11,
     <1>12, <1>13, <1>14,
     <1>15, <1>16, <1>17, <1>18, <1>19, <1>20, <1>21, <1>22, <1>23
     DEF Next, Thread, Talks, Reads

---------------------------------------------------------------------------
(* A call, from the request to the reply                                   *)

(* The request a client in a call has written.                             *)
Asks(state) == CASE state = "opening" -> "open" [] state = "generating" -> "generate"
                 [] state = "sending" -> "turn" [] state = "saving" -> "snapshot"

(* The replies to it.                                                      *)
Suits(state, answer) ==
    \/ answer = Err /\ state \in {"generating", "sending"}
    \/ answer = Opened /\ state = "opening"
    \/ answer.kind = "turn" /\ state = "sending"
    \/ answer = Snapshotted /\ state = "saving"

(* At most one line is on its way, and none is while the thread works.     *)
OneLine(c) ==
    /\ line[c] # None => reply[c] = None
    /\ c = conn /\ pc \in {"opening", "count", "answer"} => reply[c] = None
    /\ c \in ToSet(backlog) => reply[c] = None
    /\ harness[c] = "new" => line[c] = None /\ reply[c] = None
    /\ c = conn /\ pc \in {"count", "answer"} => line[c] = None

(* Request, reply and the thread's place fit what the client is doing.     *)
Exchange(c) ==
    /\ line[c] # None => harness[c] \in Waiting /\ line[c] = Asks(harness[c])
    /\ line[c] # None /\ harness[c] \in {"sending", "saving"} => c = conn
    /\ reply[c] # None => harness[c] \in Waiting /\ Suits(harness[c], reply[c])
    /\ c \in ToSet(backlog) \/ (c = conn /\ pc = "opening") =>
        harness[c] \in {"connected", "opening", "generating"}
    /\ c = conn /\ pc = "turns" =>
        /\ harness[c] \in {"opening", "open", "sending", "saving"}
        /\ harness[c] = "opening" => reply[c] # None
    /\ c = conn /\ pc = "count" => harness[c] = "sending"
    /\ c = conn /\ pc = "answer" => Suits(harness[c], response)

(* What is true of one client, gone or not.                                *)
Call(c) == OneLine(c) /\ (harness[c] \notin {"new", "ended"} => Exchange(c))

(* ... and of every client.                                                *)
Calls == \A c \in Client : Call(c)

(* At the start nobody calls.                                              *)
LEMMA CallsInit == Init => Calls
BY ScriptAssumption, EmptySet DEF Init, Calls, Call, OneLine

(* A step that leaves a client and the thread's place with it alone.       *)
LEMMA Bystander ==
    ASSUME NEW d \in Client, Call(d),
           harness'[d] = harness[d],
           line'[d] = None \/ (line'[d] = line[d] /\ (d = conn => d = conn')),
           reply'[d] = reply[d],
           d \in ToSet(backlog') => d \in ToSet(backlog),
           d # conn' \/ UNCHANGED <<conn, pc, response>>
    PROVE  Call(d)'
BY DEF Call, OneLine, Exchange

(* The thread closes the connection it serves.                             *)
LEMMA ReturnCalls ==
    ASSUME Links, Calls, pc \in Serving, Return, UNCHANGED <<backlog, harness, reply>>
    PROVE  Calls'
<1> SUFFICES ASSUME NEW d \in Client PROVE Call(d)'
  BY DEF Calls
<1>1. d # conn' /\ line'[d] = IF d = conn THEN None ELSE line[d]
  BY ScriptAssumption DEF Return, Links, Shape
<1> QED BY <1>1, Bystander DEF Calls

(* The listener closes.                                                    *)
LEMMA CloseCalls ==
    ASSUME Links, Calls, pc \in {"check", "accept"}, CloseListener,
           UNCHANGED <<conn, harness, line, reply>>
    PROVE  Calls'
<1> SUFFICES ASSUME NEW d \in Client PROVE Call(d)'
  BY DEF Calls
<1>1. d # conn' /\ d \notin ToSet(backlog')
  BY ScriptAssumption, EmptySet DEF CloseListener, Links, TypeOK, Serving
<1> QED BY <1>1, Bystander DEF Calls

(* Every step keeps request, reply and the places of both sides in         *)
(* agreement.                                                              *)
LEMMA CallsStep == Links /\ Calls /\ [Next]_vars => Calls'
<1> SUFFICES ASSUME Links, Calls, [Next]_vars PROVE Calls'
  OBVIOUS
<1> USE ScriptAssumption, NoneAssumption
<1>1. CASE CheckShutdown
  <2>1. CASE shutdown
    BY <1>1, <2>1, CloseCalls DEF CheckShutdown, client
  <2>2. CASE ~shutdown
    BY <1>1, <2>2, Bystander
       DEF CheckShutdown, Calls, Links, TypeOK, Serving, client
  <2> QED BY <2>1, <2>2
<1>2. CASE Accept
  <2> SUFFICES ASSUME NEW d \in Client PROVE Call(d)'
    BY DEF Calls
  <2>1. /\ pc' = "opening" /\ conn' \in ToSet(backlog) /\ conn = None
        /\ ToSet(backlog') = ToSet(backlog) \ {conn'}
        /\ UNCHANGED <<harness, line, reply>>
    BY <1>2, TailSet DEF Accept, Links, TypeOK, Shape, Serving, client, wire
  <2>2. CASE d = conn'
    BY <2>1, <2>2 DEF Calls, Call, OneLine, Exchange
  <2>3. CASE d # conn'
    BY <2>1, <2>3, Bystander DEF Calls
  <2> QED BY <2>2, <2>3
<1>3. CASE NobodyThere
  BY <1>3, Bystander
     DEF NobodyThere, Calls, Links, TypeOK, Serving, client, wire
<1>4. CASE ReadOpening
  <2> SUFFICES ASSUME NEW d \in Client PROVE Call(d)'
    BY DEF Calls
  <2>1. /\ pc = "opening" /\ line[conn] # None /\ pc' = "answer" /\ conn' = conn
        /\ conn \in Client /\ response' = IF line[conn] = "open" THEN Opened ELSE Err
        /\ line' = [line EXCEPT ![conn] = None] /\ line \in [Client -> Requests \cup {None}]
        /\ conn \notin ToSet(backlog)
        /\ UNCHANGED <<backlog, harness, reply>>
    BY <1>4 DEF ReadOpening, Take, Links, TypeOK, Shape, Serving, client
  <2>2. CASE d = conn
    <3>1. line'[d] = None /\ reply'[d] = None /\ harness'[d] = harness[d]
          /\ harness[d] # "new" /\ (harness[d] # "ended" => harness[d] \in Waiting)
      BY <2>1, <2>2 DEF Calls, Call, OneLine, Exchange, Links, Ends
    <3>2. harness[d] # "ended" => Suits(harness[d], response')
      BY <2>1, <2>2, <3>1 DEF Calls, Call, Exchange, Asks, Suits, Waiting
    <3> QED BY <2>1, <2>2, <3>1, <3>2 DEF Call, OneLine, Exchange
  <2>3. CASE d # conn
    BY <2>1, <2>3, Bystander DEF Calls
  <2> QED BY <2>2, <2>3
<1>5. CASE ReadTurn
  <2> SUFFICES ASSUME NEW d \in Client PROVE Call(d)'
    BY DEF Calls
  <2>1. /\ pc = "turns" /\ line[conn] = "turn" /\ pc' = "count" /\ conn' = conn
        /\ conn \in Client /\ conn \notin ToSet(backlog)
        /\ line' = [line EXCEPT ![conn] = None] /\ line \in [Client -> Requests \cup {None}]
        /\ UNCHANGED <<backlog, harness, reply>>
    BY <1>5 DEF ReadTurn, Take, Links, TypeOK, Shape, Serving, client
  <2>2. CASE d = conn
    <3>1. line'[d] = None /\ reply'[d] = None /\ harness'[d] = harness[d]
          /\ harness[d] # "new" /\ (harness[d] # "ended" => harness[d] \in Waiting)
      BY <2>1, <2>2 DEF Calls, Call, OneLine, Exchange, Links, Ends, Requests
    <3>2. harness[d] # "ended" => harness[d] = "sending"
      BY <2>1, <2>2, <3>1 DEF Calls, Call, Exchange, Asks, Waiting, Requests
    <3> QED BY <2>1, <2>2, <3>1, <3>2 DEF Call, OneLine, Exchange
  <2>3. CASE d # conn
    BY <2>1, <2>3, Bystander DEF Calls
  <2> QED BY <2>2, <2>3
<1>6. CASE ReadSnapshot
  <2> SUFFICES ASSUME NEW d \in Client PROVE Call(d)'
    BY DEF Calls
  <2>1. /\ pc = "turns" /\ line[conn] = "snapshot" /\ pc' = "answer" /\ conn' = conn
        /\ conn \in Client /\ conn \notin ToSet(backlog) /\ response' = Snapshotted
        /\ line' = [line EXCEPT ![conn] = None] /\ line \in [Client -> Requests \cup {None}]
        /\ UNCHANGED <<backlog, harness, reply>>
    BY <1>6 DEF ReadSnapshot, Take, Links, TypeOK, Shape, Serving, client
  <2>2. CASE d = conn
    <3>1. line'[d] = None /\ reply'[d] = None /\ harness'[d] = harness[d]
          /\ harness[d] # "new" /\ (harness[d] # "ended" => harness[d] \in Waiting)
      BY <2>1, <2>2 DEF Calls, Call, OneLine, Exchange, Links, Ends, Requests
    <3>2. harness[d] # "ended" => harness[d] = "saving"
      BY <2>1, <2>2, <3>1 DEF Calls, Call, Exchange, Asks, Waiting, Requests
    <3> QED BY <2>1, <2>2, <3>1, <3>2 DEF Call, OneLine, Exchange, Suits
  <2>3. CASE d # conn
    BY <2>1, <2>3, Bystander DEF Calls
  <2> QED BY <2>2, <2>3
<1>7. CASE ReadEnd
  BY <1>7, ReturnCalls DEF ReadEnd, Serving, client
<1>8. CASE Count
  <2> SUFFICES ASSUME NEW d \in Client PROVE Call(d)'
    BY DEF Calls
  <2>1. /\ pc = "count" /\ pc' = "answer" /\ conn' = conn /\ conn \notin ToSet(backlog)
        /\ response' = Err \/ response'.kind = "turn"
        /\ UNCHANGED <<backlog, harness, line, reply>>
    BY <1>8 DEF Count, Turn, Links, Shape, client, wire
  <2>2. CASE d = conn
    <3>1. line[d] = None /\ reply[d] = None /\ harness[d] \in {"new", "ended", "sending"}
      BY <2>1, <2>2 DEF Calls, Call, OneLine, Exchange
    <3> QED BY <2>1, <2>2, <3>1 DEF Call, OneLine, Exchange, Suits
  <2>3. CASE d # conn
    BY <2>1, <2>3, Bystander DEF Calls
  <2> QED BY <2>2, <2>3
<1>9. CASE Answer
  <2>1. CASE "client" \in open[conn]
    <3> SUFFICES ASSUME NEW d \in Client PROVE Call(d)'
      BY DEF Calls
    <3>1. /\ pc = "answer" /\ conn \in Client /\ conn' = conn /\ conn \notin ToSet(backlog)
          /\ pc' = IF response \in Final THEN "ending" ELSE "turns"
          /\ reply' = [reply EXCEPT ![conn] = response]
          /\ reply \in [Client -> Responses \cup {None}]
          /\ response # None /\ harness[conn] \notin {"new", "ended"}
          /\ UNCHANGED <<backlog, harness, line>>
      BY <1>9, <2>1 DEF Answer, Links, TypeOK, Shape, Ends, Serving, client
    <3>2. CASE d = conn
      <4>1. line[d] = None /\ Suits(harness[d], response) /\ reply'[d] = response
        BY <3>1, <3>2 DEF Calls, Call, OneLine, Exchange
      <4>2. harness[d] \in Waiting
            /\ (response \notin Final => harness[d] \in {"opening", "sending"})
        BY <4>1 DEF Suits, Waiting, Final
      <4> QED BY <3>1, <3>2, <4>1, <4>2 DEF Call, OneLine, Exchange
    <3>3. CASE d # conn
      BY <3>1, <3>3, Bystander DEF Calls
    <3> QED BY <3>2, <3>3
  <2>2. CASE "client" \notin open[conn]
    BY <1>9, <2>2, ReturnCalls DEF Answer, Serving, client
  <2> QED BY <2>1, <2>2
<1>10. CASE End
  BY <1>10, ReturnCalls DEF End, Serving, client
<1>11. CASE AcceptFails
  BY <1>11, CloseCalls DEF AcceptFails, client
<1>12. CASE SetShutdown \/ Join \/ UNCHANGED vars
  BY <1>12, Bystander DEF SetShutdown, Join, Calls, vars, daemon, client, wire
<1>13. ASSUME NEW c \in Client, Connect(c) PROVE Calls'
  <2> SUFFICES ASSUME NEW d \in Client PROVE Call(d)'
    BY DEF Calls
  <2>1. /\ UNCHANGED <<conn, pc, response, line, reply>>
        /\ harness[c] = "new" /\ harness'[c] \in {"connected", "ended"}
        /\ d # c => harness'[d] = harness[d]
        /\ backlog \in Seq(Client) /\ backlog' \in {backlog, Append(backlog, c)}
        /\ c # conn /\ c \notin ToSet(backlog)
    BY <1>13 DEF Connect, Links, TypeOK, Shape, Ends
  <2>2. d \in ToSet(backlog') => d = c \/ d \in ToSet(backlog)
    BY <2>1, AppendSet, ToSet(Append(backlog, c)) = ToSet(backlog) \cup {c}
  <2>3. CASE d = c
    BY <2>1, <2>2, <2>3 DEF Calls, Call, OneLine, Exchange
  <2>4. CASE d # c
    BY <2>1, <2>2, <2>4, Bystander DEF Calls
  <2> QED BY <2>3, <2>4
<1>14. ASSUME NEW c \in Client, NEW from, NEW request, NEW wait,
              Write(c, from, request, wait), UNCHANGED <<daemon, reply>>,
              from \in {"connected", "open"}, wait \in Waiting,
              request \in Requests, request = Asks(wait),
              from = "connected" => wait \in {"opening", "generating"},
              from = "open" => wait \in {"sending", "saving"}
       PROVE  Calls'
  <2> SUFFICES ASSUME NEW d \in Client PROVE Call(d)'
    BY DEF Calls
  <2>1. /\ UNCHANGED <<conn, pc, response, backlog, reply>> /\ harness[c] = from
        /\ d # c => harness'[d] = harness[d] /\ line'[d] = line[d]
        /\ \/ /\ harness'[c] = wait /\ line'[c] = request
              /\ (c = conn \/ c \in ToSet(backlog))
           \/ harness'[c] = "ended" /\ line'[c] = line[c]
    BY <1>14 DEF Write, Links, TypeOK, Shape, daemon
  <2>2. line[c] = None /\ reply[c] = None
    BY <1>14, <2>1 DEF Calls, Call, Exchange, Waiting
  <2>3. CASE d = c /\ harness'[c] = wait /\ line'[c] = request
    BY <1>14, <2>1, <2>2, <2>3
       DEF Calls, Call, OneLine, Exchange, Suits, Waiting
  <2>4. CASE d = c /\ harness'[c] = "ended" /\ line'[c] = line[c]
    BY <2>1, <2>2, <2>4 DEF Calls, Call, OneLine
  <2>5. CASE d # c
    BY <2>1, <2>5, Bystander DEF Calls
  <2> QED BY <2>1, <2>3, <2>4, <2>5
<1>15. ASSUME NEW c \in Client, Open(c) \/ Generate(c) \/ Send(c) \/ Snapshot(c)
       PROVE  Calls'
  BY <1>14, <1>15 DEF Open, Generate, Send, Snapshot, Waiting, Requests, Asks
<1>16. ASSUME NEW c \in Client, HangUp(c) PROVE Calls'
  <2> SUFFICES ASSUME NEW d \in Client PROVE Call(d)'
    BY DEF Calls
  <2>1. /\ UNCHANGED <<conn, pc, response, backlog, line, reply>>
        /\ harness'[c] = "ended" /\ (d # c => harness'[d] = harness[d])
    BY <1>16 DEF HangUp, Links, TypeOK, daemon
  <2>2. CASE d = c
    BY <2>1, <2>2 DEF Calls, Call, OneLine
  <2>3. CASE d # c
    BY <2>1, <2>3, Bystander DEF Calls
  <2> QED BY <2>2, <2>3
<1>17. ASSUME NEW c \in Client, Hear(c) PROVE Calls'
  <2> SUFFICES ASSUME NEW d \in Client PROVE Call(d)'
    BY DEF Calls
  <2>1. /\ UNCHANGED <<conn, pc, response, backlog, line>>
        /\ harness[c] \in Waiting /\ reply[c] # None /\ reply'[c] = None
        /\ harness'[c] = After(c, reply[c] # Err)
        /\ d # c => harness'[d] = harness[d] /\ reply'[d] = reply[d]
    BY <1>17 DEF Hear, Returns, Links, TypeOK, Shape, daemon
  <2>2. CASE d = c
    <3>1. /\ line[c] = None /\ c \notin ToSet(backlog)
          /\ c = conn => pc \notin {"opening", "count", "answer"}
          /\ harness'[c] \in {"open", "ended"}
      BY <2>1 DEF Calls, Call, OneLine, After
    <3> QED BY <2>1, <2>2, <3>1 DEF Call, OneLine, Exchange
  <2>3. CASE d # c
    BY <2>1, <2>3, Bystander DEF Calls
  <2> QED BY <2>2, <2>3
<1>18. ASSUME NEW c \in Client, HearEnd(c) PROVE Calls'
  <2> SUFFICES ASSUME NEW d \in Client PROVE Call(d)'
    BY DEF Calls
  <2>1. /\ UNCHANGED <<conn, pc, response, backlog, line, reply>>
        /\ harness[c] \in Waiting /\ reply[c] = None /\ harness'[c] = After(c, FALSE)
        /\ c # conn /\ c \notin ToSet(backlog)
        /\ d # c => harness'[d] = harness[d]
    BY <1>18 DEF HearEnd, Returns, Links, TypeOK, daemon
  <2>2. CASE d = c
    <3>1. harness'[c] = "ended" \/ (harness'[c] = "open" /\ line[c] = None)
      BY <2>1 DEF After, Calls, Call, Exchange, Waiting
    <3> QED BY <2>1, <2>2, <3>1 DEF Call, OneLine, Exchange
  <2>3. CASE d # c
    BY <2>1, <2>3, Bystander DEF Calls
  <2> QED BY <2>2, <2>3
<1>19. CASE Over
  BY <1>12, <1>19 DEF Over
<1> QED
  BY <1>1, <1>2, <1>3, <1>4, <1>5, <1>6, <1>7, <1>8, <1>9, <1>10, <1>11,
     <1>12, <1>13,
     <1>15, <1>16, <1>17, <1>18, <1>19
     DEF Next, Thread, Talks, Reads

---------------------------------------------------------------------------
(* A line more in a list adds one to the number of the lines of a kind, or *)
(* nothing.                                                                *)
LEMMA CountAppend ==
    ASSUME NEW S, NEW s \in Seq(S), NEW x \in S, NEW T
    PROVE  /\ Cardinality({i \in DOMAIN s : s[i] \in T}) \in Nat
           /\ Cardinality({i \in DOMAIN Append(s, x) : Append(s, x)[i] \in T}) =
                Cardinality({i \in DOMAIN s : s[i] \in T}) + (IF x \in T THEN 1 ELSE 0)
<1> DEFINE t == Append(s, x)  n == Len(s)
           A == {i \in DOMAIN s : s[i] \in T}  B == {i \in DOMAIN t : t[i] \in T}
<1>1. /\ n \in Nat /\ DOMAIN s = 1..n /\ DOMAIN t = 1..(n + 1)
      /\ t[n + 1] = x /\ \A i \in 1..n : t[i] = s[i]
  OBVIOUS
<1>2. IsFiniteSet(A) /\ n + 1 \notin A
  <2>1. IsFiniteSet(1..n) /\ A \subseteq 1..n
    BY <1>1, FS_Interval
  <2> QED BY <1>1, <2>1, FS_Subset
<1>3. Cardinality(A) \in Nat
  BY <1>2, FS_CardinalityType
<1>4. B = IF x \in T THEN A \cup {n + 1} ELSE A
  <2>1. \A i : i \in 1..(n + 1) <=> i \in 1..n \/ i = n + 1
    BY <1>1
  <2> HIDE DEF t, n
  <2> QED BY <1>1, <2>1
<1>5. Cardinality(A \cup {n + 1}) = Cardinality(A) + 1
  BY <1>2, FS_AddElement
<1> HIDE DEF A, B
<1>6. Cardinality(B) = Cardinality(A) + (IF x \in T THEN 1 ELSE 0)
  BY <1>3, <1>4, <1>5
<1> QED BY <1>3, <1>6 DEF A, B, t

(* A line of the transcript.                                               *)
Entry == [by : Client, what : {"opened", "said"}]

(* An empty transcript has no turns.                                       *)
LEMMA SaidInit ==
    ASSUME transcript = <<>>
    PROVE  \A c \in Client : Said(c) = 0
<1>1. \A P : {i \in {} : P} = {}
  OBVIOUS
<1>2. DOMAIN transcript = {}
  OBVIOUS
<1> QED BY <1>2, FS_EmptySet DEF Said

(* The turns in a transcript can be counted.                               *)
LEMMA SaidType ==
    ASSUME transcript \in Seq(Entry)
    PROVE  \A c \in Client : Said(c) \in Nat
<1>1. \A A \in SUBSET DOMAIN transcript : Cardinality(A) \in Nat
  <2>1. DOMAIN transcript = 1..Len(transcript) /\ Len(transcript) \in Nat
    OBVIOUS
  <2>2. IsFiniteSet(DOMAIN transcript)
    BY <2>1, FS_Interval
  <2> QED BY <2>2, FS_Subset, FS_CardinalityType
<1> QED BY <1>1 DEF Said

(* record() adds to the turns of one client, and only when it records a    *)
(* turn.                                                                   *)
LEMMA SaidAppend ==
    ASSUME NEW c \in Client, NEW what \in {"opened", "said"},
           transcript \in Seq(Entry), Record(c, what)
    PROVE  /\ transcript' \in Seq(Entry)
           /\ \A d \in Client :
                Said(d)' = Said(d) + (IF d = c /\ what = "said" THEN 1 ELSE 0)
<1> DEFINE x == [by |-> c, what |-> what]
<1>1. x \in Entry /\ transcript' = Append(transcript, x)
  BY DEF Record, Entry
<1>2. transcript' \in Seq(Entry)
  BY <1>1
<1>3. ASSUME NEW d \in Client
      PROVE  Said(d)' = Said(d) + (IF d = c /\ what = "said" THEN 1 ELSE 0)
  <2> DEFINE y == [by |-> d, what |-> "said"]  T == {y}
  <2>1. /\ Said(d) = Cardinality({i \in DOMAIN transcript : transcript[i] \in T})
        /\ Said(d)' = Cardinality({i \in DOMAIN transcript' : transcript'[i] \in T})
    BY DEF Said
  <2>2. x \in T <=> (d = c /\ what = "said")
    OBVIOUS
  <2> HIDE DEF T, x
  <2> QED BY <1>1, <2>1, <2>2, CountAppend
<1> QED BY <1>2, <1>3

(* A reply that plays a turn of the script.                                *)
IsTurn(answer) == answer # None /\ answer.kind = "turn"

(* Turns that are in the transcript and on their way to the client.        *)
Undelivered(c) ==
    (IF IsTurn(reply[c]) THEN 1 ELSE 0)
    + (IF c = conn /\ (pc = "count" \/ (pc = "answer" /\ IsTurn(response))) THEN 1 ELSE 0)

(* What a client was or will be answered is in the transcript, and what is *)
(* in the transcript or still to be read it asked for.                     *)
Tally(c) ==
    /\ turns[c] + Undelivered(c) <= Said(c)
    /\ Said(c) + (IF line[c] = "turn" THEN 1 ELSE 0) <= sends[c]

(* The books: the transcript against the counters on both sides.           *)
Written ==
    /\ transcript \in Seq(Entry)
    /\ turns \in [Client -> Nat] /\ sends \in [Client -> Nat]
    /\ \A c \in Client : Tally(c)

(* At the start the books are empty.                                       *)
LEMMA WrittenInit == Init => Written
<1> SUFFICES ASSUME Init PROVE Written
  OBVIOUS
<1>1. \A c \in Client : Said(c) = 0
  BY SaidInit DEF Init
<1>2. \A c \in Client : Undelivered(c) = 0 /\ line[c] # "turn"
  BY NoneAssumption DEF Init, Undelivered, IsTurn, Requests
<1> QED BY <1>1, <1>2 DEF Init, Written, Tally

(* A step that records nothing and gives a client no more to come.         *)
LEMMA NothingWritten ==
    ASSUME Written, UNCHANGED <<transcript, turns, sends>>,
           \A d \in Client : line'[d] \in {line[d], None, "open", "generate", "snapshot"},
           \A d \in Client : reply'[d] = reply[d],
           conn' = None \/ UNCHANGED <<conn, pc, response>>
                        \/ pc' \notin {"count", "answer"}
                        \/ (pc' = "answer" /\ ~IsTurn(response')),
           pc' = "count" => pc = "count"
    PROVE  Written'
<1> USE ScriptAssumption, NoneAssumption
<1>1. \A d \in Client : Said(d)' = Said(d)
  BY DEF Said
<1>2. ASSUME NEW d \in Client PROVE Tally(d)'
  <2>1. Said(d) \in Nat /\ turns[d] \in Nat /\ sends[d] \in Nat
    BY SaidType DEF Written
  <2>2. /\ Undelivered(d)' <= Undelivered(d)
        /\ Undelivered(d) \in Nat /\ Undelivered(d)' \in Nat
    BY DEF Undelivered, IsTurn
  <2>3. line'[d] = "turn" => line[d] = "turn"
    BY DEF Requests
  <2>4. turns'[d] = turns[d] /\ sends'[d] = sends[d] /\ Said(d)' = Said(d) /\ Tally(d)
    BY <1>1 DEF Written
  <2> QED BY <2>1, <2>2, <2>3, <2>4 DEF Tally
<1> QED BY <1>2 DEF Written

(* Every step keeps the books.                                             *)
LEMMA WrittenStep == Links /\ Calls /\ Written /\ [Next]_vars => Written'
<1> SUFFICES ASSUME Links, Calls, Written, [Next]_vars PROVE Written'
  OBVIOUS
<1> USE ScriptAssumption, NoneAssumption
<1>1. /\ transcript \in Seq(Entry)
      /\ \A d \in Client : /\ Said(d) \in Nat /\ turns[d] \in Nat /\ sends[d] \in Nat
                           /\ Tally(d)
  BY SaidType DEF Written, Links, TypeOK
<1>3. CASE CheckShutdown \/ AcceptFails
  BY <1>3, NothingWritten
     DEF CheckShutdown, AcceptFails, CloseListener, client, wire
<1>4. CASE Accept \/ NobodyThere
  BY <1>4, NothingWritten DEF Accept, NobodyThere, client, wire
<1>5. CASE ReadSnapshot
  BY <1>5, NothingWritten
     DEF ReadSnapshot, Take, Links, Shape, client, IsTurn, Snapshotted
<1>6. CASE ReadEnd \/ End
  BY <1>6, NothingWritten DEF ReadEnd, End, Return, Links, Shape, client
<1>7. CASE SetShutdown \/ Join \/ UNCHANGED vars
  BY <1>7, NothingWritten DEF SetShutdown, Join, vars, daemon, client, wire
<1>8. ASSUME NEW c \in Client, \/ Connect(c) \/ Open(c) \/ Generate(c) \/ Snapshot(c)
                               \/ HangUp(c) \/ HearEnd(c)
      PROVE  Written'
  BY <1>8, NothingWritten
     DEF Connect, Open, Generate, Snapshot, Write, HangUp, HearEnd, Returns,
         daemon,
         Links, Shape
<1>9. CASE ReadOpening
  <2>1. /\ UNCHANGED <<turns, sends, reply, served, conn>>
        /\ conn \in Client /\ pc = "opening" /\ pc' = "answer"
        /\ \A d \in Client : line'[d] \in {line[d], None}
        /\ ~IsTurn(response')
    BY <1>9
       DEF ReadOpening, Take, Links, TypeOK, Shape, Serving, client, IsTurn,
           Opened, Err
  <2>2. CASE line[conn] # "open"
    BY <1>9, <2>1, <2>2, NothingWritten DEF ReadOpening
  <2>3. CASE line[conn] = "open"
    <3>1. Record(conn, "opened")
      BY <1>9, <2>3 DEF ReadOpening
    <3>2. /\ transcript' \in Seq(Entry)
          /\ \A d \in Client : Said(d)' = Said(d)
      BY <1>1, <2>1, <3>1, SaidAppend
    <3>3. ASSUME NEW d \in Client PROVE Tally(d)'
      <4>1. Undelivered(d)' = Undelivered(d) /\ Undelivered(d) \in Nat
        BY <2>1 DEF Undelivered
      <4> QED BY <1>1, <2>1, <3>2, <4>1 DEF Tally, Requests
    <3> QED BY <1>1, <2>1, <3>2, <3>3 DEF Written
  <2> QED BY <2>2, <2>3
<1>10. CASE ReadTurn
  <2>1. /\ UNCHANGED <<turns, sends, reply, served, conn>>
        /\ conn \in Client /\ pc = "turns" /\ pc' = "count" /\ line[conn] = "turn"
        /\ \A d \in Client : line'[d] = IF d = conn THEN None ELSE line[d]
        /\ Record(conn, "said")
    BY <1>10 DEF ReadTurn, Take, Links, TypeOK, Shape, Serving, client
  <2>2. /\ transcript' \in Seq(Entry)
        /\ \A d \in Client : Said(d)' = Said(d) + (IF d = conn THEN 1 ELSE 0)
    BY <1>1, <2>1, SaidAppend
  <2>3. ASSUME NEW d \in Client PROVE Tally(d)'
    <3>1. /\ Undelivered(d)' = Undelivered(d) + (IF d = conn THEN 1 ELSE 0)
          /\ Undelivered(d) \in Nat
      BY <2>1 DEF Undelivered
    <3>2. CASE d = conn
      BY <1>1, <2>1, <2>2, <3>1, <3>2 DEF Tally, Requests
    <3>3. CASE d # conn
      <4>1. /\ Said(d)' = Said(d) /\ line'[d] = line[d] /\ Undelivered(d)' = Undelivered(d)
            /\ turns'[d] = turns[d] /\ sends'[d] = sends[d] /\ Tally(d)
        BY <1>1, <2>1, <2>2, <3>1, <3>3
      <4> QED BY <4>1 DEF Tally
    <3> QED BY <3>2, <3>3
  <2> QED BY <1>1, <2>1, <2>2, <2>3 DEF Written
<1>11. CASE Count
  <2>1. /\ UNCHANGED <<turns, sends, reply, conn, line, transcript>>
        /\ pc = "count" /\ pc' = "answer" /\ served' = served + 1
    BY <1>11 DEF Count, client, wire
  <2>2. \A d \in Client : Said(d)' = Said(d)
    BY <2>1 DEF Said
  <2>3. ASSUME NEW d \in Client PROVE Tally(d)'
    <3>1. /\ Undelivered(d)' <= Undelivered(d) /\ Undelivered(d)' \in Nat
          /\ Undelivered(d) \in Nat
      BY <2>1 DEF Undelivered
    <3> QED BY <1>1, <2>1, <2>2, <3>1 DEF Tally
  <2> QED BY <1>1, <2>1, <2>2, <2>3 DEF Written
<1>12. CASE Answer
  <2>1. CASE "client" \notin open[conn]
    BY <1>12, <2>1, NothingWritten DEF Answer, Return, Links, Shape, client
  <2>2. CASE "client" \in open[conn]
    <3>1. /\ UNCHANGED <<turns, sends, served, conn, line, transcript>>
          /\ conn \in Client /\ pc = "answer" /\ pc' \in {"ending", "turns"}
          /\ \A d \in Client : reply'[d] = IF d = conn THEN response ELSE reply[d]
          /\ reply[conn] = None
      BY <1>12, <2>2
         DEF Answer, Links, TypeOK, Shape, Serving, client, Calls, Call,
             OneLine
    <3>2. \A d \in Client : Said(d)' = Said(d)
      BY <3>1 DEF Said
    <3>3. ASSUME NEW d \in Client PROVE Tally(d)'
      <4>1. Undelivered(d)' = Undelivered(d) /\ Undelivered(d) \in Nat
        BY <3>1 DEF Undelivered, IsTurn
      <4> QED BY <1>1, <3>1, <3>2, <4>1 DEF Tally
    <3> QED BY <1>1, <3>1, <3>2, <3>3 DEF Written
  <2> QED BY <2>1, <2>2
<1>13. ASSUME NEW c \in Client, Send(c) PROVE Written'
  <2>1. /\ UNCHANGED <<turns, served, conn, pc, response, reply, transcript>>
        /\ \A d \in Client : sends'[d] = IF d = c THEN sends[d] + 1 ELSE sends[d]
        /\ \A d \in Client : d # c => line'[d] = line[d]
        /\ sends' \in [Client -> Nat]
    BY <1>13 DEF Send, Write, daemon, Links, Shape, Written
  <2>2. \A d \in Client : Said(d)' = Said(d)
    BY <2>1 DEF Said
  <2>3. ASSUME NEW d \in Client PROVE Tally(d)'
    <3>1. Undelivered(d)' = Undelivered(d) /\ Undelivered(d) \in Nat
      BY <2>1 DEF Undelivered
    <3>2. /\ Said(d) \in Nat /\ turns[d] \in Nat /\ sends[d] \in Nat
          /\ Said(d)' = Said(d) /\ turns'[d] = turns[d]
      BY <1>1, <2>1, <2>2
    <3>3. /\ turns[d] + Undelivered(d) <= Said(d)
          /\ Said(d) + (IF line[d] = "turn" THEN 1 ELSE 0) <= sends[d]
      BY <1>1 DEF Tally
    <3>4. turns'[d] + Undelivered(d)' <= Said(d)'
      BY <3>1, <3>2, <3>3
    <3>5. Said(d)' + (IF line'[d] = "turn" THEN 1 ELSE 0) <= sends'[d]
      <4>1. CASE d = c
        <5>1. sends'[d] = sends[d] + 1
          BY <2>1, <4>1
        <5>2. Said(d) <= sends[d]
          BY <3>2, <3>3
        <5> QED BY <3>2, <5>1, <5>2
      <4>2. CASE d # c
        <5>1. sends'[d] = sends[d] /\ line'[d] = line[d]
          BY <2>1, <4>2
        <5> QED BY <3>2, <3>3, <5>1
      <4> QED BY <4>1, <4>2
    <3> QED BY <3>4, <3>5 DEF Tally
  <2> QED BY <1>1, <2>1, <2>2, <2>3 DEF Written
<1>14. ASSUME NEW c \in Client, Hear(c) PROVE Written'
  <2>1. /\ UNCHANGED <<sends, served, conn, pc, response, line, transcript>>
        /\ reply[c] # None
        /\ \A d \in Client :
            /\ turns'[d] = IF d = c /\ IsTurn(reply[c]) THEN turns[d] + 1 ELSE turns[d]
            /\ reply'[d] = IF d = c THEN None ELSE reply[d]
        /\ turns' \in [Client -> Nat]
    <3>1. /\ UNCHANGED <<sends, served, conn, pc, response, line, transcript>>
          /\ reply[c] # None /\ reply' = [reply EXCEPT ![c] = None]
          /\ DOMAIN reply = Client /\ turns \in [Client -> Nat]
      BY <1>14 DEF Hear, daemon, Links, Shape, Written
    <3>2. CASE reply[c].kind = "turn"
      BY <1>14, <3>1, <3>2 DEF Hear, IsTurn
    <3>3. CASE reply[c].kind # "turn"
      BY <1>14, <3>1, <3>3 DEF Hear, IsTurn
    <3> QED BY <3>2, <3>3
  <2>2. \A d \in Client : Said(d)' = Said(d)
    BY <2>1 DEF Said
  <2>3. ASSUME NEW d \in Client PROVE Tally(d)'
    <3>1. /\ Undelivered(d) = Undelivered(d)'
                              + (IF d = c /\ IsTurn(reply[c]) THEN 1 ELSE 0)
          /\ Undelivered(d)' \in Nat
      BY <2>1 DEF Undelivered, IsTurn
    <3>2. /\ Said(d) \in Nat /\ turns[d] \in Nat /\ sends[d] \in Nat
          /\ Said(d)' = Said(d) /\ sends'[d] = sends[d] /\ line'[d] = line[d]
      BY <1>1, <2>1, <2>2
    <3>3. /\ turns[d] + Undelivered(d) <= Said(d)
          /\ Said(d) + (IF line[d] = "turn" THEN 1 ELSE 0) <= sends[d]
      BY <1>1 DEF Tally
    <3>4. turns'[d] = turns[d] + (IF d = c /\ IsTurn(reply[c]) THEN 1 ELSE 0)
      BY <2>1, <3>2
    <3>5. turns'[d] + Undelivered(d)' <= Said(d)'
      BY <3>1, <3>2, <3>3, <3>4
    <3>6. Said(d)' + (IF line'[d] = "turn" THEN 1 ELSE 0) <= sends'[d]
      BY <3>2, <3>3
    <3> QED BY <3>5, <3>6 DEF Tally
  <2> QED BY <1>1, <2>1, <2>2, <2>3 DEF Written
<1>15. CASE Over
  BY <1>7, <1>15 DEF Over
<1> QED
  BY <1>3, <1>4, <1>5, <1>6, <1>7, <1>8, <1>9, <1>10, <1>11, <1>12, <1>13,
     <1>14, <1>15
     DEF Next, Thread, Talks, Reads

---------------------------------------------------------------------------
(* The turns of the script that have been sent.                            *)
Played == IF pc = "answer" /\ IsTurn(response) THEN served - 1 ELSE served

(* A client hears turns that were sent, each later than those before.      *)
Rising(c) ==
    /\ \A i \in DOMAIN heard[c] : heard[c][i] <= Played
    /\ \A i, j \in DOMAIN heard[c] : i < j => heard[c][i] < heard[c][j]
    /\ IsTurn(reply[c]) =>
        /\ reply[c].turn <= Played
        /\ \A i \in DOMAIN heard[c] : heard[c][i] < reply[c].turn

(* What one client heard or is about to hear, no other one does.           *)
Apart(c, d) ==
    /\ \A i \in DOMAIN heard[c], j \in DOMAIN heard[d] : heard[c][i] # heard[d][j]
    /\ IsTurn(reply[c]) => \A j \in DOMAIN heard[d] : reply[c].turn # heard[d][j]
    /\ IsTurn(reply[c]) /\ IsTurn(reply[d]) => reply[c].turn # reply[d].turn

(* The turn that is about to be sent is the latest one.                    *)
NextTurn == pc = "answer" /\ IsTurn(response) => response.turn = served

(* How the script has been played so far.                                  *)
Script ==
    /\ heard \in [Client -> Seq(Nat)]
    /\ NextTurn
    /\ \A c \in Client : Rising(c)
    /\ \A c, d \in Client : c # d => Apart(c, d)

(* At the start nothing has been played.                                   *)
LEMMA ScriptInit == Init => Script
BY DEF Init, Script, NextTurn, Rising, Apart, IsTurn

(* Turns of the script are numbers.                                        *)
LEMMA PlayedType ==
    Links => /\ Played \in Int
             /\ \A c \in Client : IsTurn(reply[c]) => reply[c].turn \in Nat
BY NoneAssumption, ScriptAssumption
   DEF Links, TypeOK, Responses, Played, IsTurn, Opened, Err, Snapshotted, Turn

(* A step that sends nothing and tells nobody anything.                    *)
LEMMA NothingPlayed ==
    ASSUME Links, Links', Script, heard' = heard, Played' >= Played,
           \A d \in Client : reply'[d] = reply[d], NextTurn'
    PROVE  Script'
<1>1. /\ Played \in Int /\ Played' \in Int
      /\ \A d \in Client : IsTurn(reply[d]) => reply[d].turn \in Nat
  BY PlayedType DEF Links, TypeOK, Played
<1>2. ASSUME NEW c \in Client PROVE Rising(c)'
  <2>1. /\ Rising(c) /\ heard[c] \in Seq(Nat)
        /\ \A i \in DOMAIN heard[c] : heard[c][i] \in Nat
    BY DEF Script
  <2> QED BY <1>1, <2>1 DEF Rising, IsTurn
<1>3. ASSUME NEW c \in Client, NEW d \in Client, c # d PROVE Apart(c, d)'
  BY <1>3 DEF Script, Apart, IsTurn
<1> QED BY <1>2, <1>3 DEF Script

(* Every step plays the script on, and once.                               *)
LEMMA ScriptStep == Links /\ Links' /\ Calls /\ Script /\ [Next]_vars => Script'
<1> SUFFICES ASSUME Links, Links', Calls, Script, [Next]_vars PROVE Script'
  OBVIOUS
<1> USE ScriptAssumption, NoneAssumption
<1>1. /\ Played \in Int /\ Played' \in Int /\ served \in Nat /\ served' \in Nat
      /\ \A d \in Client : IsTurn(reply[d]) => reply[d].turn \in Nat
  BY PlayedType DEF Links, TypeOK, Played
<1>2. CASE CheckShutdown \/ AcceptFails \/ Accept \/ NobodyThere \/ ReadTurn
  <2>1. /\ UNCHANGED <<heard, reply, served>> /\ pc # "answer" /\ pc' # "answer"
    BY <1>2
       DEF CheckShutdown, AcceptFails, CloseListener, Accept, NobodyThere,
           ReadTurn, client, wire
  <2> QED BY <1>1, <2>1, NothingPlayed DEF Played, NextTurn
<1>3. CASE ReadOpening \/ ReadSnapshot
  <2>1. /\ UNCHANGED <<heard, reply, served>>
        /\ response' \in {Opened, Err, Snapshotted}
    BY <1>3 DEF ReadOpening, ReadSnapshot, client
  <2>2. ~IsTurn(response')
    BY <2>1 DEF IsTurn, Opened, Err, Snapshotted
  <2> QED BY <1>1, <2>1, <2>2, NothingPlayed DEF Played, NextTurn
<1>4. CASE ReadEnd \/ End
  <2>1. UNCHANGED <<heard, reply, served>> /\ pc # "answer" /\ pc' # "answer"
    BY <1>4 DEF ReadEnd, End, Return, client
  <2> QED BY <1>1, <2>1, NothingPlayed DEF Played, NextTurn
<1>5. CASE SetShutdown \/ Join \/ UNCHANGED vars
  <2>1. UNCHANGED <<heard, reply, pc, response, served>>
    BY <1>5 DEF SetShutdown, Join, vars, daemon, client, wire
  <2> QED BY <1>1, <2>1, NothingPlayed DEF Played, NextTurn, Script
<1>6. ASSUME NEW c \in Client, \/ Connect(c) \/ Open(c) \/ Generate(c) \/ Send(c)
                               \/ Snapshot(c) \/ HangUp(c) \/ HearEnd(c)
      PROVE  Script'
  <2>1. UNCHANGED <<heard, reply, pc, response, served>>
    BY <1>6
       DEF Connect, Open, Generate, Send, Snapshot, HangUp, HearEnd, daemon
  <2> QED BY <1>1, <2>1, NothingPlayed DEF Played, NextTurn, Script
<1>7. CASE Count
  <2>1. /\ UNCHANGED <<heard, reply>>
        /\ pc = "count" /\ pc' = "answer" /\ served' = served + 1
        /\ response' = IF served < ScriptLen THEN Turn(served + 1) ELSE Err
    BY <1>7 DEF Count, client, wire
  <2>2. Played' >= Played /\ NextTurn'
    BY <1>1, <2>1 DEF Played, NextTurn, IsTurn, Turn, Err
  <2> QED BY <2>1, <2>2, NothingPlayed
<1>8. CASE Answer
  <2>1. CASE "client" \notin open[conn] \/ ~IsTurn(response)
    <3>1. heard' = heard /\ pc = "answer" /\ pc' # "answer" /\ served' = served
      BY <1>8 DEF Answer, Return, client
    <3>2. CASE "client" \notin open[conn]
      <4>1. reply' = reply
        BY <1>8, <3>2 DEF Answer
      <4> QED BY <1>1, <3>1, <4>1, NothingPlayed DEF Played, NextTurn
    <3>3. CASE "client" \in open[conn]
      <4>1. /\ ~IsTurn(response) /\ conn \in Client
            /\ \A d \in Client : reply'[d] = IF d = conn THEN response ELSE reply[d]
            /\ Played' = Played
        BY <1>8, <2>1, <3>1, <3>3
           DEF Answer, Links, TypeOK, Shape, Serving, Played
      <4>2. \A c \in Client : Rising(c)'
        BY <3>1, <4>1 DEF Script, Rising
      <4>3. \A c, d \in Client : c # d => Apart(c, d)'
        BY <3>1, <4>1 DEF Script, Apart
      <4> QED BY <3>1, <4>2, <4>3 DEF Script, NextTurn
    <3> QED BY <3>2, <3>3
  <2>2. CASE "client" \in open[conn] /\ IsTurn(response)
    <3>1. /\ heard' = heard /\ pc = "answer" /\ pc' # "answer" /\ served' = served
          /\ conn \in Client
          /\ \A d \in Client : reply'[d] = IF d = conn THEN response ELSE reply[d]
          /\ response.turn = served /\ Played = served - 1 /\ Played' = served
      BY <1>8, <2>2
         DEF Answer, client, Links, TypeOK, Shape, Serving, Played, Script,
             NextTurn
    <3>2. \A c \in Client : \A i \in DOMAIN heard[c] :
            heard[c][i] \in Nat /\ heard[c][i] < served
      BY <1>1, <3>1 DEF Script, Rising
    <3>3. \A c \in Client : IsTurn(reply[c]) => reply[c].turn < served
      BY <1>1, <3>1 DEF Script, Rising
    <3>4. ASSUME NEW c \in Client PROVE Rising(c)'
      <4>1. CASE c = conn
        BY <1>1, <2>2, <3>1, <3>2, <4>1 DEF Script, Rising
      <4>2. CASE c # conn
        <5>1. Rising(c) /\ reply'[c] = reply[c] /\ heard'[c] = heard[c]
          BY <3>1, <4>2 DEF Script
        <5>2. /\ \A i \in DOMAIN heard[c] : heard[c][i] <= served
              /\ IsTurn(reply[c]) => reply[c].turn <= served
          BY <1>1, <3>2, <3>3
        <5> QED BY <3>1, <5>1, <5>2 DEF Rising
      <4> QED BY <4>1, <4>2
    <3>5. ASSUME NEW c \in Client, NEW d \in Client, c # d PROVE Apart(c, d)'
      <4>1. /\ Apart(c, d)
            /\ c # conn => reply'[c] = reply[c]
            /\ d # conn => reply'[d] = reply[d]
        BY <3>1, <3>5 DEF Script
      <4>2. /\ \A e \in Client : \A i \in DOMAIN heard[e] : heard[e][i] # served
            /\ \A e \in Client : IsTurn(reply[e]) => reply[e].turn # served
        BY <1>1, <3>2, <3>3
      <4>3. CASE c # conn /\ d # conn
        BY <3>1, <4>1, <4>3 DEF Apart
      <4>4. CASE c = conn
        BY <3>1, <3>5, <4>1, <4>2, <4>4 DEF Apart
      <4>5. CASE d = conn
        BY <3>1, <3>5, <4>1, <4>2, <4>5 DEF Apart
      <4> QED BY <4>3, <4>4, <4>5
    <3> QED BY <3>1, <3>4, <3>5 DEF Script, NextTurn
  <2> QED BY <2>1, <2>2
<1>9. ASSUME NEW c \in Client, Hear(c) PROVE Script'
  <2>1. /\ UNCHANGED <<pc, response, served>> /\ Played' = Played /\ NextTurn'
        /\ \A d \in Client : reply'[d] = IF d = c THEN None ELSE reply[d]
        /\ reply[c] # None /\ heard \in [Client -> Seq(Nat)]
    BY <1>9 DEF Hear, daemon, Links, Shape, Played, NextTurn, Script
  <2>2. CASE ~IsTurn(reply[c])
    <3>1. heard' = heard
      BY <1>9, <2>1, <2>2 DEF Hear, IsTurn
    <3>2. \A d \in Client : Rising(d)'
      BY <2>1, <3>1 DEF Script, Rising, IsTurn
    <3>3. ASSUME NEW d \in Client, NEW e \in Client, d # e PROVE Apart(d, e)'
      <4>1. Apart(d, e) /\ ~IsTurn(reply'[c])
        BY <2>1, <3>3 DEF Script, IsTurn
      <4>2. \A f \in Client : f # c => reply'[f] = reply[f]
        BY <2>1
      <4> QED BY <3>1, <4>1, <4>2 DEF Apart
    <3> QED BY <2>1, <3>1, <3>2, <3>3 DEF Script
  <2>3. CASE IsTurn(reply[c])
    <3> DEFINE n == Len(heard[c])
    <3>1. /\ heard' = [heard EXCEPT ![c] = Append(heard[c], reply[c].turn)]
          /\ reply[c].turn \in Nat
      BY <1>1, <1>9, <2>1, <2>3 DEF Hear, IsTurn
    <3>2. /\ heard' \in [Client -> Seq(Nat)] /\ n \in Nat
          /\ DOMAIN heard[c] = 1..n /\ DOMAIN heard'[c] = 1..(n + 1)
          /\ heard'[c][n + 1] = reply[c].turn
          /\ \A i \in 1..n : heard'[c][i] = heard[c][i] /\ heard[c][i] \in Nat
          /\ \A d \in Client : d # c => heard'[d] = heard[d]
      BY <2>1, <3>1
    <3> HIDE DEF n
    <3>3. \A i \in 1..(n + 1) : i \in 1..n \/ i = n + 1
      BY <3>2
    <3>4. ASSUME NEW d \in Client PROVE Rising(d)'
      <4>1. CASE d = c
        <5>1. /\ \A i \in 1..n : heard[c][i] <= Played /\ heard[c][i] < reply[c].turn
              /\ \A i, j \in 1..n : i < j => heard[c][i] < heard[c][j]
              /\ reply[c].turn <= Played
          BY <2>3, <3>2 DEF Script, Rising
        <5>2. \A i \in 1..(n + 1) : heard'[c][i] <= Played'
          BY <2>1, <3>2, <3>3, <5>1
        <5>3. \A i, j \in 1..(n + 1) : i < j => heard'[c][i] < heard'[c][j]
          <6> SUFFICES ASSUME NEW i \in 1..(n + 1), NEW j \in 1..(n + 1), i < j
                       PROVE  heard'[c][i] < heard'[c][j]
            OBVIOUS
          <6>1. i \in 1..n
            BY <3>2
          <6>2. CASE j \in 1..n
            BY <3>2, <5>1, <6>1, <6>2
          <6>3. CASE j = n + 1
            BY <3>2, <5>1, <6>1, <6>3
          <6> QED BY <3>3, <6>2, <6>3
        <5>4. ~IsTurn(reply'[c])
          BY <2>1 DEF IsTurn
        <5> QED BY <3>2, <4>1, <5>2, <5>3, <5>4 DEF Rising
      <4>2. CASE d # c
        BY <2>1, <3>2, <4>2 DEF Script, Rising
      <4> QED BY <4>1, <4>2
    <3>5. ASSUME NEW d \in Client, NEW e \in Client, d # e PROVE Apart(d, e)'
      <4>1. Apart(d, e) /\ Apart(e, d)
        BY <3>5 DEF Script
      <4>2. ~IsTurn(reply'[c]) /\ \A f \in Client : f # c => reply'[f] = reply[f]
        BY <2>1 DEF IsTurn
      <4>3. CASE d = c
        <5>1. \A i \in DOMAIN heard'[d], j \in DOMAIN heard[e] : heard'[d][i] # heard[e][j]
          <6> SUFFICES ASSUME NEW i \in 1..(n + 1), NEW j \in DOMAIN heard[e]
                       PROVE  heard'[d][i] # heard[e][j]
            BY <3>2, <4>3
          <6>1. CASE i \in 1..n
            <7>1. i \in DOMAIN heard[d] /\ heard'[d][i] = heard[d][i]
              BY <3>2, <4>3, <6>1
            <7> QED BY <4>1, <7>1 DEF Apart
          <6>2. CASE i = n + 1
            BY <2>3, <3>2, <4>1, <4>3, <6>2 DEF Apart
          <6> QED BY <3>3, <6>1, <6>2
        <5>2. heard'[e] = heard[e] /\ ~IsTurn(reply'[d])
          BY <3>2, <3>5, <4>2, <4>3
        <5> QED BY <5>1, <5>2 DEF Apart
      <4>4. CASE e = c
        <5>1. \A i \in DOMAIN heard[d], j \in DOMAIN heard'[e] : heard[d][i] # heard'[e][j]
          <6> SUFFICES ASSUME NEW i \in DOMAIN heard[d], NEW j \in 1..(n + 1)
                       PROVE  heard[d][i] # heard'[e][j]
            BY <3>2, <4>4
          <6>1. CASE j \in 1..n
            <7>1. j \in DOMAIN heard[e] /\ heard'[e][j] = heard[e][j]
              BY <3>2, <4>4, <6>1
            <7> QED BY <4>1, <7>1 DEF Apart
          <6>2. CASE j = n + 1
            BY <2>3, <3>2, <4>1, <4>4, <6>2 DEF Apart
          <6> QED BY <3>3, <6>1, <6>2
        <5>2. IsTurn(reply[d]) => \A j \in DOMAIN heard'[e] : reply[d].turn # heard'[e][j]
          BY <2>3, <3>2, <3>3, <4>1, <4>4 DEF Apart
        <5> QED BY <3>2, <3>5, <4>2, <4>4, <5>1, <5>2 DEF Apart
      <4>5. CASE d # c /\ e # c
        <5>1. /\ heard'[d] = heard[d] /\ heard'[e] = heard[e]
              /\ reply'[d] = reply[d] /\ reply'[e] = reply[e]
          BY <3>2, <4>2, <4>5
        <5> QED BY <4>1, <5>1 DEF Apart
      <4> QED BY <4>3, <4>4, <4>5
    <3> QED BY <2>1, <3>2, <3>4, <3>5 DEF Script
  <2> QED BY <2>2, <2>3
<1>10. CASE Over
  BY <1>5, <1>10 DEF Over
<1> QED
  BY <1>2, <1>3, <1>4, <1>5, <1>6, <1>7, <1>8, <1>9, <1>10
     DEF Next, Thread, Talks, Reads

---------------------------------------------------------------------------
(* Who the turns of the script were given to                               *)

(* A client has a turn before the daemon that was not counted yet.         *)
Asking(c) == line[c] = "turn" \/ (c = conn /\ pc = "count")

(* Nothing was given to the asker of turn n since.                         *)
Latest(n) == \A m \in DOMAIN given : m > n => given[m] # given[n]

(* Where turn n is: its asker heard it, or it is on its way, or its asker  *)
(* is gone for good.                                                       *)
Fate(n) ==
    LET c == given[n] IN
    \/ n \in ToSet(heard[c])
    \/ Latest(n) /\ pc = "answer" /\ conn = c /\ response = Turn(n)
    \/ Latest(n) /\ harness[c] \in Waiting /\ reply[c] = Turn(n)
    \/ Latest(n) /\ harness[c] = "ended" /\ ~Asking(c)

(* Every turn the cursor has passed was given to somebody.                 *)
Handed ==
    /\ given \in Seq(Client)
    /\ Len(given) = IF served <= ScriptLen THEN served ELSE ScriptLen
    /\ \A n \in DOMAIN given : Fate(n)

(* At the start the script is untouched.                                   *)
LEMMA HandedInit == Init => Handed
BY ScriptAssumption DEF Init, Handed

(* A step that gives, sends and tells nothing, and wakes no client that    *)
(* has gone.                                                               *)
LEMMA NothingHanded ==
    ASSUME Links, Handed, UNCHANGED <<given, served, heard, reply>>,
           pc = "answer" => UNCHANGED <<pc, conn, response>>,
           \A d \in Client :
              /\ reply[d] # None /\ harness[d] \in Waiting => harness'[d] = harness[d]
              /\ harness[d] = "ended" => /\ harness'[d] = "ended"
                                         /\ Asking(d)' => Asking(d)
    PROVE  Handed'
<1> SUFFICES ASSUME NEW n \in DOMAIN given PROVE Fate(n)'
  BY DEF Handed
<1>1. /\ given[n] \in Client /\ Fate(n) /\ n \in 1..ScriptLen
      /\ Latest(n)' <=> Latest(n)
  BY ScriptAssumption DEF Handed, Latest, Links, TypeOK
<1>2. Turn(n) # None
  BY <1>1, NoneAssumption DEF Responses
<1> QED BY <1>1, <1>2 DEF Fate

(* Every step passes the script on.                                        *)
LEMMA HandedStep == Links /\ Calls /\ Script /\ Handed /\ [Next]_vars => Handed'
<1> SUFFICES ASSUME Links, Calls, Script, Handed, [Next]_vars PROVE Handed'
  OBVIOUS
<1> USE ScriptAssumption, NoneAssumption
<1>1. CASE CheckShutdown \/ AcceptFails \/ Accept \/ NobodyThere
  <2>1. /\ UNCHANGED <<given, served, heard, reply, harness, line>>
        /\ pc # "answer" /\ pc' # "count"
    BY <1>1
       DEF CheckShutdown, AcceptFails, CloseListener, Accept, NobodyThere, client, wire
  <2> QED BY <2>1, NothingHanded DEF Asking
<1>2. CASE ReadOpening \/ ReadSnapshot \/ ReadEnd \/ End
  <2>1. /\ UNCHANGED <<given, served, heard, reply, harness>>
        /\ pc # "answer" /\ pc' # "count"
        /\ \A d \in Client : line'[d] \in {line[d], None}
    BY <1>2
       DEF ReadOpening, ReadSnapshot, ReadEnd, End, Return, Take, client, Links, Shape
  <2>2. \A d \in Client : line'[d] = "turn" => line[d] = "turn"
    BY <2>1 DEF Requests
  <2> QED BY <2>1, <2>2, NothingHanded DEF Asking
<1>3. CASE ReadTurn
  <2>1. /\ UNCHANGED <<given, served, heard, reply, harness, conn>>
        /\ pc = "turns" /\ line[conn] = "turn"
        /\ \A d \in Client : line'[d] \in {line[d], None}
    BY <1>3 DEF ReadTurn, Take, client, Links, Shape
  <2>2. \A d \in Client : line'[d] = "turn" => line[d] = "turn"
    BY <2>1 DEF Requests
  <2> QED BY <2>1, <2>2, NothingHanded DEF Asking
<1>4. CASE SetShutdown \/ Join \/ UNCHANGED vars
  <2>1. UNCHANGED <<given, served, heard, reply, harness, line, pc, conn, response>>
    BY <1>4 DEF SetShutdown, Join, vars, daemon, client, wire
  <2> QED BY <2>1, NothingHanded DEF Asking
<1>5. ASSUME NEW c \in Client,
             Connect(c) \/ Open(c) \/ Generate(c) \/ Send(c) \/ Snapshot(c) \/ HearEnd(c)
      PROVE  Handed'
  <2>1. /\ UNCHANGED <<given, served, heard, reply, pc, conn, response>>
        /\ \A d \in Client : d # c => harness'[d] = harness[d] /\ line'[d] = line[d]
        /\ harness[c] # "ended" /\ (harness[c] \in Waiting => reply[c] = None)
    BY <1>5
       DEF Connect, Open, Generate, Send, Snapshot, HearEnd, Write, Returns, daemon,
           Links, TypeOK, Shape, Waiting
  <2> QED BY <2>1, NothingHanded DEF Asking
<1>6. ASSUME NEW c \in Client, HangUp(c) PROVE Handed'
  <2>1. /\ UNCHANGED <<given, served, heard, reply, line, pc, conn, response>>
        /\ \A d \in Client : harness'[d] = IF d = c THEN "ended" ELSE harness[d]
    BY <1>6 DEF HangUp, daemon, Links, TypeOK
  <2>2. reply[c] # None => ~Asking(c)
    BY DEF Calls, Call, OneLine, Asking, Requests
  <2> SUFFICES ASSUME NEW n \in DOMAIN given PROVE Fate(n)'
    BY <2>1 DEF Handed
  <2>3. /\ given[n] \in Client /\ Fate(n) /\ n \in 1..ScriptLen
        /\ Latest(n)' <=> Latest(n)
    BY <2>1 DEF Handed, Latest, Links, TypeOK
  <2>4. Turn(n) # None
    BY <2>3 DEF Responses
  <2> QED BY <2>1, <2>2, <2>3, <2>4 DEF Fate, Asking
<1>7. CASE Count
  <2>1. /\ UNCHANGED <<heard, reply, harness, line, conn>>
        /\ pc = "count" /\ pc' = "answer" /\ served' = served + 1
        /\ response' = IF served < ScriptLen THEN Turn(served + 1) ELSE Err
        /\ given' = IF served < ScriptLen THEN Append(given, conn) ELSE given
        /\ conn \in Client /\ served \in Nat /\ given \in Seq(Client)
    BY <1>7 DEF Count, client, wire, Links, TypeOK, Serving, Handed
  <2>2. CASE served >= ScriptLen
    <3>1. given' = given /\ Len(given') = ScriptLen
      BY <2>1, <2>2 DEF Handed
    <3>2. ASSUME NEW n \in DOMAIN given PROVE Fate(n)'
      <4>1. Fate(n) /\ given[n] \in Client /\ (Latest(n)' <=> Latest(n))
        BY <2>1, <3>1 DEF Handed, Latest
      <4> QED BY <2>1, <3>1, <4>1 DEF Fate, Asking
    <3> QED BY <2>1, <2>2, <3>1, <3>2 DEF Handed
  <2>3. CASE served < ScriptLen
    <3>1. /\ Len(given) = served /\ DOMAIN given = 1..served
          /\ given' = Append(given, conn) /\ given' \in Seq(Client)
          /\ Len(given') = served + 1 /\ DOMAIN given' = 1..(served + 1)
          /\ given'[served + 1] = conn
          /\ \A m \in 1..served : given'[m] = given[m] /\ given[m] \in Client
      BY <2>1, <2>3 DEF Handed
    <3>2. ASSUME NEW n \in 1..(served + 1), n = served + 1 PROVE Fate(n)'
      <4>1. Latest(n)'
        BY <2>1, <3>1, <3>2 DEF Latest
      <4>2. given'[n] = conn' /\ pc' = "answer" /\ response' = Turn(n)
        BY <2>1, <2>3, <3>1, <3>2
      <4> QED BY <4>1, <4>2 DEF Fate
    <3>3. ASSUME NEW n \in 1..served PROVE Fate(n)'
      <4>1. Fate(n) /\ given'[n] = given[n] /\ given[n] \in Client
        BY <3>1, <3>3 DEF Handed
      <4>2. Latest(n) /\ given[n] # conn => Latest(n)'
        BY <2>1, <3>1, <3>3 DEF Latest
      <4>3. n \in 1..ScriptLen /\ Turn(n) # None
        BY <2>1, <2>3, <3>3 DEF Responses, Links, TypeOK
      <4>4. reply[conn] = None
        BY <2>1 DEF Calls, Call, OneLine
      <4> QED BY <2>1, <4>1, <4>2, <4>3, <4>4 DEF Fate, Asking
    <3>4. \A n \in 1..(served + 1) : n \in 1..served \/ n = served + 1
      BY <2>1
    <3>5. \A n \in DOMAIN given' : Fate(n)'
      BY <3>1, <3>2, <3>3, <3>4
    <3>6. Len(given') = IF served' <= ScriptLen THEN served' ELSE ScriptLen
      BY <2>1, <2>3, <3>1
    <3> QED BY <3>1, <3>5, <3>6 DEF Handed
  <2> QED BY <2>1, <2>2, <2>3
<1>8. CASE Answer
  <2>1. /\ UNCHANGED <<given, served, heard, harness>>
        /\ pc = "answer" /\ pc' # "count" /\ conn \in Client
        /\ \A d \in Client : line'[d] \in {line[d], None}
        /\ \A d \in Client : reply'[d] = IF d = conn /\ "client" \in open[conn]
                                          THEN response ELSE reply[d]
    BY <1>8 DEF Answer, Return, client, Links, TypeOK, Shape, Serving
  <2>2. \A d \in Client : Asking(d)' => Asking(d)
    BY <2>1 DEF Asking, Requests
  <2>3. reply[conn] = None /\ ~Asking(conn)
    BY <2>1 DEF Calls, Call, OneLine, Asking, Requests
  <2>4. "client" \notin open[conn] => harness[conn] = "ended"
    BY <2>1 DEF Links, Ends
  <2>5. "client" \in open[conn] => Suits(harness[conn], response)
    BY <2>1 DEF Links, Ends, Calls, Call, Exchange
  <2> SUFFICES ASSUME NEW n \in DOMAIN given PROVE Fate(n)'
    BY <2>1 DEF Handed
  <2>6. /\ given[n] \in Client /\ Fate(n) /\ n \in 1..ScriptLen
        /\ Latest(n)' <=> Latest(n)
    BY <2>1 DEF Handed, Latest, Links, TypeOK
  <2>7. Turn(n) # None
    BY <2>6 DEF Responses
  <2>8. CASE Latest(n) /\ conn = given[n] /\ response = Turn(n)
    <3>1. CASE "client" \in open[conn]
      <4>1. harness[conn] \in Waiting
        BY <2>5, <3>1 DEF Suits, Waiting
      <4> QED BY <2>1, <2>6, <2>8, <3>1, <4>1 DEF Fate
    <3>2. CASE "client" \notin open[conn]
      BY <2>1, <2>2, <2>3, <2>4, <2>6, <2>8, <3>2 DEF Fate
    <3> QED BY <3>1, <3>2
  <2>9. CASE n \in ToSet(heard[given[n]])
    BY <2>1, <2>9 DEF Fate
  <2>10. CASE Latest(n) /\ harness[given[n]] \in Waiting /\ reply[given[n]] = Turn(n)
    BY <2>1, <2>3, <2>6, <2>7, <2>10 DEF Fate
  <2>11. CASE Latest(n) /\ harness[given[n]] = "ended" /\ ~Asking(given[n])
    BY <2>1, <2>2, <2>6, <2>11 DEF Fate
  <2> QED BY <2>6, <2>8, <2>9, <2>10, <2>11 DEF Fate
<1>9. ASSUME NEW c \in Client, Hear(c) PROVE Handed'
  <2>1. /\ UNCHANGED <<given, served, line, pc, conn, response>>
        /\ harness[c] \in Waiting /\ reply[c] # None
        /\ \A d \in Client : d # c => harness'[d] = harness[d] /\ reply'[d] = reply[d]
        /\ heard \in [Client -> Seq(Nat)]
        /\ reply[c].kind = "turn" =>
              heard' = [heard EXCEPT ![c] = Append(heard[c], reply[c].turn)]
        /\ reply[c].kind # "turn" => heard' = heard
    BY <1>9 DEF Hear, Returns, daemon, Links, TypeOK, Shape, Script
  <2>2. reply[c].kind = "turn" =>
            /\ reply[c].turn \in Nat
            /\ ToSet(heard'[c]) = ToSet(heard[c]) \cup {reply[c].turn}
            /\ \A d \in Client : d # c => heard'[d] = heard[d]
    <3> SUFFICES ASSUME reply[c].kind = "turn"
                 PROVE  /\ reply[c].turn \in Nat
                        /\ ToSet(heard'[c]) = ToSet(heard[c]) \cup {reply[c].turn}
                        /\ \A d \in Client : d # c => heard'[d] = heard[d]
      OBVIOUS
    <3>1. reply[c].turn \in Nat
      BY <2>1, PlayedType DEF IsTurn
    <3>2. heard[c] \in Seq(Nat) /\ heard'[c] = Append(heard[c], reply[c].turn)
      BY <2>1
    <3>3. ToSet(heard'[c]) = ToSet(heard[c]) \cup {reply[c].turn}
      BY <3>1, <3>2, AppendSet
    <3> QED BY <2>1, <3>1, <3>3
  <2> SUFFICES ASSUME NEW n \in DOMAIN given PROVE Fate(n)'
    BY <2>1 DEF Handed
  <2>3. /\ given[n] \in Client /\ Fate(n)
        /\ Latest(n)' <=> Latest(n)
    BY <2>1 DEF Handed, Latest
  <2>4. reply[c] = Turn(n) => reply[c].kind = "turn" /\ reply[c].turn = n
    BY DEF Turn
  <2>5. harness[c] # "ended"
    BY <2>1 DEF Waiting
  <2>6. CASE given[n] = c
    BY <2>1, <2>2, <2>3, <2>4, <2>5, <2>6 DEF Fate
  <2>7. CASE given[n] # c
    BY <2>1, <2>2, <2>3, <2>7 DEF Fate, Asking
  <2> QED BY <2>6, <2>7
<1>10. CASE Over
  BY <1>4, <1>10 DEF Over
<1> QED
  BY <1>1, <1>2, <1>3, <1>4, <1>5, <1>6, <1>7, <1>8, <1>9, <1>10
     DEF Next, Thread, Talks, Reads

---------------------------------------------------------------------------
(* What Drop relies on.                                                    *)
Dropped ==
    late > 0 => late = 1 /\ shutdown /\ pc # "accept"

(* Every step keeps what Drop relies on: after the flag is set one accept  *)
(* can follow, because only a thread past its look at the flag takes it.   *)
LEMMA DroppedStep == Links /\ Dropped /\ [Next]_vars => Dropped'
<1> SUFFICES ASSUME Links, Dropped, [Next]_vars PROVE Dropped'
  OBVIOUS
<1>1. late \in Nat
  BY DEF Links, TypeOK
<1>2. CASE CheckShutdown \/ AcceptFails \/ NobodyThere
  BY <1>1, <1>2
     DEF CheckShutdown, AcceptFails, CloseListener, NobodyThere, Dropped,
         client, wire
<1>3. CASE Accept
  BY <1>1, <1>3 DEF Accept, Dropped
<1>4. CASE ReadOpening \/ ReadTurn \/ ReadSnapshot \/ ReadEnd \/ Count \/ Answer \/ End
  <2>1. /\ pc \in Serving /\ pc' \notin {"accept", "done"}
        /\ UNCHANGED <<late, shutdown, owner>>
    BY <1>4
       DEF ReadOpening, ReadTurn, ReadSnapshot, ReadEnd, Count, Answer, End,
           Return,
                Serving, client
  <2> QED BY <2>1 DEF Dropped, Serving
<1>5. CASE SetShutdown \/ Join \/ UNCHANGED vars
  BY <1>5 DEF SetShutdown, Join, Dropped, vars, daemon
<1>6. ASSUME NEW c \in Client, Talks(c) \/ Reads(c) PROVE Dropped'
  <2>1. UNCHANGED <<late, shutdown, pc, owner, file>>
    BY <1>6
       DEF Talks, Reads, Connect, Open, Generate, Send, Snapshot, HangUp,
           Hear, HearEnd, daemon
  <2> QED BY <2>1 DEF Dropped
<1> QED BY <1>2, <1>3, <1>4, <1>5, <1>6 DEF Next, Thread, Over

(* The inductive invariant.                                                *)
IInv == Links /\ Calls /\ Written /\ Script /\ Handed /\ Dropped

(* The invariant holds in every state the daemon and its clients reach.    *)
THEOREM Invariance == Spec => []IInv
<1>1. Init => IInv
  BY LinksInit, CallsInit, WrittenInit, ScriptInit, HandedInit DEF Init, IInv, Dropped
<1>2. IInv /\ [Next]_vars => IInv'
  BY LinksStep, CallsStep, WrittenStep, ScriptStep, HandedStep, DroppedStep DEF IInv
<1> QED BY <1>1, <1>2, PTL DEF Spec

(* Every variable keeps its type, and exactly the connections that wait or *)
(* are served have a daemon's end (the listener and the stream that        *)
(* serve() owns in src/src/scripted.rs).                                   *)
THEOREM TypeCorrect == Spec => []TypeOK
<1>1. IInv => TypeOK
  BY DEF IInv, Links
<1> QED BY <1>1, Invariance, PTL

(* Every reply a client reads is a reply to the request it wrote: the      *)
(* error branches for an unexpected response in src/src/client.rs are      *)
(* never taken against this daemon.                                        *)
THEOREM AnswersFit == Spec => []RepliesFit
<1>1. IInv => RepliesFit
  BY DEF IInv, Calls, Call, Exchange, Suits, Waiting, RepliesFit
<1> QED BY <1>1, Invariance, PTL

(* Whatever a client was answered is in the transcript by the time its     *)
(* call returns, and nothing is in it that the client did not ask for.     *)
THEOREM NothingUnwritten == Spec => []TranscriptComplete
<1>1. IInv => TranscriptComplete
  <2> SUFFICES ASSUME IInv, NEW c \in Client PROVE turns[c] <= Said(c) /\ Said(c) <= sends[c]
    BY DEF TranscriptComplete
  <2>1. Said(c) \in Nat /\ turns[c] \in Nat /\ sends[c] \in Nat /\ Tally(c)
    BY SaidType DEF IInv, Written
  <2>2. Undelivered(c) \in Nat
    BY DEF Undelivered
  <2> QED BY <2>1, <2>2 DEF Tally
<1> QED BY <1>1, Invariance, PTL

(* A turn of the script is lost only with a client that hung up, and no    *)
(* such client takes more than one with it.                                *)
THEOREM NoTurnGoesAstray == Spec => []TurnsReachTheirAsker
<1>1. IInv => TurnsReachTheirAsker
  BY DEF IInv, Handed, Fate, Latest, TurnsReachTheirAsker, Reached
<1> QED BY <1>1, Invariance, PTL

(* The cursor all connections share plays each turn of the script to one   *)
(* client, in order.                                                       *)
THEOREM PlayedOnce == Spec => []ScriptPlayedOnce
<1>1. IInv => ScriptPlayedOnce
  BY DEF IInv, Script, Rising, Apart, ScriptPlayedOnce, ToSet
<1> QED BY <1>1, Invariance, PTL

(* At most one connection is accepted after Drop has set the flag.         *)
THEOREM AtMostOneLate == Spec => []OneLateConnection
<1>1. IInv => OneLateConnection
  BY DEF IInv, Dropped, Links, TypeOK, OneLateConnection
<1> QED BY <1>1, Invariance, PTL

=============================================================================

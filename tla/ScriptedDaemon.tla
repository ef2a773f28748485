-------------------------- MODULE ScriptedDaemon --------------------------
(***************************************************************************)
(* The scripted daemon (src/src/scripted.rs) between the clients that talk *)
(* to it (src/src/client.rs) and the test that owns it and drops it.       *)
(*                                                                         *)
(* The daemon's one thread accepts a connection and serves it to its end   *)
(* before it looks at the shutdown flag again.  The script's cursor is     *)
(* shared by all connections.  A client blocks in every call until it has  *)
(* read a line or the end of the file, so there is at most one line on its *)
(* way in each direction.  Text, tools and token counts are left out.      *)
(***************************************************************************)
EXTENDS Integers, Sequences, FiniteSets, SequencesExt

CONSTANTS
    Client,      \* connections, each made by a client of its own
    ScriptLen,   \* turns in the script
    MaxSends,    \* bound: turns one client asks for
    None

ASSUME ScriptAssumption == ScriptLen \in Nat /\ MaxSends \in Nat /\ None \notin Client

VARIABLES
    shutdown,    \* the flag Drop sets
    pc,          \* where the daemon's thread is
    backlog,     \* connections the listener holds, oldest first
    conn,        \* the connection being served, or None
    response,    \* the reply the thread is about to write
    transcript,  \* everything recorded: who said what
    served,      \* how many turns the script was asked for
    owner,       \* the owning test: "running", "joining" or "gone"
    file,        \* is there a socket file?
    harness,     \* what each client is doing
    turns,       \* RampipedConversation.turns of each client
    line,        \* the request each client has written and nobody has read
    reply,       \* the reply on its way to each client
    open,        \* which ends of each connection are open
    sends,       \* history: turns each client has asked for
    heard,       \* history: the script's turns each client was told, in order
    late,        \* history: connections accepted after shutdown was set
    given        \* history: who asked when the cursor passed each turn of the script

daemon == <<shutdown, pc, backlog, conn, response, transcript, served, owner, file>>
client == <<harness, turns, sends, heard>>
wire == <<line, reply, open>>
vars == <<daemon, client, wire, late, given>>

Opened == [kind |-> "opened", turn |-> 0]
Turn(n) == [kind |-> "turn", turn |-> n]
Err == [kind |-> "err", turn |-> 0]
Snapshotted == [kind |-> "snapshotted", turn |-> 0]

Init ==
    /\ shutdown = FALSE
    /\ pc = "check"
    /\ backlog = <<>>
    /\ conn = None
    /\ response = None
    /\ transcript = <<>>
    /\ served = 0
    /\ owner = "running"
    /\ file = TRUE
    /\ harness = [c \in Client |-> "new"]
    /\ turns = [c \in Client |-> 0]
    /\ line = [c \in Client |-> None]
    /\ reply = [c \in Client |-> None]
    /\ open = [c \in Client |-> {}]
    /\ sends = [c \in Client |-> 0]
    /\ heard = [c \in Client |-> <<>>]
    /\ late = 0
    /\ given = <<>>

---------------------------------------------------------------------------
(* The accept loop                                                         *)

(* As CheckShutdown, but the flag is only looked at when nobody waits.     *)
CheckShutdownWhenIdle ==
    /\ pc = "check"
    /\ IF shutdown /\ backlog = <<>> THEN pc' = "done" ELSE pc' = "accept"
    /\ UNCHANGED <<shutdown, backlog, conn, response, transcript, served, owner,
                   file, client, wire, late, given>>

(* The thread returns, and with it goes the listener: who is still in the  *)
(* backlog finds the connection closed.                                    *)
CloseListener ==
    /\ pc' = "done"
    /\ backlog' = <<>>
    /\ open' = [c \in Client |-> IF c \in ToSet(backlog) THEN open[c] \ {"daemon"}
                                                         ELSE open[c]]

CheckShutdown ==
    /\ pc = "check"
    /\ IF shutdown THEN CloseListener
                   ELSE pc' = "accept" /\ UNCHANGED <<backlog, open>>
    /\ UNCHANGED <<shutdown, conn, response, transcript, served, owner, file,
                   client, line, reply, late, given>>

Accept ==
    /\ pc = "accept"
    /\ backlog # <<>>
    /\ pc' = "opening"
    /\ conn' = Head(backlog)
    /\ backlog' = Tail(backlog)
    /\ late' = IF shutdown THEN late + 1 ELSE late
    /\ UNCHANGED <<shutdown, response, transcript, served, owner, file, client, wire, given>>

(* WouldBlock: sleep for 2 ms and go round.                                *)
NobodyThere ==
    /\ pc = "accept"
    /\ backlog = <<>>
    /\ pc' = "check"
    /\ UNCHANGED <<shutdown, backlog, conn, response, transcript, served, owner,
                   file, client, wire, late, given>>

(* Any other error ends the thread.                                        *)
AcceptFails ==
    /\ pc = "accept"
    /\ CloseListener
    /\ UNCHANGED <<shutdown, conn, response, transcript, served, owner, file,
                   client, line, reply, late, given>>

---------------------------------------------------------------------------
(* serve()                                                                 *)

(* As Return, but the streams are not dropped.                             *)
ReturnKeepingStream ==
    /\ pc' = "check"
    /\ conn' = None
    /\ response' = None
    /\ UNCHANGED <<open, line>>

(* serve returns: its streams are dropped, an unread line with them.       *)
Return ==
    /\ pc' = "check"
    /\ conn' = None
    /\ response' = None
    /\ open' = [open EXCEPT ![conn] = @ \ {"daemon"}]
    /\ line' = [line EXCEPT ![conn] = None]

Take(c) == line' = [line EXCEPT ![c] = None]

(* As Record, but only what opens a conversation is written down.          *)
RecordOpenings(c, what) ==
    transcript' = IF what = "opened" THEN Append(transcript, [by |-> c, what |-> what])
                                     ELSE transcript

(* record(): the transcript has every opening and every turn.              *)
Record(c, what) == transcript' = Append(transcript, [by |-> c, what |-> what])

(* The first line: only conversations are served.                          *)
ReadOpening ==
    /\ pc = "opening" /\ line[conn] # None
    /\ Take(conn)
    /\ pc' = "answer"
    /\ IF line[conn] = "open"
         THEN response' = Opened /\ Record(conn, "opened")
         ELSE response' = Err /\ UNCHANGED transcript
    /\ UNCHANGED <<shutdown, backlog, conn, served, owner, file, client, reply,
                   open, late, given>>

ReadTurn ==
    /\ pc = "turns" /\ line[conn] = "turn"
    /\ Take(conn)
    /\ pc' = "count"
    /\ Record(conn, "said")
    /\ UNCHANGED <<shutdown, backlog, conn, response, served, owner, file, client,
                   reply, open, late, given>>

ReadSnapshot ==
    /\ pc = "turns" /\ line[conn] = "snapshot"
    /\ Take(conn)
    /\ pc' = "answer"
    /\ response' = Snapshotted
    /\ UNCHANGED <<shutdown, backlog, conn, transcript, served, owner, file, client,
                   reply, open, late, given>>

(* End of file.                                                            *)
ReadEnd ==
    /\ pc \in {"opening", "turns"}
    /\ line[conn] = None /\ "client" \notin open[conn]
    /\ Return
    /\ UNCHANGED <<shutdown, backlog, transcript, served, owner, file, client,
                   reply, late, given>>

(* As Count, but the cursor is read after it has moved.                    *)
CountFromSecond ==
    /\ pc = "count"
    /\ served' = served + 1
    /\ response' = IF served' < ScriptLen THEN Turn(served' + 1) ELSE Err
    /\ given' = IF served < ScriptLen THEN Append(given, conn) ELSE given
    /\ pc' = "answer"
    /\ UNCHANGED <<shutdown, backlog, conn, transcript, owner, file, client, wire, late>>

(* As Count, but past its end the script is read from the start.           *)
CountRewinding ==
    /\ pc = "count"
    /\ served' = served + 1
    /\ response' = Turn((served % ScriptLen) + 1)
    /\ given' = Append(given, conn)
    /\ pc' = "answer"
    /\ UNCHANGED <<shutdown, backlog, conn, transcript, owner, file, client, wire, late>>

(* As Count, but a script that has run out is not answered for.            *)
CountWithoutAnswer ==
    /\ pc = "count"
    /\ served' = served + 1
    /\ IF served < ScriptLen THEN pc' = "answer" /\ response' = Turn(served + 1)
                             ELSE pc' = "turns" /\ UNCHANGED response
    /\ given' = IF served < ScriptLen THEN Append(given, conn) ELSE given
    /\ UNCHANGED <<shutdown, backlog, conn, transcript, owner, file, client, wire, late>>

(* The script's next turn, or an error when it has run out.                *)
Count ==
    /\ pc = "count"
    /\ served' = served + 1
    /\ response' = IF served < ScriptLen THEN Turn(served + 1) ELSE Err
    /\ given' = IF served < ScriptLen THEN Append(given, conn) ELSE given
    /\ pc' = "answer"
    /\ UNCHANGED <<shutdown, backlog, conn, transcript, owner, file, client, wire, late>>

(* After an error or a snapshot the connection ends.                       *)
Final == {Err, Snapshotted}

(* reply(); it fails when the client's end is closed.                      *)
Answer ==
    LET delivered == "client" \in open[conn] IN
    /\ pc = "answer"
    /\ reply' = IF delivered THEN [reply EXCEPT ![conn] = response] ELSE reply
    /\ IF delivered
         THEN /\ pc' = IF response \in Final THEN "ending" ELSE "turns"
              /\ response' = None
              /\ UNCHANGED <<conn, open, line>>
         ELSE Return
    /\ UNCHANGED <<shutdown, backlog, transcript, served, owner, file, client, late, given>>

(* A client that has the reply may write before the stream is dropped.     *)
End ==
    /\ pc = "ending"
    /\ Return
    /\ UNCHANGED <<shutdown, backlog, transcript, served, owner, file, client,
                   reply, late, given>>

---------------------------------------------------------------------------
(* The clients                                                             *)

Waiting == {"opening", "generating", "sending", "saving"}

(* connect() succeeds while somebody listens; RampipedClient::connect      *)
(* stops here.                                                             *)
Connect(c) ==
    /\ harness[c] = "new"
    /\ IF file /\ pc # "done"
         THEN /\ harness' = [harness EXCEPT ![c] = "connected"]
              /\ backlog' = Append(backlog, c)
              /\ open' = [open EXCEPT ![c] = {"client", "daemon"}]
         ELSE /\ harness' = [harness EXCEPT ![c] = "ended"]
              /\ UNCHANGED <<backlog, open>>
    /\ UNCHANGED <<shutdown, pc, conn, response, transcript, served, owner, file,
                   turns, sends, heard, line, reply, late, given>>

(* A line is written, or the write fails because the daemon's end is       *)
(* closed: that ends an open or a generate; a failing send or snapshot     *)
(* changes nothing.                                                        *)
Write(c, from, request, wait) ==
    /\ harness[c] = from
    /\ IF "daemon" \in open[c]
         THEN /\ line' = [line EXCEPT ![c] = request]
              /\ harness' = [harness EXCEPT ![c] = wait]
              /\ UNCHANGED open
         ELSE /\ from = "connected"
              /\ harness' = [harness EXCEPT ![c] = "ended"]
              /\ open' = [open EXCEPT ![c] = @ \ {"client"}]
              /\ UNCHANGED line

Open(c) ==
    /\ Write(c, "connected", "open", "opening")
    /\ UNCHANGED <<daemon, turns, sends, heard, reply, late, given>>

Generate(c) ==
    /\ Write(c, "connected", "generate", "generating")
    /\ UNCHANGED <<daemon, turns, sends, heard, reply, late, given>>

(* exchange(): send and send_tool_results alike.                           *)
Send(c) ==
    /\ sends[c] < MaxSends
    /\ Write(c, "open", "turn", "sending")
    /\ sends' = [sends EXCEPT ![c] = @ + 1]
    /\ UNCHANGED <<daemon, turns, heard, reply, late, given>>

Snapshot(c) ==
    /\ Write(c, "open", "snapshot", "saving")
    /\ UNCHANGED <<daemon, turns, sends, heard, reply, late, given>>

(* What a client is after its call has returned.                           *)
After(c, ok) ==
    IF harness[c] = "generating" \/ (harness[c] = "opening" /\ ~ok) THEN "ended" ELSE "open"

Returns(c, ok) ==
    /\ harness' = [harness EXCEPT ![c] = After(c, ok)]
    /\ open' = [open EXCEPT ![c] = IF After(c, ok) = "ended" THEN @ \ {"client"} ELSE @]

(* As Hear, but the line stays in the reader's buffer.                     *)
HearWithoutConsuming(c) ==
    /\ harness[c] \in Waiting /\ reply[c] # None
    /\ Returns(c, reply[c] # Err)
    /\ IF reply[c].kind = "turn"
         THEN /\ turns' = [turns EXCEPT ![c] = @ + 1]
              /\ heard' = [heard EXCEPT ![c] = Append(@, reply[c].turn)]
         ELSE UNCHANGED <<turns, heard>>
    /\ UNCHANGED <<daemon, sends, line, reply, late, given>>

(* The reply arrives; only a turn counts.                                  *)
Hear(c) ==
    /\ harness[c] \in Waiting /\ reply[c] # None
    /\ reply' = [reply EXCEPT ![c] = None]
    /\ Returns(c, reply[c] # Err)
    /\ IF reply[c].kind = "turn"
         THEN /\ turns' = [turns EXCEPT ![c] = @ + 1]
              /\ heard' = [heard EXCEPT ![c] = Append(@, reply[c].turn)]
         ELSE UNCHANGED <<turns, heard>>
    /\ UNCHANGED <<daemon, sends, line, late, given>>

(* The daemon's end was closed: an empty line, which does not decode.      *)
HearEnd(c) ==
    /\ harness[c] \in Waiting /\ reply[c] = None /\ "daemon" \notin open[c]
    /\ Returns(c, FALSE)
    /\ UNCHANGED <<daemon, turns, sends, heard, line, reply, late, given>>

(* A probe or a conversation is dropped, or the client's process dies.     *)
HangUp(c) ==
    /\ harness[c] \notin {"new", "ended"}
    /\ harness' = [harness EXCEPT ![c] = "ended"]
    /\ open' = [open EXCEPT ![c] = @ \ {"client"}]
    /\ UNCHANGED <<daemon, turns, sends, heard, line, reply, late, given>>

---------------------------------------------------------------------------
(* ScriptedDaemon::drop                                                    *)

(* As SetShutdown, but the thread is joined before the flag is set.        *)
SetShutdownAfterJoin ==
    /\ owner = "running"
    /\ owner' = "joining"
    /\ UNCHANGED <<shutdown, pc, backlog, conn, response, transcript, served, file,
                   client, wire, late, given>>

SetShutdown ==
    /\ owner = "running"
    /\ shutdown' = TRUE
    /\ owner' = "joining"
    /\ UNCHANGED <<pc, backlog, conn, response, transcript, served, file, client,
                   wire, late, given>>

(* handle.join() returns, and the socket file goes.                        *)
Join ==
    /\ owner = "joining"
    /\ pc = "done"
    /\ owner' = "gone"
    /\ file' = FALSE
    /\ UNCHANGED <<shutdown, pc, backlog, conn, response, transcript, served, client,
                   wire, late, given>>

---------------------------------------------------------------------------
Thread ==
    \/ CheckShutdown \/ Accept \/ NobodyThere
    \/ ReadOpening \/ ReadTurn \/ ReadSnapshot \/ ReadEnd \/ Count \/ Answer \/ End

Reads(c) == Hear(c) \/ HearEnd(c)

Talks(c) == Connect(c) \/ Open(c) \/ Generate(c) \/ Send(c) \/ Snapshot(c) \/ HangUp(c)

(* The test is over and so are its clients.                                *)
Over == owner = "gone" /\ (\A c \in Client : harness[c] = "ended") /\ UNCHANGED vars

Next ==
    \/ Thread \/ AcceptFails \/ SetShutdown \/ Join \/ Over
    \/ \E c \in Client : Talks(c) \/ Reads(c)

Spec == Init /\ [][Next]_vars

(* The daemon's thread, a Drop that has begun and a client in a call run.  *)
(* Nobody has to begin a Drop, to ask for anything or to hang up.          *)
FairSpec ==
    /\ Spec
    /\ WF_vars(Thread)
    /\ WF_vars(Join)
    /\ \A c \in Client : WF_vars(Reads(c))

---------------------------------------------------------------------------
(* Properties                                                              *)

Serving == {"opening", "turns", "count", "answer", "ending"}
Requests == {"open", "generate", "turn", "snapshot"}
Responses == {Opened, Err, Snapshotted} \cup {Turn(n) : n \in 1..ScriptLen}

(* None stands for Option::None: it is no request and no response.         *)
ASSUME NoneAssumption == None \notin Requests /\ None \notin Responses

(* Every variable has its type, the thread serves exactly one connection   *)
(* while it serves, and a connection it does not serve and that does not   *)
(* wait for it has no daemon's end.                                        *)
TypeOK ==
    /\ pc \in Serving \cup {"check", "accept", "done"}
    /\ shutdown \in BOOLEAN /\ file \in BOOLEAN
    /\ owner \in {"running", "joining", "gone"}
    /\ conn \in Client \cup {None} /\ (conn # None <=> pc \in Serving)
    /\ response \in Responses \cup {None}
    /\ served \in Nat /\ late \in Nat
    /\ harness \in [Client -> Waiting \cup {"new", "connected", "open", "ended"}]
    /\ \A c \in Client :
        /\ line[c] \in Requests \cup {None} /\ reply[c] \in Responses \cup {None}
        /\ "daemon" \in open[c] <=> (c = conn \/ c \in ToSet(backlog))

(* A client's reply is the reply to its request: the branches of the       *)
(* client for an unexpected response are never taken.                      *)
RepliesFit ==
    \A c \in Client : (harness[c] \in Waiting /\ reply[c] # None) =>
        \/ reply[c] = Err
        \/ harness[c] = "opening" /\ reply[c] = Opened
        \/ harness[c] = "sending" /\ reply[c].kind = "turn"
        \/ harness[c] = "saving" /\ reply[c] = Snapshotted

Said(c) == Cardinality({i \in DOMAIN transcript : transcript[i] = [by |-> c, what |-> "said"]})

(* A test that reads the transcript after its client returned finds in it  *)
(* every turn the client was answered, and never one it did not ask for.   *)
TranscriptComplete == \A c \in Client : turns[c] <= Said(c) /\ Said(c) <= sends[c]

(* Turn n of the script has reached who asked for it, or is on its way, or *)
(* who asked has hung up and asks for nothing more.                        *)
Reached(n) ==
    LET c == given[n]
        latest == \A m \in DOMAIN given : m > n => given[m] # c
    IN  \/ n \in ToSet(heard[c])
        \/ latest /\ conn = c /\ response = Turn(n)
        \/ latest /\ harness[c] \in Waiting /\ reply[c] = Turn(n)
        \/ latest /\ harness[c] = "ended"

(* serve() moves the cursor before it writes the reply.  A turn of the     *)
(* script is all the same lost only with a client that hangs up, each such *)
(* client takes at most one with it, and no turn is passed over.           *)
TurnsReachTheirAsker == \A n \in DOMAIN given : Reached(n)

(* What the doc comment of turns_served() says: it is the number of turns  *)
(* of the script that were consumed, that is, given to somebody.           *)
ServedIsConsumed == served = Len(given)

(* The script is played once and in order, over all connections together:  *)
(* what a client hears goes up, and no two clients hear the same turn.     *)
ScriptPlayedOnce ==
    /\ \A c \in Client : \A i, j \in DOMAIN heard[c] : i < j => heard[c][i] < heard[c][j]
    /\ \A c, d \in Client : c # d => ToSet(heard[c]) \cap ToSet(heard[d]) = {}

(* Once Drop has set the flag, at most one more connection is accepted:    *)
(* the one that slips in between the thread's look at it and its accept.   *)
OneLateConnection == late <= 1

(* The connection being served waits for a client that is not in a call,   *)
(* so the thread waits too.                                                *)
Held ==
    /\ pc \in {"opening", "turns"} /\ line[conn] = None
    /\ "client" \in open[conn] /\ harness[conn] \notin Waiting

(* Only a client that keeps its connection open for ever can keep Drop     *)
(* from returning.                                                         *)
DropReturns == ([]<>~Held) => ((owner = "joining") ~> (owner = "gone"))

(* Only such a client can keep another one's call from returning, whether  *)
(* the daemon answers, runs out of script or is dropped in the middle.     *)
EveryCallReturns ==
    ([]<>~Held) => \A c \in Client : (harness[c] \in Waiting) ~> (harness[c] \notin Waiting)

===========================================================================

---------------------------- MODULE StorageConsole ----------------------------
(***************************************************************************)
(* The storage console of the CLI: implControlClient.StorageConsole in     *)
(* pkg/client/control_client.go, over the bidirectional StorageConsole     *)
(* stream of the control service.                                          *)
(*                                                                         *)
(* The main goroutine prompts for a query, sends it and waits on barrier,  *)
(* a channel of capacity one.  A receiver goroutine reads the stream: a    *)
(* status 200 is a data line, another status other than 100 an error line; *)
(* 100 ("ready for next query") puts 1 into barrier.  When the stream ends *)
(* or fails the receiver puts -1 into barrier from a deferred function.    *)
(*                                                                         *)
(* The daemon's handler of the stream is not in this repository: it is     *)
(* modelled from the description of the operation, one line and a 100 for *)
(* each query, and ends the stream once the client has closed its side.    *)
(***************************************************************************)
EXTENDS Integers, Sequences

CONSTANTS
    Consoles,     \* CLI processes that may run "storage console"
    MaxQueries    \* bound on the queries a user types

\* Statuses of StorageConsoleResponse: a data line, an error line, ready.
Line == {200, 500}
Ready == 100

VARIABLES
    con,         \* the main goroutine: off, prompt, wait, returned
    rcv,         \* the receiver goroutine: off, recv, deferred, exited
    barrier,     \* the barrier channel's buffer
    toServer,    \* queries sent and not yet read by the handler
    toClient,    \* responses sent and not yet received
    handler,     \* the daemon's handler: off, serving, ended
    closedSend,  \* the client has called stream.CloseSend
    broken,      \* the daemon's grpc server stopped under the stream
    sent,        \* queries sent
    shown        \* lines written to the writer or the error writer

conVars == <<con, rcv, barrier, toServer, toClient, handler, closedSend,
             broken, sent, shown>>

ConsoleTypeOK ==
    /\ con \in [Consoles -> {"off", "prompt", "wait", "returned"}]
    /\ rcv \in [Consoles -> {"off", "recv", "deferred", "exited"}]
    /\ \A c \in Consoles : barrier[c] \in Seq({1, -1}) /\ Len(barrier[c]) <= 1
    /\ toServer \in [Consoles -> 0..MaxQueries]
    /\ \A c \in Consoles : toClient[c] \in Seq(Line \cup {Ready})
    /\ handler \in [Consoles -> {"off", "serving", "ended"}]
    /\ closedSend \in [Consoles -> BOOLEAN]
    /\ broken \in [Consoles -> BOOLEAN]
    /\ sent \in [Consoles -> 0..MaxQueries]
    /\ shown \in [Consoles -> 0..MaxQueries]

ConsoleInit ==
    /\ con = [c \in Consoles |-> "off"]
    /\ rcv = [c \in Consoles |-> "off"]
    /\ barrier = [c \in Consoles |-> <<>>]
    /\ toServer = [c \in Consoles |-> 0]
    /\ toClient = [c \in Consoles |-> <<>>]
    /\ handler = [c \in Consoles |-> "off"]
    /\ closedSend = [c \in Consoles |-> FALSE]
    /\ broken = [c \in Consoles |-> FALSE]
    /\ sent = [c \in Consoles |-> 0]
    /\ shown = [c \in Consoles |-> 0]

Set(f, c, v) == [f EXCEPT ![c] = v]

\* t.client.StorageConsole(ctx) opened the stream; the receiver goroutine
\* is started and the main goroutine prompts.
Open(c) ==
    /\ con' = Set(con, c, "prompt")
    /\ rcv' = Set(rcv, c, "recv")
    /\ handler' = Set(handler, c, "serving")
    /\ UNCHANGED <<barrier, toServer, toClient, closedSend, broken, sent,
                   shown>>

\* The main loop breaks: stream.CloseSend(); return nil.
Leave(c) ==
    /\ con' = Set(con, c, "returned")
    /\ closedSend' = Set(closedSend, c, TRUE)

\* Seeded bug: the loop prompts again without waiting on the barrier.
QueryNoWait(c) ==
    /\ con[c] = "prompt"
    /\ sent[c] < MaxQueries
    /\ ~broken[c]
    /\ toServer' = Set(toServer, c, toServer[c] + 1)
    /\ sent' = Set(sent, c, sent[c] + 1)
    /\ UNCHANGED <<con, rcv, barrier, toClient, handler, closedSend, broken,
                   shown>>

\* The user enters a query: stream.Send(request), then <-barrier; a Send
\* error is written and breaks the loop.
Query(c) ==
    /\ con[c] = "prompt"
    /\ sent[c] < MaxQueries
    /\ IF broken[c]
         THEN /\ Leave(c)
              /\ UNCHANGED <<toServer, sent>>
         ELSE /\ con' = Set(con, c, "wait")
              /\ toServer' = Set(toServer, c, toServer[c] + 1)
              /\ sent' = Set(sent, c, sent[c] + 1)
              /\ UNCHANGED closedSend
    /\ UNCHANGED <<rcv, barrier, toClient, handler, broken, shown>>

\* The user enters "exit".
Exit(c) ==
    /\ con[c] = "prompt"
    /\ Leave(c)
    /\ UNCHANGED <<rcv, barrier, toServer, toClient, handler, broken, sent,
                   shown>>

\* if <-barrier == -1 { break }
TakeBarrier(c) ==
    /\ con[c] = "wait"
    /\ barrier[c] # <<>>
    /\ barrier' = Set(barrier, c, <<>>)
    /\ IF Head(barrier[c]) = -1
         THEN Leave(c)
         ELSE /\ con' = Set(con, c, "prompt")
              /\ UNCHANGED closedSend
    /\ UNCHANGED <<rcv, toServer, toClient, handler, broken, sent, shown>>

\* stream.Recv() returns a data or an error line: it is written.
RecvLine(c) ==
    /\ rcv[c] = "recv"
    /\ toClient[c] # <<>>
    /\ Head(toClient[c]) \in Line
    /\ toClient' = Set(toClient, c, Tail(toClient[c]))
    /\ shown' = Set(shown, c, shown[c] + 1)
    /\ UNCHANGED <<con, rcv, barrier, toServer, handler, closedSend, broken,
                   sent>>

\* stream.Recv() returns status 100: barrier <- 1, which blocks while the
\* buffer is full.
RecvReady(c) ==
    /\ rcv[c] = "recv"
    /\ toClient[c] # <<>>
    /\ Head(toClient[c]) = Ready
    /\ barrier[c] = <<>>
    /\ toClient' = Set(toClient, c, Tail(toClient[c]))
    /\ barrier' = Set(barrier, c, <<1>>)
    /\ UNCHANGED <<con, rcv, toServer, handler, closedSend, broken, sent,
                   shown>>

\* Seeded bug: the receiver leaves without the deferred barrier <- -1.
RecvEndNoDefer(c) ==
    /\ rcv[c] = "recv"
    /\ \/ broken[c]
       \/ handler[c] = "ended" /\ toClient[c] = <<>>
    /\ rcv' = Set(rcv, c, "exited")
    /\ UNCHANGED <<con, barrier, toServer, toClient, handler, closedSend,
                   broken, sent, shown>>

\* stream.Recv() returns io.EOF once the handler has returned and every
\* response was read, or an error once the connection is closed: break.
RecvEnd(c) ==
    /\ rcv[c] = "recv"
    /\ \/ broken[c]
       \/ handler[c] = "ended" /\ toClient[c] = <<>>
    /\ rcv' = Set(rcv, c, "deferred")
    /\ UNCHANGED <<con, barrier, toServer, toClient, handler, closedSend,
                   broken, sent, shown>>

\* The deferred barrier <- -1, blocking while the buffer is full.
RecvDeferred(c) ==
    /\ rcv[c] = "deferred"
    /\ barrier[c] = <<>>
    /\ barrier' = Set(barrier, c, <<-1>>)
    /\ rcv' = Set(rcv, c, "exited")
    /\ UNCHANGED <<con, toServer, toClient, handler, closedSend, broken, sent,
                   shown>>

\* The handler reads a query and answers one line, then ready.
Answer(c) ==
    /\ handler[c] = "serving"
    /\ ~broken[c]
    /\ toServer[c] > 0
    /\ toServer' = Set(toServer, c, toServer[c] - 1)
    /\ \E s \in Line : toClient' = Set(toClient, c, toClient[c] \o <<s, Ready>>)
    /\ UNCHANGED <<con, rcv, barrier, handler, closedSend, broken, sent, shown>>

\* The handler's Recv returns io.EOF after CloseSend: it returns and the
\* stream ends.
HandlerEnds(c) ==
    /\ handler[c] = "serving"
    /\ ~broken[c]
    /\ closedSend[c]
    /\ toServer[c] = 0
    /\ handler' = Set(handler, c, "ended")
    /\ UNCHANGED <<con, rcv, barrier, toServer, toClient, closedSend, broken,
                   sent, shown>>

\* The daemon's grpc server stops: the connections of the open streams
\* are closed.
Abort(S) ==
    /\ broken' = [c \in Consoles |-> broken[c] \/ (c \in S /\ handler[c] = "serving")]
    /\ UNCHANGED <<con, rcv, barrier, toServer, toClient, handler, closedSend,
                   sent, shown>>

\* Steps of the goroutines once the stream is open; the user's are apart.
ConsoleStep(c) ==
    \/ TakeBarrier(c) \/ RecvLine(c) \/ RecvReady(c) \/ RecvEnd(c)
    \/ RecvDeferred(c)

HandlerStep(c) == Answer(c) \/ HandlerEnds(c)

UserStep(c) == Query(c) \/ Exit(c)

=============================================================================

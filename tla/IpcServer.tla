----------------------------- MODULE IpcServer -----------------------------
(***************************************************************************)
(* The control socket of ipc.rs: clients connect to a Unix socket and      *)
(* write commands, one JSON object per line; the daemon looks at the       *)
(* socket only when its main loop calls poll(), and pushes its state to    *)
(* the clients it knows.                                                   *)
(*                                                                         *)
(* A line is its effect on poll(): its type field.  "status" stands for    *)
(* every line that is no request, a JSON object without a type among them. *)
(* Lines arrive whole.                                                     *)
(***************************************************************************)
EXTENDS Naturals, Sequences, FiniteSets, SequencesExt

CONSTANTS
  Clients,      \* clients that may connect, each once
  Lines,        \* lines a client may write
  MaxLines,     \* bound: lines that wait in one client's socket
  MaxWrites     \* bound: lines that are ever written

ASSUME IpcAssumption ==
  /\ IsFiniteSet(Clients)
  /\ Lines \subseteq {"stop", "disable", "enable", "status"}
  /\ MaxLines \in Nat \ {0}
  /\ MaxWrites \in Nat

VARIABLES
  backlog,      \* clients in the queue of the listening socket
  clients,      \* self.clients, a set: poll() serves all of them alike
  inbox,        \* per client: the lines waiting in its socket
  open,         \* per client: "new", "open" or "closed", by the client
  stopReq,      \* stop_requested
  disableReq,   \* disable_requested
  enableReq,    \* enable_requested
  command,      \* what the last poll returned
  sent,         \* history: how often each line was written
  reported,     \* history: how often each command was returned
  told          \* history: clients a broadcast has reached

reqVars  == <<stopReq, disableReq, enableReq>>
sockVars == <<backlog, inbox, open, sent>>
ipcVars  == <<backlog, clients, inbox, open, stopReq, disableReq, enableReq,
              command, sent, reported, told>>

IpcCommands == {"None", "Stop", "Disable", "Enable"}

IpcInit ==
  /\ backlog = <<>>
  /\ clients = {}
  /\ inbox = [c \in Clients |-> <<>>]
  /\ open = [c \in Clients |-> "new"]
  /\ stopReq = FALSE
  /\ disableReq = FALSE
  /\ enableReq = FALSE
  /\ command = "None"
  /\ sent = [line \in Lines |-> 0]
  /\ reported = [cmd \in IpcCommands |-> 0]
  /\ told = {}

-----------------------------------------------------------------------------
(* poll() *)

\* Return cmd; nothing is read from the sockets.
Return(cmd) ==
  /\ command' = cmd
  /\ reported' = [reported EXCEPT ![cmd] = @ + 1]
  /\ UNCHANGED <<sockVars, clients, told>>

\* Seeded fault: the flag is not cleared.
StopClearedNot == TRUE

\* stop_requested after it was reported
StopCleared == FALSE

\* A request noted by an earlier poll is returned, stop before disable before
\* enable, and its flag cleared.
PollStop ==
  /\ stopReq
  /\ Return("Stop")
  /\ stopReq' = StopCleared
  /\ UNCHANGED <<disableReq, enableReq>>

PollDisable ==
  /\ ~stopReq /\ disableReq
  /\ Return("Disable")
  /\ disableReq' = FALSE
  /\ UNCHANGED <<stopReq, enableReq>>

PollEnable ==
  /\ ~stopReq /\ ~disableReq /\ enableReq
  /\ Return("Enable")
  /\ enableReq' = FALSE
  /\ UNCHANGED <<stopReq, disableReq>>

\* self.clients once the first connection of the queue is accepted
Accepted ==
  IF backlog = <<>> THEN clients ELSE clients \cup {Head(backlog)}

\* The connections left for later polls
StillWaiting == IF backlog = <<>> THEN <<>> ELSE Tail(backlog)

\* retain_mut keeps a client whose read_line returns a line: one with nothing
\* to read right now fails with WouldBlock and goes, like one that closed.
Kept(c) == inbox[c] # <<>>

\* Seeded fault: the line read last decides.
ReadLines(cs) == {Last(inbox[c]) : c \in {d \in cs : inbox[d] # <<>>}}

\* The first line of every client that has one
LinesRead(cs) == {Head(inbox[c]) : c \in {d \in cs : inbox[d] # <<>>}}

\* No request is noted: accept at most one connection, then read one line from
\* every client.  The reader that buffered the rest of the socket is dropped,
\* and the other lines with it.
PollSockets ==
  /\ ~stopReq /\ ~disableReq /\ ~enableReq
  /\ LET cs    == Accepted
         lines == LinesRead(cs)
     IN  /\ stopReq' = ("stop" \in lines)
         /\ disableReq' = ("disable" \in lines)
         /\ enableReq' = ("enable" \in lines)
         /\ clients' = {c \in cs : Kept(c)}
         /\ inbox' = [c \in Clients |-> IF c \in cs THEN <<>> ELSE inbox[c]]
  /\ backlog' = StillWaiting
  /\ command' = "None"
  /\ UNCHANGED <<open, sent, reported, told>>

Poll == PollStop \/ PollDisable \/ PollEnable \/ PollSockets

\* send_stats and send_state write to every client known; a failed write is
\* ignored.
Broadcast ==
  /\ told' = told \cup clients
  /\ UNCHANGED <<sockVars, clients, reqVars, command, reported>>

-----------------------------------------------------------------------------
(* The clients *)

Connect(c) ==
  /\ open[c] = "new"
  /\ open' = [open EXCEPT ![c] = "open"]
  /\ backlog' = Append(backlog, c)
  /\ UNCHANGED <<clients, inbox, reqVars, command, sent, reported, told>>

WritesSoFar == FoldFunction(LAMBDA a, b : a + b, 0, sent)

\* A line written to a socket the daemon has dropped goes nowhere.
Write(c, line) ==
  /\ open[c] = "open"
  /\ c \in ToSet(backlog) \cup clients
  /\ Len(inbox[c]) < MaxLines
  /\ WritesSoFar < MaxWrites
  /\ inbox' = [inbox EXCEPT ![c] = Append(@, line)]
  /\ sent' = [sent EXCEPT ![line] = @ + 1]
  /\ UNCHANGED <<backlog, clients, open, reqVars, command, reported, told>>

Close(c) ==
  /\ open[c] = "open"
  /\ open' = [open EXCEPT ![c] = "closed"]
  /\ UNCHANGED <<backlog, clients, inbox, reqVars, command, sent, reported, told>>

ClientStep ==
  \E c \in Clients :
    \/ Connect(c)
    \/ \E line \in Lines : Write(c, line)
    \/ Close(c)

IpcNext == Poll \/ Broadcast \/ ClientStep

IpcSpec == IpcInit /\ [][IpcNext]_ipcVars

\* The main loop keeps polling and pushing statistics.
IpcLiveSpec == IpcSpec /\ WF_ipcVars(Poll) /\ WF_ipcVars(Broadcast)

-----------------------------------------------------------------------------
(* Properties *)

\* Every variable of the server has its type, and a connection is waiting or
\* registered once at most.
IpcTypeOK ==
  /\ backlog \in Seq(Clients) /\ IsInjective(backlog)
  /\ clients \subseteq Clients \ ToSet(backlog)
  /\ inbox \in [Clients -> Seq(Lines)]
  /\ open \in [Clients -> {"new", "open", "closed"}]
  /\ stopReq \in BOOLEAN
  /\ disableReq \in BOOLEAN
  /\ enableReq \in BOOLEAN
  /\ command \in IpcCommands
  /\ sent \in [Lines -> Nat]
  /\ reported \in [IpcCommands -> Nat]
  /\ told \subseteq Clients

\* Where the lines that no poll has read are: a client and a place in its socket
Places == Clients \X (1..MaxLines)

Copies(line) ==
  {p \in Places : p[2] \in DOMAIN inbox[p[1]] /\ inbox[p[1]][p[2]] = line}

Unread(line) == Cardinality(Copies(line))

\* A command returned, a request still flagged and the copies of its line still
\* unread never exceed what the clients wrote.
AtMostOnce(line, flag, cmd) ==
  line \in Lines =>
    reported[cmd] + (IF flag THEN 1 ELSE 0) + Unread(line) <= sent[line]

\* A line is acted on at most once (ipc.rs:82-93, 113-125).
EachLineOnce ==
  /\ AtMostOnce("stop", stopReq, "Stop")
  /\ AtMostOnce("disable", disableReq, "Disable")
  /\ AtMostOnce("enable", enableReq, "Enable")

\* The types, and no request from nothing (ipc.rs:82-93).
IpcInv == IpcTypeOK /\ EachLineOnce

\* A client the daemon has not dropped
Known(c) == c \in ToSet(backlog) \cup clients

\* A stop that is the first line waiting on a client's socket is reported,
\* whatever other clients request and however the polls interleave with them,
\* even if the client has closed by then (ipc.rs:81-128).
StopIsReported ==
  \A c \in Clients :
    Known(c) /\ inbox[c] # <<>> /\ inbox[c][1] = "stop" ~> command = "Stop"

\* What README.md:93 says: "Stats are pushed every 5 seconds" to the clients of
\* the socket.
StatsArePushed ==
  \A c \in Clients : open[c] = "open" ~> c \in told \/ open[c] = "closed"
=============================================================================

-------------------------- MODULE IpcServerProofs ---------------------------
(***************************************************************************)
(* Theorems about IpcServer, for any finite set of clients, any set of     *)
(* lines and any bounds.                                                   *)
(*                                                                         *)
(* That a line is acted on at most once is a count of what was returned,   *)
(* what is flagged and what is unread; a poll that reads a line moves it   *)
(* from the last to the second, which needs every line to be in the range  *)
(* that is counted (BoundInv).  That a connection is waiting or registered *)
(* once at most needs that a client that has not connected is in neither   *)
(* place (NewInv).                                                         *)
(***************************************************************************)
EXTENDS IpcServer, FiniteSetTheorems, SequenceTheorems, TLAPS

BoundInv == \A c \in Clients : Len(inbox[c]) <= MaxLines

NewInv ==
  \A c \in Clients : open[c] = "new" => c \notin ToSet(backlog) \cup clients

RegistryInv ==
  /\ backlog \in Seq(Clients) /\ IsInjective(backlog)
  /\ clients \subseteq Clients \ ToSet(backlog)
  /\ open \in [Clients -> {"new", "open", "closed"}]
  /\ NewInv

CountsOK ==
  /\ inbox \in [Clients -> Seq(Lines)]
  /\ stopReq \in BOOLEAN
  /\ disableReq \in BOOLEAN
  /\ enableReq \in BOOLEAN
  /\ sent \in [Lines -> Nat]
  /\ reported \in [IpcCommands -> Nat]
  /\ BoundInv

-----------------------------------------------------------------------------
(* Counting unread lines *)

\* The places of a socket are finitely many.
LEMMA PlacesAreFinite == IsFiniteSet(Places)
<1>1. IsFiniteSet(Clients) /\ 1 \in Int /\ MaxLines \in Int
  BY IpcAssumption
<1>2. IsFiniteSet(1..MaxLines)
  BY <1>1, FS_Interval
<1> HIDE DEF Places
<1> QED
  BY <1>1, <1>2, FS_Product, Zenon DEF Places

\* The count of unread copies is a number, and fewer places make it smaller, by
\* one at least if a place is gone.
LEMMA FewerCopies ==
  ASSUME NEW A \in SUBSET Places, NEW B \in SUBSET A
  PROVE  /\ Cardinality(A) \in Nat /\ Cardinality(B) \in Nat
         /\ Cardinality(B) <= Cardinality(A)
         /\ B # A => Cardinality(B) + 1 <= Cardinality(A)
<1>1. IsFiniteSet(A)
  BY PlacesAreFinite, FS_Subset
<1>2. IsFiniteSet(B) /\ Cardinality(B) <= Cardinality(A)
  BY <1>1, FS_Subset
<1>3. Cardinality(A) = Cardinality(B) => A = B
  BY <1>1, FS_Subset
<1> QED
  BY <1>1, <1>2, <1>3, FS_CardinalityType

LEMMA UnreadIsNat ==
  ASSUME NEW line
  PROVE  Unread(line) \in Nat
BY FewerCopies DEF Unread, Copies

\* A poll of the sockets of cs: what they hold is read or lost.
SocketsRead(cs) ==
  inbox' = [c \in Clients |-> IF c \in cs THEN <<>> ELSE inbox[c]]

\* No copy of a line appears in a poll, and one at least goes if the line is the
\* first of a socket (ipc.rs:109-128).
LEMMA ReadingUsesUpCopies ==
  ASSUME CountsOK, NEW cs \in SUBSET Clients, SocketsRead(cs), NEW line
  PROVE  /\ Unread(line)' <= Unread(line)
         /\ line \in LinesRead(cs) => Unread(line)' + 1 <= Unread(line)
<1>1. /\ \A c \in cs : DOMAIN inbox'[c] = {}
      /\ \A c \in Clients \ cs : inbox'[c] = inbox[c]
  BY DEF SocketsRead
<1>2. Copies(line)' \subseteq Copies(line)
  BY <1>1 DEF Copies, Places
<1>3. ASSUME line \in LinesRead(cs)
      PROVE  Copies(line)' # Copies(line)
  <2>1. PICK c \in cs : inbox[c] # <<>> /\ line = Head(inbox[c])
    BY <1>3 DEF LinesRead
  <2>2. inbox[c] \in Seq(Lines) /\ Len(inbox[c]) <= MaxLines
    BY DEF CountsOK, BoundInv
  <2>3. 1 \in DOMAIN inbox[c] /\ inbox[c][1] = line
    BY <2>1, <2>2
  <2>4. <<c, 1>> \in Places
    BY IpcAssumption DEF Places
  <2>5. <<c, 1>> \in Copies(line)
    BY <2>3, <2>4 DEF Copies
  <2>6. <<c, 1>> \notin Copies(line)'
    BY <1>1 DEF Copies
  <2> QED
    BY <2>5, <2>6
<1>4. Copies(line) \in SUBSET Places
  BY DEF Copies
<1> QED
  BY <1>2, <1>3, <1>4, FewerCopies DEF Unread

\* A write adds one copy of its line and none of another.
LEMMA WritingAddsOneCopy ==
  ASSUME CountsOK, NEW c \in Clients, NEW line \in Lines, Write(c, line),
         NEW other
  PROVE  Unread(other)' <= Unread(other) + (IF other = line THEN 1 ELSE 0)
<1> DEFINE s == inbox[c]
           p == <<c, Len(s) + 1>>
<1>1. s \in Seq(Lines) /\ inbox' = [inbox EXCEPT ![c] = Append(s, line)]
  BY DEF CountsOK, Write
<1>2. /\ \A d \in Clients \ {c} : inbox'[d] = inbox[d]
      /\ inbox'[c] = Append(s, line)
  BY <1>1 DEF CountsOK
<1>3. /\ DOMAIN inbox'[c] = DOMAIN s \cup {Len(s) + 1}
      /\ \A i \in DOMAIN s : inbox'[c][i] = s[i]
      /\ inbox'[c][Len(s) + 1] = line
  BY <1>1, <1>2
<1> HIDE DEF s
<1>4. \A q \in Copies(other)' : q \in Copies(other) \/ (q = p /\ other = line)
  <2> SUFFICES ASSUME NEW q \in Copies(other)', q \notin Copies(other)
               PROVE  q = p /\ other = line
    OBVIOUS
  <2>1. /\ q \in Places /\ q = <<q[1], q[2]>> /\ q[1] \in Clients
        /\ q[2] \in DOMAIN inbox'[q[1]] /\ inbox'[q[1]][q[2]] = other
        /\ ~ (q[2] \in DOMAIN inbox[q[1]] /\ inbox[q[1]][q[2]] = other)
    BY DEF Copies, Places
  <2>2. q[1] = c
    BY <1>2, <2>1
  <2>3. q[2] = Len(s) + 1
    BY <1>3, <2>1, <2>2 DEF s
  <2> QED
    BY <1>3, <2>1, <2>2, <2>3
<1>5. IsFiniteSet(Copies(other)) /\ IsFiniteSet(Copies(other) \cup {p})
  BY PlacesAreFinite, FS_Subset, FS_AddElement DEF Copies
<1>6. /\ Cardinality(Copies(other)) \in Nat
      /\ Cardinality(Copies(other) \cup {p}) <= Cardinality(Copies(other)) + 1
  <2>1. /\ Cardinality(Copies(other)) \in Nat
    BY <1>5, FS_CardinalityType
  <2> HIDE DEF p
  <2>2. \/ Cardinality(Copies(other) \cup {p}) = Cardinality(Copies(other)) + 1
        \/ Cardinality(Copies(other) \cup {p}) = Cardinality(Copies(other))
    BY <1>5, FS_AddElement
  <2> QED
    BY <2>1, <2>2
<1>7. CASE other = line
  <2>1. Copies(other)' \subseteq Copies(other) \cup {p}
    BY <1>4
  <2>2. Cardinality(Copies(other)') <= Cardinality(Copies(other) \cup {p})
    BY <1>5, <2>1, FS_Subset
  <2>3. Cardinality(Copies(other)') \in Nat
    BY <1>5, <2>1, FS_Subset, FS_CardinalityType
  <2>4. Cardinality(Copies(other) \cup {p}) \in Nat
    BY <1>5, FS_CardinalityType
  <2> QED
    BY <1>6, <1>7, <2>2, <2>3, <2>4 DEF Unread
<1>8. CASE other # line
  <2>1. Copies(other)' \subseteq Copies(other)
    BY <1>4, <1>8
  <2>2. Copies(other) \in SUBSET Places
    BY DEF Copies
  <2> QED
    BY <1>8, <2>1, <2>2, FewerCopies DEF Unread
<1> QED
  BY <1>7, <1>8

\* What leaves the sockets alone leaves the counts alone.
LEMMA NothingRead ==
  ASSUME inbox' = inbox, NEW line
  PROVE  Unread(line)' = Unread(line)
BY DEF Unread, Copies, Places

-----------------------------------------------------------------------------
(* The counts *)

LEMMA CountsInit == IpcInit => CountsOK /\ EachLineOnce
<1> SUFFICES ASSUME IpcInit
             PROVE  CountsOK /\ EachLineOnce
  OBVIOUS
<1>1. \A line : Unread(line) = 0
  <2> SUFFICES ASSUME NEW line PROVE Copies(line) = {}
    BY FS_EmptySet DEF Unread
  <2>1. \A c \in Clients : DOMAIN inbox[c] = {}
    BY DEF IpcInit
  <2> QED
    BY <2>1 DEF Copies, Places
<1>2. CountsOK
  <2>1. \A c \in Clients : inbox[c] = <<>> /\ Len(inbox[c]) = 0
    BY DEF IpcInit
  <2>2. inbox \in [Clients -> Seq(Lines)]
    BY DEF IpcInit
  <2>3. BoundInv
    BY <2>1, IpcAssumption DEF BoundInv
  <2> QED
    BY <2>2, <2>3 DEF CountsOK, IpcInit
<1>3. EachLineOnce
  BY <1>1 DEF EachLineOnce, AtMostOnce, IpcInit, IpcCommands
<1> QED
  BY <1>2, <1>3

\* poll() returning a noted request takes it from the flag to the count of what
\* was returned (ipc.rs:82-93).
LEMMA CountsReturn ==
  ASSUME CountsOK, EachLineOnce, PollStop \/ PollDisable \/ PollEnable
  PROVE  CountsOK' /\ EachLineOnce'
<1>1. inbox' = inbox /\ sent' = sent
  BY DEF PollStop, PollDisable, PollEnable, Return, sockVars
<1>2. \A line : Unread(line)' = Unread(line) /\ Unread(line) \in Nat
  BY <1>1, NothingRead, UnreadIsNat
<1>3. \A line \in Lines : sent[line] \in Nat
  BY DEF CountsOK
<1>4. CASE PollStop
  <2>1. /\ stopReq = TRUE /\ stopReq' = FALSE
        /\ disableReq' = disableReq /\ enableReq' = enableReq
        /\ reported' = [reported EXCEPT !["Stop"] = @ + 1]
    BY <1>4, Zenon DEF PollStop, Return, StopCleared
  <2>2. CountsOK'
    <3>1. reported' \in [IpcCommands -> Nat]
      BY <2>1 DEF CountsOK, IpcCommands
    <3>2. stopReq' \in BOOLEAN /\ disableReq' \in BOOLEAN /\ enableReq' \in BOOLEAN
      BY <2>1, Zenon DEF CountsOK
    <3> QED
      BY <1>1, <3>1, <3>2 DEF CountsOK, BoundInv
  <2> QED
    BY <1>1, <1>2, <1>3, <2>1, <2>2
       DEF CountsOK, EachLineOnce, AtMostOnce, IpcCommands
<1>5. CASE PollDisable
  <2>1. /\ disableReq = TRUE /\ disableReq' = FALSE
        /\ stopReq' = stopReq /\ enableReq' = enableReq
        /\ reported' = [reported EXCEPT !["Disable"] = @ + 1]
    BY <1>5, Zenon DEF PollDisable, Return
  <2>2. CountsOK'
    <3>1. reported' \in [IpcCommands -> Nat]
      BY <2>1 DEF CountsOK, IpcCommands
    <3>2. stopReq' \in BOOLEAN /\ disableReq' \in BOOLEAN /\ enableReq' \in BOOLEAN
      BY <2>1, Zenon DEF CountsOK
    <3> QED
      BY <1>1, <3>1, <3>2 DEF CountsOK, BoundInv
  <2> QED
    BY <1>1, <1>2, <1>3, <2>1, <2>2
       DEF CountsOK, EachLineOnce, AtMostOnce, IpcCommands
<1>6. CASE PollEnable
  <2>1. /\ enableReq = TRUE /\ enableReq' = FALSE
        /\ stopReq' = stopReq /\ disableReq' = disableReq
        /\ reported' = [reported EXCEPT !["Enable"] = @ + 1]
    BY <1>6, Zenon DEF PollEnable, Return
  <2>2. CountsOK'
    <3>1. reported' \in [IpcCommands -> Nat]
      BY <2>1 DEF CountsOK, IpcCommands
    <3>2. stopReq' \in BOOLEAN /\ disableReq' \in BOOLEAN /\ enableReq' \in BOOLEAN
      BY <2>1, Zenon DEF CountsOK
    <3> QED
      BY <1>1, <3>1, <3>2 DEF CountsOK, BoundInv
  <2> QED
    BY <1>1, <1>2, <1>3, <2>1, <2>2
       DEF CountsOK, EachLineOnce, AtMostOnce, IpcCommands
<1> QED
  BY <1>4, <1>5, <1>6

\* poll() reading the sockets flags a request only for a copy it has used up
\* (ipc.rs:109-128).
LEMMA CountsRead ==
  ASSUME CountsOK, EachLineOnce, RegistryInv, PollSockets
  PROVE  CountsOK' /\ EachLineOnce'
<1> DEFINE lines == LinesRead(Accepted)
<1>1. Accepted \in SUBSET Clients
  BY HeadTailProperties DEF Accepted, RegistryInv
<1>2. /\ SocketsRead(Accepted)
      /\ ~stopReq /\ ~disableReq /\ ~enableReq
      /\ reported' = reported /\ sent' = sent
  BY DEF PollSockets, SocketsRead
<1>3. /\ stopReq' = ("stop" \in lines)
      /\ disableReq' = ("disable" \in lines)
      /\ enableReq' = ("enable" \in lines)
  BY Zenon DEF PollSockets
<1>4. \A line : /\ Unread(line)' <= Unread(line)
                /\ line \in lines => Unread(line)' + 1 <= Unread(line)
  BY <1>1, <1>2, ReadingUsesUpCopies
<1>5. \A line : Unread(line) \in Nat /\ Unread(line)' \in Nat
  <2>1. \A line : Unread(line) \in Nat
    BY UnreadIsNat
  <2>2. ASSUME NEW line PROVE Unread(line)' \in Nat
    <3>1. Copies(line)' \in SUBSET Places
      BY DEF Copies, Places
    <3> QED
      BY <3>1, PlacesAreFinite, FS_Subset, FS_CardinalityType DEF Unread
  <2> QED
    BY <2>1, <2>2
<1> HIDE DEF lines
<1>6. CountsOK'
  <2>1. stopReq' \in BOOLEAN /\ disableReq' \in BOOLEAN /\ enableReq' \in BOOLEAN
    BY <1>3
  <2>2. /\ \A c \in Clients : inbox'[c] = inbox[c] \/ inbox'[c] = <<>>
        /\ DOMAIN inbox' = Clients
        /\ inbox' \in [Clients -> Seq(Lines)]
    BY <1>2 DEF SocketsRead, CountsOK
  <2>3. \A c \in Clients : Len(inbox'[c]) <= MaxLines
    BY <2>2, IpcAssumption DEF CountsOK, BoundInv
  <2> QED
    BY <1>2, <2>1, <2>2, <2>3 DEF CountsOK, BoundInv
<1>7. ASSUME NEW line \in Lines, NEW cmd \in IpcCommands,
             reported[cmd] + 0 + Unread(line) <= sent[line]
      PROVE  reported[cmd] + (IF line \in lines THEN 1 ELSE 0) + Unread(line)'
               <= sent[line]
  <2>1. reported[cmd] \in Nat /\ sent[line] \in Nat
    BY DEF CountsOK
  <2> QED
    BY <1>4, <1>5, <1>7, <2>1
<1>8. AtMostOnce("stop", stopReq, "Stop")'
  BY <1>2, <1>3, <1>7 DEF AtMostOnce, EachLineOnce, IpcCommands
<1>9. AtMostOnce("disable", disableReq, "Disable")'
  BY <1>2, <1>3, <1>7 DEF AtMostOnce, EachLineOnce, IpcCommands
<1>10. AtMostOnce("enable", enableReq, "Enable")'
  BY <1>2, <1>3, <1>7 DEF AtMostOnce, EachLineOnce, IpcCommands
<1> QED
  BY <1>6, <1>8, <1>9, <1>10 DEF EachLineOnce

\* A client that writes a line pays for the copy that it adds.
LEMMA CountsWrite ==
  ASSUME CountsOK, EachLineOnce,
         NEW c \in Clients, NEW line \in Lines, Write(c, line)
  PROVE  CountsOK' /\ EachLineOnce'
<1>1. /\ inbox' = [inbox EXCEPT ![c] = Append(@, line)]
      /\ sent' = [sent EXCEPT ![line] = @ + 1]
      /\ reported' = reported
      /\ stopReq' = stopReq /\ disableReq' = disableReq /\ enableReq' = enableReq
      /\ Len(inbox[c]) < MaxLines
  BY DEF Write, reqVars
<1>2. \A other :
        /\ Unread(other) \in Nat /\ Unread(other)' \in Nat
        /\ Unread(other)' <= Unread(other) + (IF other = line THEN 1 ELSE 0)
  <2>1. ASSUME NEW other PROVE Unread(other)' \in Nat
    <3>1. Copies(other)' \in SUBSET Places
      BY DEF Copies, Places
    <3> QED
      BY <3>1, PlacesAreFinite, FS_Subset, FS_CardinalityType DEF Unread
  <2> QED
    BY <2>1, UnreadIsNat, WritingAddsOneCopy
<1>3. CountsOK'
  <2>1. inbox' \in [Clients -> Seq(Lines)]
    BY <1>1 DEF CountsOK
  <2>2. \A d \in Clients : Len(inbox'[d]) <= MaxLines
    BY <1>1, IpcAssumption DEF CountsOK, BoundInv
  <2>3. sent' \in [Lines -> Nat]
    BY <1>1 DEF CountsOK
  <2> QED
    BY <1>1, <2>1, <2>2, <2>3 DEF CountsOK, BoundInv
<1>4. \A other \in Lines :
        sent'[other] = sent[other] + (IF other = line THEN 1 ELSE 0)
  BY <1>1 DEF CountsOK
<1>5. ASSUME NEW other \in Lines, NEW n \in Nat, n + Unread(other) <= sent[other]
      PROVE  n + Unread(other)' <= sent'[other]
  BY <1>2, <1>4, <1>5 DEF CountsOK
<1>6. \A cmd \in IpcCommands : reported[cmd] + 1 \in Nat /\ reported[cmd] + 0 \in Nat
  BY DEF CountsOK
<1> QED
  BY <1>1, <1>3, <1>5, <1>6 DEF EachLineOnce, AtMostOnce, IpcCommands

LEMMA CountsStep ==
  CountsOK /\ EachLineOnce /\ RegistryInv /\ [IpcNext]_ipcVars
    => CountsOK' /\ EachLineOnce'
<1> SUFFICES ASSUME CountsOK, EachLineOnce, RegistryInv, [IpcNext]_ipcVars
             PROVE  CountsOK' /\ EachLineOnce'
  OBVIOUS
<1>1. CASE Poll
  BY <1>1, CountsReturn, CountsRead DEF Poll
<1>2. ASSUME NEW c \in Clients, NEW line \in Lines, Write(c, line)
      PROVE  CountsOK' /\ EachLineOnce'
  BY <1>2, CountsWrite
<1>3. CASE \/ Broadcast
           \/ \E c \in Clients : Connect(c) \/ Close(c)
           \/ UNCHANGED ipcVars
  <2>1. /\ inbox' = inbox /\ sent' = sent /\ reported' = reported
        /\ stopReq' = stopReq /\ disableReq' = disableReq
        /\ enableReq' = enableReq
    BY <1>3 DEF Broadcast, Connect, Close, ipcVars, sockVars, reqVars
  <2>2. \A line : Unread(line)' = Unread(line)
    BY <2>1, NothingRead
  <2>3. CountsOK'
    BY <2>1 DEF CountsOK, BoundInv
  <2> QED
    BY <2>1, <2>2, <2>3 DEF EachLineOnce, AtMostOnce
<1> QED
  BY <1>1, <1>2, <1>3 DEF IpcNext, ClientStep

-----------------------------------------------------------------------------
(* Who waits and who is registered *)

LEMMA RegistryInit ==
  IpcInit => RegistryInv /\ command \in IpcCommands /\ told \subseteq Clients
<1> SUFFICES ASSUME IpcInit
             PROVE  RegistryInv /\ command \in IpcCommands /\ told \subseteq Clients
  OBVIOUS
<1>1. backlog \in Seq(Clients) /\ DOMAIN backlog = {}
  BY DEF IpcInit
<1>2. ToSet(backlog) = {} /\ IsInjective(backlog)
  BY <1>1 DEF ToSet, IsInjective
<1> QED
  BY <1>1, <1>2 DEF RegistryInv, NewInv, IpcInit, IpcCommands

\* accept() takes the first connection of the queue (ipc.rs:95-103).
LEMMA FirstIsTaken ==
  ASSUME RegistryInv, backlog # <<>>
  PROVE  /\ Head(backlog) \in Clients
         /\ Tail(backlog) \in Seq(Clients)
         /\ IsInjective(Tail(backlog))
         /\ ToSet(backlog) = {Head(backlog)} \cup ToSet(Tail(backlog))
         /\ Head(backlog) \notin ToSet(Tail(backlog))
<1> DEFINE t == Tail(backlog)
<1>1. backlog \in Seq(Clients) /\ IsInjective(backlog)
  BY DEF RegistryInv
<1>2. /\ Head(backlog) \in Clients
      /\ t \in Seq(Clients)
      /\ Len(t) = Len(backlog) - 1
      /\ \A i \in 1..Len(t) : t[i] = backlog[i + 1]
  BY <1>1, HeadTailProperties
<1>3. /\ Len(backlog) \in Nat /\ Len(backlog) >= 1
      /\ DOMAIN backlog = 1..Len(backlog) /\ DOMAIN t = 1..Len(t)
      /\ Head(backlog) = backlog[1]
  BY <1>1, <1>2
<1> HIDE DEF t
<1>4. IsInjective(t)
  <2>1. ASSUME NEW i \in DOMAIN t, NEW j \in DOMAIN t, t[i] = t[j]
        PROVE  i = j
    <3>1. /\ i \in Nat /\ i + 1 \in DOMAIN backlog
          /\ j \in Nat /\ j + 1 \in DOMAIN backlog
          /\ backlog[i + 1] = backlog[j + 1]
      BY <1>2, <1>3, <2>1
    <3>2. i + 1 = j + 1
      BY <1>1, <3>1, Zenon DEF IsInjective
    <3> QED
      BY <3>1, <3>2
  <2> QED
    BY <2>1 DEF IsInjective
<1>5. backlog[1] \notin ToSet(t)
  BY <1>1, <1>2, <1>3 DEF IsInjective, ToSet
<1>6. ToSet(backlog) = {backlog[1]} \cup ToSet(t)
  <2>1. \A i \in DOMAIN backlog : i = 1 \/ (i - 1 \in DOMAIN t /\ backlog[i] = t[i - 1])
    BY <1>2, <1>3
  <2>2. \A i \in DOMAIN t : i + 1 \in DOMAIN backlog /\ backlog[i + 1] = t[i]
    BY <1>2, <1>3
  <2>3. 1 \in DOMAIN backlog
    BY <1>3
  <2> QED
    BY <2>1, <2>2, <2>3 DEF ToSet
<1> QED
  BY <1>2, <1>3, <1>4, <1>5, <1>6 DEF t

LEMMA RegistryStep ==
  RegistryInv /\ command \in IpcCommands /\ told \subseteq Clients
    /\ [IpcNext]_ipcVars
    => RegistryInv' /\ command' \in IpcCommands /\ told' \subseteq Clients
<1> SUFFICES ASSUME RegistryInv, command \in IpcCommands, told \subseteq Clients,
                    [IpcNext]_ipcVars
             PROVE  RegistryInv' /\ command' \in IpcCommands /\ told' \subseteq Clients
  OBVIOUS
<1>1. CASE PollSockets
  <2>1. /\ clients' \subseteq Accepted /\ backlog' = StillWaiting
        /\ open' = open /\ told' = told /\ command' = "None"
    BY <1>1 DEF PollSockets
  <2>2. CASE backlog = <<>>
    <3>1. clients' \subseteq clients /\ backlog' = backlog
      BY <2>1, <2>2 DEF Accepted, StillWaiting
    <3> QED
      BY <2>1, <3>1 DEF RegistryInv, NewInv, IpcCommands
  <2>3. CASE backlog # <<>>
    <3>1. /\ clients' \subseteq clients \cup {Head(backlog)}
          /\ backlog' = Tail(backlog)
      BY <2>1, <2>3 DEF Accepted, StillWaiting
    <3>2. backlog' \in Seq(Clients) /\ IsInjective(backlog')
      BY <2>3, <3>1, FirstIsTaken
    <3>3. clients' \subseteq Clients \ ToSet(backlog')
      BY <2>3, <3>1, FirstIsTaken DEF RegistryInv
    <3>4. ToSet(backlog') \cup clients' \subseteq ToSet(backlog) \cup clients
      BY <2>3, <3>1, FirstIsTaken
    <3> QED
      BY <2>1, <3>2, <3>3, <3>4 DEF RegistryInv, NewInv, IpcCommands
  <2> QED
    BY <2>2, <2>3
<1>2. ASSUME NEW c \in Clients, Connect(c)
      PROVE  RegistryInv' /\ command' \in IpcCommands /\ told' \subseteq Clients
  <2>1. /\ open[c] = "new" /\ open' = [open EXCEPT ![c] = "open"]
        /\ backlog' = Append(backlog, c) /\ clients' = clients
        /\ command' = command /\ told' = told
    BY <1>2 DEF Connect
  <2>2. c \notin ToSet(backlog) /\ c \notin clients
    BY <2>1 DEF RegistryInv, NewInv
  <2>3. backlog \in Seq(Clients)
    BY DEF RegistryInv
  <2>4. /\ backlog' \in Seq(Clients)
        /\ DOMAIN backlog' = DOMAIN backlog \cup {Len(backlog) + 1}
        /\ \A i \in DOMAIN backlog : backlog'[i] = backlog[i]
        /\ backlog'[Len(backlog) + 1] = c
    BY <2>1, <2>3, AppendProperties
  <2>5. ToSet(backlog') = ToSet(backlog) \cup {c}
    BY <2>4 DEF ToSet
  <2>6. IsInjective(backlog')
    <3>1. \A i \in DOMAIN backlog : backlog[i] # c
      BY <2>2 DEF ToSet
    <3> QED
      BY <2>4, <3>1 DEF IsInjective, RegistryInv
  <2> QED
    BY <2>1, <2>2, <2>4, <2>5, <2>6 DEF RegistryInv, NewInv
<1>3. ASSUME NEW c \in Clients, Close(c)
      PROVE  RegistryInv' /\ command' \in IpcCommands /\ told' \subseteq Clients
  <2>1. /\ open' = [open EXCEPT ![c] = "closed"]
        /\ backlog' = backlog /\ clients' = clients
        /\ command' = command /\ told' = told
    BY <1>3 DEF Close
  <2> QED
    BY <2>1 DEF RegistryInv, NewInv
<1>4. CASE Broadcast
  BY <1>4 DEF Broadcast, sockVars, RegistryInv, NewInv
<1>5. CASE PollStop \/ PollDisable \/ PollEnable
  <2>1. /\ open' = open /\ backlog' = backlog /\ clients' = clients
        /\ command' \in IpcCommands /\ told' = told
    BY <1>5 DEF PollStop, PollDisable, PollEnable, Return, sockVars, IpcCommands
  <2> QED
    BY <2>1 DEF RegistryInv, NewInv
<1>6. ASSUME NEW c \in Clients, NEW line \in Lines, Write(c, line)
      PROVE  RegistryInv' /\ command' \in IpcCommands /\ told' \subseteq Clients
  BY <1>6 DEF Write, RegistryInv, NewInv
<1>7. CASE UNCHANGED ipcVars
  BY <1>7 DEF ipcVars, RegistryInv, NewInv
<1> QED
  BY <1>1, <1>2, <1>3, <1>4, <1>5, <1>6, <1>7 DEF IpcNext, Poll, ClientStep

-----------------------------------------------------------------------------
(* The theorem *)

\* The clients' commands are acted on at most once however the polls and the
\* writes interleave, and a connection is queued or registered once at most
\* (ipc.rs:81-131).
THEOREM RequestsActedOnOnce == IpcSpec => []IpcInv
<1> DEFINE I == /\ CountsOK /\ EachLineOnce /\ RegistryInv
                /\ command \in IpcCommands /\ told \subseteq Clients
<1>1. IpcInit => I
  BY CountsInit, RegistryInit
<1>2. I /\ [IpcNext]_ipcVars => I'
  BY CountsStep, RegistryStep
<1>3. I => IpcInv
  BY DEF CountsOK, RegistryInv, IpcInv, IpcTypeOK
<1> QED
  BY <1>1, <1>2, <1>3, PTL DEF IpcSpec
=============================================================================

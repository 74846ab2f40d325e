---------------------------- MODULE DotPoolProofs ----------------------------
(***************************************************************************)
(* Proofs about DotPool, for every size of the pool and any number of      *)
(* queries.                                                                *)
(*                                                                         *)
(* PhaseInv says what the resolver thread finds at each of its positions   *)
(* and counts the connections; QueryInv numbers the queries, which shows   *)
(* that every index of a batch goes to one worker; TriedInv follows a      *)
(* query from the index to its first try; ConnInv says which connections   *)
(* are in step with their server.  Together they are inductive, and with   *)
(* them every step of the pool is one of the resolver the rest of the      *)
(* session is built on.                                                    *)
(***************************************************************************)
EXTENDS DotPool, FiniteSetTheorems, SequenceTheorems, TLAPS

USE DEF poolVars, workVars

Resting == {"test", "recv", "expand", "done"}

\* Between two batches, and before its workers are started, the resolver is
\* alone; it starts them from the last to the first, one for each connection of
\* the pool at least.
PhaseInv ==
  /\ pc \in Resting =>
       /\ returned = <<>>
       /\ toStart = 0
       /\ \A w \in Workers : wpc[w] = "idle"
       /\ Len(pool) <= MaxPool
  /\ pc \in Resting \ {"expand"} => batch = <<>>
  /\ pc = "start" =>
       /\ Cardinality(Busy) + Len(returned) + toStart <= MaxPool
       /\ Len(pool) <= toStart
  /\ \A w \in 1..toStart : wpc[w] = "idle"

\* The number of queries of the batches before this one.
Base == arrived - Len(dnsChan) - Len(batch)

\* Worker w has a query in its hands.
Active(w) == wpc[w] \in {"ask", "retry", "answered", "reply"}

\* Query q is one of those of the batch whose index was claimed, or of an
\* earlier batch.
UpToClaimed(q) == q <= Base + counter /\ q <= Base + Len(batch)

QueryInv ==
  /\ Base >= 0
  /\ \A i \in 1..Len(batch) : batch[i] = Base + i
  /\ \A i \in 1..Len(dnsChan) : dnsChan[i] = Base + Len(batch) + i
  /\ \A r \in replies : UpToClaimed(r[1])
  /\ \A w \in Workers : Active(w) => query[w] > Base /\ UpToClaimed(query[w])
  /\ AnsweredOnce

\* Until the session is stopped a claimed query has been tried or is about to be,
\* and a worker gives its connection back only when nothing is left to claim.
TriedInv ==
  bridge =>
    /\ \A i \in 1..Len(batch) :
         i <= counter =>
           \/ batch[i] \in tried
           \/ \E w \in Workers : wpc[w] = "ask" /\ query[w] = batch[i]
    /\ returned # <<>> => counter >= Len(batch)

\* The connections that are in step with their server unless they have failed a
\* query.
SoundConns == {c \in Conns : ~c.failed => c.owed = <<>> /\ c.stream = "ok"}

\* Only such connections are in the pool, with a worker or on their way back.
ConnInv ==
  /\ pool \in Seq(SoundConns)
  /\ returned \in Seq(SoundConns)
  /\ conn \in [Workers -> SoundConns]
  /\ \A w \in Workers :
       wpc[w] \in {"answered", "reply"} /\ ~conn[w].failed => answer[w] = query[w]
  /\ MixUpNeedsKeptConnection

ResolverInv == DotTypeOK /\ PhaseInv /\ QueryInv /\ TriedInv /\ ConnInv

-----------------------------------------------------------------------------
(* Numbers, queries and connections *)

\* The smaller of two numbers
LEMMA MinOfTwo ==
  ASSUME NEW a \in Nat, NEW b \in Nat
  PROVE  /\ Min({a, b}) \in Nat
         /\ Min({a, b}) <= a /\ Min({a, b}) <= b
         /\ Min({a, b}) = a \/ Min({a, b}) = b
<1>1. \E x \in {a, b} : \A y \in {a, b} : x <= y
  <2>1. CASE a <= b
    BY <2>1
  <2>2. CASE b <= a
    BY <2>2
  <2> QED
    BY <2>1, <2>2
<1>2. Min({a, b}) \in {a, b} /\ \A y \in {a, b} : Min({a, b}) <= y
  BY <1>1 DEF Min
<1> QED
  BY <1>2

\* dot_conns.len().max(1), main.rs:117
LEMMA WorkerCountOfPool ==
  ASSUME Len(pool) \in Nat
  PROVE  /\ WorkerCount \in Nat \ {0}
         /\ Len(pool) <= WorkerCount
         /\ WorkerCount = 1 \/ WorkerCount = Len(pool)
<1> DEFINE n == Len(pool)
<1>1. \E x \in {1, n} : \A y \in {1, n} : x >= y
  <2>1. CASE n <= 1
    BY <2>1
  <2>2. CASE 1 <= n
    BY <2>2
  <2> QED
    BY <2>1, <2>2
<1>2. WorkerCount \in {1, n} /\ \A y \in {1, n} : WorkerCount >= y
  BY <1>1 DEF WorkerCount, Max
<1> QED
  BY <1>2

\* create_dot_conn makes a connection nothing is owed on.
LEMMA FreshIsSound == Fresh \in SoundConns
<1>1. <<>> \in Seq(Queries)
  OBVIOUS
<1>2. Fresh \in Conns
  BY <1>1 DEF Fresh, Conns
<1> QED
  BY <1>2 DEF SoundConns, Fresh

\* A connection that failed and is marked as failed is one the pool may hold.
LEMMA FailedIsSound ==
  ASSUME NEW c \in Conns, NEW q \in Queries, NEW d \in Failed(c, q)
  PROVE  [d EXCEPT !.failed = TRUE] \in SoundConns
<1>1. c.owed \in Seq(Queries) /\ c.stream \in {"ok", "garbled", "dead"}
  BY DEF Conns
<1>2. d \in Conns
  <2>1. CASE d = [c EXCEPT !.stream = "dead"]
    BY <2>1, <1>1 DEF Conns
  <2>2. CASE d \in {[c EXCEPT !.owed = Append(@, q), !.stream = s] :
            s \in (IF c.stream = "ok" THEN {"ok", "garbled"} ELSE {c.stream})}
    <3>1. Append(c.owed, q) \in Seq(Queries)
      BY <1>1, AppendProperties
    <3> QED
      BY <2>2, <3>1, <1>1 DEF Conns
  <2> QED
    BY <2>1, <2>2 DEF Failed
<1>3. [d EXCEPT !.failed = TRUE] \in Conns
  BY <1>2 DEF Conns
<1>4. [d EXCEPT !.failed = TRUE].failed
  BY <1>2 DEF Conns
<1> QED
  BY <1>3, <1>4 DEF SoundConns

\* A query that gets an answer takes the oldest one that is owed: over a
\* connection in step that is its own, and the connection stays in step.
LEMMA AskKeepsStep ==
  ASSUME NEW w \in Workers, conn \in [Workers -> SoundConns],
         query \in [Workers -> Queries], answer \in [Workers -> Answers], Ask(w)
  PROVE  /\ answer' \in [Workers -> Answers]
         /\ conn' \in [Workers -> SoundConns]
         /\ ~conn'[w].failed => answer'[w] = query[w]
         /\ \A v \in Workers \ {w} : answer'[v] = answer[v] /\ conn'[v] = conn[v]
<1> DEFINE c == conn[w]
           owed == Append(c.owed, query[w])
           d == [c EXCEPT !.owed = Tail(owed)]
<1>1. c \in SoundConns /\ c \in Conns /\ query[w] \in Queries
  BY DEF SoundConns
<1>2. c.owed \in Seq(Queries)
  BY <1>1 DEF Conns
<1>3. owed \in Seq(Queries) /\ owed # <<>>
  BY <1>1, <1>2, AppendProperties
<1>4. Head(owed) \in Queries /\ Tail(owed) \in Seq(Queries)
  BY <1>3, HeadTailProperties
<1>5. conn' = [conn EXCEPT ![w] = d]
  BY DEF Ask
<1>6. answer' = [answer EXCEPT ![w] =
                   IF c.stream = "ok" THEN Head(owed) ELSE Garbled]
  BY DEF Ask
<1>7. d.owed = Tail(owed) /\ d.stream = c.stream /\ d.failed = c.failed
  BY <1>1 DEF Conns
<1>8. d \in Conns
  BY <1>1, <1>4 DEF Conns
<1>9. ASSUME ~c.failed
      PROVE  /\ c.stream = "ok" /\ Head(owed) = query[w] /\ Tail(owed) = <<>>
  <2>1. c.stream = "ok" /\ c.owed = <<>>
    BY <1>1, <1>9 DEF SoundConns
  <2>2. owed = <<query[w]>>
    BY <2>1
  <2> QED
    BY <2>1, <2>2
<1>10. d \in SoundConns
  <2>1. d.failed = c.failed /\ d.owed = Tail(owed) /\ d.stream = c.stream
    BY <1>7
  <2>2. CASE c.failed
    BY <2>1, <2>2, <1>8 DEF SoundConns
  <2>3. CASE ~c.failed
    BY <2>1, <2>3, <1>8, <1>9 DEF SoundConns
  <2> QED
    BY <2>2, <2>3
<1>11. conn' \in [Workers -> SoundConns]
  BY <1>5, <1>10
<1>12. answer' \in [Workers -> Answers]
  BY <1>4, <1>6 DEF Answers
<1>13. conn'[w] = d /\ answer'[w] = IF c.stream = "ok" THEN Head(owed) ELSE Garbled
  BY <1>5, <1>6
<1>14. ASSUME ~conn'[w].failed PROVE answer'[w] = query[w]
  <2>1. ~c.failed
    BY <1>14, <1>13, <1>7
  <2> QED
    BY <2>1, <1>9, <1>13
<1> QED
  BY <1>5, <1>6, <1>11, <1>12, <1>14

-----------------------------------------------------------------------------
(* The types *)

WPcs == {"idle", "claim", "ask", "retry", "answered", "reply"}

QueueTypes ==
  /\ bridge \in BOOLEAN
  /\ warm \in BOOLEAN
  /\ dnsChan \in Seq(Queries)
  /\ arrived \in 0..MaxQueries
  /\ pc \in {"test", "recv", "expand", "start", "done"}
  /\ batch \in Seq(Queries)
  /\ counter \in Nat
  /\ tried \subseteq Queries

WorkTypes ==
  /\ toStart \in 0..MaxPool
  /\ wpc \in [Workers -> WPcs]
  /\ query \in [Workers -> Queries]
  /\ answer \in [Workers -> Answers]
  /\ replies \subseteq Queries \X Answers \X BOOLEAN

\* A sequence of sound connections is one of connections.
LEMMA SoundSequence ==
  ASSUME NEW s \in Seq(SoundConns)
  PROVE  s \in Seq(Conns)
<1>1. SoundConns \subseteq Conns
  BY DEF SoundConns
<1>2. \A i \in 1..Len(s) : s[i] \in Conns
  BY <1>1, ElementOfSeq
<1>3. Len(s) \in Nat /\ s = [i \in 1..Len(s) |-> s[i]]
  BY LenProperties
<1> QED
  BY <1>2, <1>3, SeqDef

\* The types of the resolver are those of its parts.
LEMMA TypesByPart == QueueTypes /\ WorkTypes /\ ConnInv => DotTypeOK
<1> SUFFICES ASSUME QueueTypes, WorkTypes, ConnInv PROVE DotTypeOK
  OBVIOUS
<1>1. pool \in Seq(Conns) /\ returned \in Seq(Conns)
  BY SoundSequence DEF ConnInv
<1>2. conn \in [Workers -> Conns]
  BY DEF ConnInv, SoundConns
<1> QED
  BY <1>1, <1>2 DEF DotTypeOK, QueueTypes, WorkTypes, WPcs

\* ... and back.
LEMMA PartsOfTypes == DotTypeOK => QueueTypes /\ WorkTypes
BY DEF DotTypeOK, QueueTypes, WorkTypes, WPcs

\* The thread starts with no connection and no query (main.rs:309-315).
LEMMA InitResolver == DotInit => ResolverInv
<1> SUFFICES ASSUME DotInit PROVE ResolverInv
  OBVIOUS
<1> USE DotAssumption DEF DotInit
<1>1. /\ <<>> \in Seq(Queries) /\ <<>> \in Seq(SoundConns) /\ Len(<<>>) = 0
      /\ 1 \in Queries
  BY DEF Queries
<1>b. bridge \in BOOLEAN /\ warm \in BOOLEAN
  OBVIOUS
<1>2. QueueTypes
  BY <1>1, <1>b DEF QueueTypes
<1>3. WorkTypes
  BY <1>1 DEF WorkTypes, WPcs, Answers
<1>4. ConnInv
  BY <1>1, FreshIsSound DEF ConnInv, MixUpNeedsKeptConnection
<1>5. PhaseInv
  <2>1. \A w \in Workers : wpc[w] = "idle"
    OBVIOUS
  <2>2. 1..toStart = {}
    OBVIOUS
  <2>3. Len(pool) <= MaxPool
    BY <1>1
  <2> QED
    BY <2>1, <2>2, <2>3 DEF PhaseInv, Resting
<1>6. QueryInv
  <2>1. dnsChan = <<>> /\ batch = <<>> /\ arrived = 0 /\ replies = {}
    OBVIOUS
  <2>3. Len(dnsChan) = 0 /\ Len(batch) = 0
    BY <1>1, <2>1
  <2>4. Base = 0
    <3>1. arrived = 0 /\ Len(dnsChan) = 0 /\ Len(batch) = 0
      BY <2>1, <2>3
    <3> QED
      BY ONLY <3>1 DEF Base
  <2>2. \A w \in Workers : wpc[w] = "idle"
    OBVIOUS
  <2> QED
    BY <2>1, <2>2, <2>3, <2>4 DEF QueryInv, Active, AnsweredOnce
<1>7. TriedInv
  BY <1>1 DEF TriedInv
<1> QED
  BY <1>2, <1>3, <1>4, <1>5, <1>6, <1>7, TypesByPart DEF ResolverInv

\* Every step keeps the types of the queues.
LEMMA QueueTypesStep == ResolverInv /\ [DotNext]_vars => QueueTypes'
<1> SUFFICES ASSUME ResolverInv, [DotNext]_vars PROVE QueueTypes'
  OBVIOUS
<1> USE DotAssumption DEF QueueTypes
<1>t. QueueTypes /\ WorkTypes
  BY PartsOfTypes DEF ResolverInv
<1>e. <<>> \in Seq(Queries)
  OBVIOUS
<1>1. CASE Test \/ RecvTimeout \/ Expand \/ ExpandEnd \/ StartWorker \/ StartFails
  <2>1. pc' \in {"test", "recv", "expand", "start", "done"}
    BY <1>1, <1>t DEF Test, RecvTimeout, Expand, ExpandEnd, StartWorker,
                      StartFails
  <2>2. UNCHANGED <<bridge, warm, dnsChan, arrived, batch, counter, tried>>
    BY <1>1 DEF Test, RecvTimeout, Expand, ExpandEnd, StartWorker, StartFails
  <2> QED
    BY <2>1, <2>2, <1>t
<1>2. CASE TakeBatch \/ Join
  <2>1. pc' \in {"expand", "test"} /\ UNCHANGED <<bridge, warm, arrived, tried>>
    BY <1>2 DEF TakeBatch, Join
  <2>2. /\ dnsChan' = <<>> \/ dnsChan' = dnsChan
        /\ batch' = <<>> \/ batch' = dnsChan
    BY <1>2 DEF TakeBatch, Join
  <2>3. counter' = 0 \/ counter' = counter
    BY <1>2 DEF TakeBatch, Join
  <2>4. dnsChan' \in Seq(Queries) /\ batch' \in Seq(Queries)
    BY <2>2, <1>t, <1>e
  <2> QED
    BY <2>1, <2>3, <2>4, <1>t
<1>3. CASE \E w \in Workers : Worker(w)
  <2>1. PICK w \in Workers : Worker(w)
    BY <1>3
  <2>2. WorkerOnly
    BY <2>1 DEF Worker, Claim, AskOk, AskReconnect, AskGiveUp, RetryOk,
                RetryFails, SetWarm, Reply
  <2>3. warm' \in BOOLEAN
    BY <2>1, <1>t DEF Worker, Claim, AskOk, AskReconnect, AskGiveUp, RetryOk,
                RetryFails, SetWarm, Reply
  <2>4. counter' \in Nat
    BY <2>1, <1>t DEF Worker, Claim, NextIndex, AskOk, AskReconnect, AskGiveUp,
                RetryOk, RetryFails, SetWarm, Reply
  <2>5. tried' = tried \/ tried' = tried \cup {query[w]}
    BY <2>1 DEF Worker, Claim, AskOk, AskReconnect, AskGiveUp, RetryOk,
                RetryFails, SetWarm, Reply
  <2>6. query[w] \in Queries
    BY <1>t DEF WorkTypes
  <2> QED
    BY <1>t, <2>2, <2>3, <2>4, <2>5, <2>6 DEF WorkerOnly
<1>4. CASE Divert
  <2>1. arrived + 1 \in Queries /\ arrived' \in 0..MaxQueries
    BY <1>4, <1>t DEF Divert, Queries
  <2>2. dnsChan' \in Seq(Queries)
    BY <1>4, <1>t, <2>1, AppendProperties DEF Divert
  <2> QED
    BY <1>4, <1>t, <2>1, <2>2 DEF Divert
<1>5. CASE StopBridge
  BY <1>5, <1>t DEF StopBridge
<1>6. CASE UNCHANGED vars
  BY <1>6, <1>t DEF vars
<1> QED
  BY <1>1, <1>2, <1>3, <1>4, <1>5, <1>6 DEF DotNext, ResolverThread

\* Every step keeps the types of what the workers have.
LEMMA WorkTypesStep == ResolverInv /\ [DotNext]_vars => WorkTypes'
<1> SUFFICES ASSUME ResolverInv, [DotNext]_vars PROVE WorkTypes'
  OBVIOUS
<1> USE DotAssumption DEF WorkTypes, WPcs
<1>t. QueueTypes /\ WorkTypes
  BY PartsOfTypes DEF ResolverInv
<1>1. CASE \/ Test \/ RecvTimeout \/ TakeBatch \/ Expand \/ Join
           \/ Divert \/ StopBridge \/ UNCHANGED vars
  <2>1. UNCHANGED <<toStart, workVars, replies>>
    BY <1>1 DEF Test, RecvTimeout, TakeBatch, Expand, Join, Divert, StopBridge,
                vars
  <2> QED
    BY <2>1, <1>t
<1>2. CASE ExpandEnd
  <2>1. Len(pool) \in Nat /\ Len(pool) <= MaxPool
    BY <1>2, LenProperties DEF ResolverInv, ConnInv, ExpandEnd, PhaseInv, Resting
  <2>2. WorkerCount \in 0..MaxPool
    BY <2>1, WorkerCountOfPool
  <2> QED
    BY <1>2, <2>2, <1>t DEF ExpandEnd
<1>3. CASE StartWorker \/ StartFails
  <2>1. toStart > 0 /\ toStart' = toStart - 1 /\ UNCHANGED <<query, answer, replies>>
    BY <1>3 DEF StartWorker, StartFails
  <2>2. wpc' = [wpc EXCEPT ![toStart] = "claim"] \/ wpc' = wpc
    BY <1>3 DEF StartWorker, StartFails
  <2> QED
    BY <2>1, <2>2, <1>t
<1>4. CASE \E w \in Workers : Worker(w)
  <2>1. PICK w \in Workers : Worker(w)
    BY <1>4
  <2>2. \E x \in WPcs : wpc' = [wpc EXCEPT ![w] = x]
    BY <2>1 DEF Worker, Claim, AskOk, AskReconnect, AskGiveUp, RetryOk,
                RetryFails, SetWarm, Reply
  <2>3. toStart' = toStart
    BY <2>1 DEF Worker, Claim, AskOk, AskReconnect, AskGiveUp, RetryOk,
                RetryFails, SetWarm, Reply, WorkerOnly
  <2>4. query' \in [Workers -> Queries]
    <3>1. CASE Claim(w)
      <4>1. CASE HasQuery
        <5>1. counter + 1 \in 1..Len(batch)
          BY <4>1, <1>t, LenProperties DEF HasQuery, QueueTypes
        <5>2. batch[counter + 1] \in Queries
          BY <5>1, <1>t, ElementOfSeq DEF QueueTypes
        <5> QED
          BY <3>1, <4>1, <5>2, <1>t DEF Claim
      <4> QED
        BY <3>1, <4>1, <1>t DEF Claim
    <3>2. CASE ~Claim(w)
      <4>1. query' = query
        BY <2>1, <3>2 DEF Worker, AskOk, AskReconnect, AskGiveUp, RetryOk,
                RetryFails, SetWarm, Reply
      <4> QED
        BY <4>1, <1>t
    <3> QED
      BY <3>1, <3>2
  <2>5. answer' \in [Workers -> Answers]
    <3>1. CASE Ask(w)
      BY <3>1, <1>t, AskKeepsStep DEF ResolverInv, ConnInv
    <3>2. CASE ~Ask(w)
      <4>1. answer' = answer
        BY <2>1, <3>2 DEF Worker, Claim, AskOk, AskReconnect, AskGiveUp, RetryOk,
                RetryFails, SetWarm, Reply
      <4> QED
        BY <4>1, <1>t
    <3> QED
      BY <3>1, <3>2
  <2>6. replies' \subseteq Queries \X Answers \X BOOLEAN
    <3>1. CASE Reply(w)
      <4>1. conn[w].failed \in BOOLEAN
        BY DEF ResolverInv, ConnInv, SoundConns, Conns
      <4>2. <<query[w], answer[w], conn[w].failed>> \in Queries \X Answers \X BOOLEAN
        BY <4>1, <1>t
      <4> QED
        BY <3>1, <4>2, <1>t DEF Reply
    <3>2. CASE ~Reply(w)
      <4>1. replies' = replies
        BY <2>1, <3>2 DEF Worker, Claim, AskOk, AskReconnect, AskGiveUp, RetryOk,
                RetryFails, SetWarm
      <4> QED
        BY <4>1, <1>t
    <3> QED
      BY <3>1, <3>2
  <2> QED
    BY <2>2, <2>3, <2>4, <2>5, <2>6, <1>t
<1> QED
  BY <1>1, <1>2, <1>3, <1>4 DEF DotNext, ResolverThread

-----------------------------------------------------------------------------
(* The connections *)

\* A connection that failed a query is marked, or replaced by a new one
\* (main.rs:140-160); the pool gets back what the workers return (main.rs:171-178).
LEMMA ConnStep == ResolverInv /\ [DotNext]_vars => ConnInv'
<1> SUFFICES ASSUME ResolverInv, [DotNext]_vars PROVE ConnInv'
  OBVIOUS
<1> USE DotAssumption
<1>t. QueueTypes /\ WorkTypes
  BY PartsOfTypes DEF ResolverInv
<1>i. ConnInv
  BY DEF ResolverInv
<1>w. wpc \in [Workers -> WPcs] /\ conn \in [Workers -> SoundConns]
      /\ query \in [Workers -> Queries] /\ answer \in [Workers -> Answers]
  BY <1>t, <1>i DEF WorkTypes, ConnInv
<1>p. /\ pool \in Seq(SoundConns) /\ returned \in Seq(SoundConns)
      /\ Len(pool) \in Nat /\ Len(returned) \in Nat
      /\ \A i \in 1..Len(pool) : pool[i] \in SoundConns
  <2>1. pool \in Seq(SoundConns) /\ returned \in Seq(SoundConns)
    BY <1>i DEF ConnInv
  <2> QED
    BY <2>1, LenProperties, ElementOfSeq
<1>m. MixUpNeedsKeptConnection
  BY <1>i DEF ConnInv
<1>a. \A w \in Workers :
        wpc[w] \in {"answered", "reply"} /\ ~conn[w].failed => answer[w] = query[w]
  BY <1>i DEF ConnInv
<1>1. CASE \/ Test \/ RecvTimeout \/ TakeBatch \/ ExpandEnd \/ StartFails
           \/ Divert \/ StopBridge \/ UNCHANGED vars
  <2>1. UNCHANGED <<pool, returned, workVars, replies>>
    BY <1>1 DEF Test, RecvTimeout, TakeBatch, ExpandEnd, StartFails, Divert,
                StopBridge, vars
  <2> QED
    BY <2>1, <1>i DEF ConnInv, MixUpNeedsKeptConnection
<1>2. CASE Expand
  <2>1. pool' \in Seq(SoundConns)
    BY <1>2, <1>p, FreshIsSound, AppendProperties DEF Expand
  <2>2. UNCHANGED <<returned, workVars, replies>>
    BY <1>2 DEF Expand
  <2> QED
    BY <2>1, <2>2, <1>i DEF ConnInv, MixUpNeedsKeptConnection
<1>3. CASE StartWorker
  <2>1. toStart \in Workers
    BY <1>3, <1>t DEF StartWorker, WorkTypes, Workers
  <2>2. UNCHANGED <<returned, query, answer, replies>>
        /\ wpc' = [wpc EXCEPT ![toStart] = "claim"]
    BY <1>3 DEF StartWorker
  <2>3. PICK c : conn' = [conn EXCEPT ![toStart] = c] /\ c \in SoundConns
    <3>1. CASE pool # <<>>
      <4>1. Len(pool) \in 1..Len(pool)
        BY <3>1, <1>p, EmptySeq
      <4> QED
        BY <3>1, <4>1, <1>3, <1>p DEF StartWorker
    <3>2. CASE pool = <<>>
      BY <3>2, <1>3, FreshIsSound DEF StartWorker
    <3> QED
      BY <3>1, <3>2
  <2>4. conn' \in [Workers -> SoundConns]
    BY <2>3, <1>w
  <2>5. pool' \in Seq(SoundConns)
    <3>1. CASE pool # <<>>
      <4>1. \A i \in 1..(Len(pool) - 1) : pool[i] \in SoundConns
        BY <1>p
      <4>2. SubSeq(pool, 1, Len(pool) - 1) \in Seq(SoundConns)
        BY <4>1, <1>p, SubSeqProperties
      <4> QED
        BY <3>1, <4>2, <1>3 DEF StartWorker
    <3>2. CASE pool = <<>>
      BY <3>2, <1>3, <1>p DEF StartWorker
    <3> QED
      BY <3>1, <3>2
  <2>6. \A w \in Workers :
          wpc'[w] \in {"answered", "reply"} /\ ~conn'[w].failed
            => answer'[w] = query'[w]
    <3> SUFFICES ASSUME NEW w \in Workers, wpc'[w] \in {"answered", "reply"},
                        ~conn'[w].failed
                 PROVE  answer'[w] = query'[w]
      OBVIOUS
    <3>1. w # toStart
      BY <2>1, <2>2, <1>w
    <3>2. wpc'[w] = wpc[w] /\ conn'[w] = conn[w]
      BY <3>1, <2>1, <2>2, <2>3, <1>w
    <3> QED
      BY <3>2, <2>2, <1>a
  <2> QED
    BY <2>2, <2>4, <2>5, <2>6, <1>p, <1>m DEF ConnInv, MixUpNeedsKeptConnection
<1>4. CASE Join
  <2> DEFINE all == pool \o returned
             n == Min({MaxPool, Len(all)})
  <2>1. /\ all \in Seq(SoundConns) /\ Len(all) \in Nat
        /\ \A i \in 1..Len(all) : all[i] \in SoundConns
    BY <1>p, ConcatProperties, LenProperties, ElementOfSeq
  <2>2. n \in Nat /\ n <= Len(all)
    BY <2>1, MinOfTwo
  <2>3. SubSeq(all, 1, n) \in Seq(SoundConns)
    <3> HIDE DEF all, n
    <3>1. \A i \in 1..n : all[i] \in SoundConns
      BY <2>1, <2>2
    <3>2. 1 \in Int /\ n \in Int
      BY <2>2
    <3> QED
      BY <3>1, <3>2, SubSeqProperties
  <2>4. pool' \in Seq(SoundConns)
    BY <2>3, <1>4 DEF Join
  <2>5. returned' \in Seq(SoundConns)
    <3>1. <<>> \in Seq(SoundConns)
      OBVIOUS
    <3>2. returned' = <<>>
      BY <1>4 DEF Join
    <3> QED
      BY <3>1, <3>2
  <2>6. UNCHANGED <<workVars, replies>>
    BY <1>4 DEF Join
  <2> QED
    BY <2>4, <2>5, <2>6, <1>i DEF ConnInv, MixUpNeedsKeptConnection
<1>5. CASE \E w \in Workers : Worker(w)
  <2>1. PICK w \in Workers : Worker(w)
    BY <1>5
  <2>2. conn[w] \in SoundConns /\ conn[w] \in Conns /\ query[w] \in Queries
    BY <1>w DEF SoundConns
  <2>3. pool' = pool
    BY <2>1 DEF Worker, Claim, AskOk, AskReconnect, AskGiveUp, RetryOk,
                RetryFails, SetWarm, Reply, WorkerOnly
  <2>4. returned' \in Seq(SoundConns)
    <3>1. returned' = returned \/ returned' = Append(returned, conn[w])
      BY <2>1 DEF Worker, Claim, AskOk, AskReconnect, AskGiveUp, RetryOk,
                RetryFails, SetWarm, Reply
    <3> QED
      BY <3>1, <2>2, <1>p, AppendProperties
  <2>5. /\ conn' \in [Workers -> SoundConns]
        /\ \A v \in Workers :
             wpc'[v] \in {"answered", "reply"} /\ ~conn'[v].failed
               => answer'[v] = query'[v]
    <3>1. CASE AskOk(w) \/ RetryOk(w)
      <4>1. /\ answer' \in [Workers -> Answers]
            /\ conn' \in [Workers -> SoundConns]
            /\ ~conn'[w].failed => answer'[w] = query[w]
            /\ \A v \in Workers \ {w} :
                 answer'[v] = answer[v] /\ conn'[v] = conn[v]
        BY <3>1, <1>w, AskKeepsStep DEF AskOk, RetryOk
      <4>2. query' = query /\ wpc' = [wpc EXCEPT ![w] = "answered"]
        BY <3>1 DEF AskOk, RetryOk
      <4>3. \A v \in Workers \ {w} : wpc'[v] = wpc[v]
        BY <4>2, <1>w
      <4> QED
        BY <4>1, <4>2, <4>3, <1>a
    <3>2. CASE AskReconnect(w) \/ AskGiveUp(w) \/ RetryFails(w)
      <4>1. PICK c \in SoundConns : conn' = [conn EXCEPT ![w] = c]
        <5>1. CASE AskReconnect(w)
          BY <5>1, FreshIsSound DEF AskReconnect, Reconnected
        <5>2. CASE AskGiveUp(w) \/ RetryFails(w)
          <6>1. PICK d \in Failed(conn[w], query[w]) :
                  conn' = [conn EXCEPT ![w] = [d EXCEPT !.failed = TRUE]]
            BY <5>2 DEF AskGiveUp, RetryFails
          <6> QED
            BY <6>1, <2>2, FailedIsSound
        <5> QED
          BY <3>2, <5>1, <5>2
      <4>2. PICK x \in {"retry", "claim"} : wpc' = [wpc EXCEPT ![w] = x]
        BY <3>2 DEF AskReconnect, AskGiveUp, RetryFails
      <4>3. UNCHANGED <<query, answer>>
        BY <3>2 DEF AskReconnect, AskGiveUp, RetryFails
      <4>4. conn' \in [Workers -> SoundConns]
        BY <4>1, <1>w
      <4>5. \A v \in Workers \ {w} : wpc'[v] = wpc[v] /\ conn'[v] = conn[v]
        BY <4>1, <4>2, <1>w
      <4>6. wpc'[w] \notin {"answered", "reply"}
        BY <4>2, <1>w
      <4> QED
        BY <4>3, <4>4, <4>5, <4>6, <1>a
    <3>3. CASE Claim(w)
      <4>1. conn' = conn /\ answer' = answer
        BY <3>3 DEF Claim
      <4>2. /\ wpc'[w] \notin {"answered", "reply"}
            /\ \A v \in Workers \ {w} : wpc'[v] = wpc[v] /\ query'[v] = query[v]
        BY <3>3, <1>w DEF Claim
      <4> QED
        BY <4>1, <4>2, <1>a, <1>w
    <3>4. CASE SetWarm(w) \/ Reply(w)
      <4>1. UNCHANGED <<conn, answer, query>>
        BY <3>4 DEF SetWarm, Reply
      <4>2. \A v \in Workers : wpc'[v] \in {"answered", "reply"} =>
                                 wpc[v] \in {"answered", "reply"}
        BY <3>4, <1>w DEF SetWarm, Reply
      <4> QED
        BY <4>1, <4>2, <1>a, <1>w
    <3> QED
      BY <2>1, <3>1, <3>2, <3>3, <3>4 DEF Worker
  <2>6. MixUpNeedsKeptConnection'
    <3>1. CASE Reply(w)
      <4>1. replies' = replies \cup {<<query[w], answer[w], conn[w].failed>>}
            /\ wpc[w] = "reply"
        BY <3>1 DEF Reply
      <4>2. query[w] # answer[w] => conn[w].failed
        BY <4>1, <1>a
      <4>3. ASSUME NEW r \in replies', r[1] # r[2] PROVE r[3]
        <5>1. CASE r \in replies
          BY <5>1, <4>3, <1>m DEF MixUpNeedsKeptConnection
        <5>2. CASE r = <<query[w], answer[w], conn[w].failed>>
          BY <5>2, <4>3, <4>2
        <5> QED
          BY <5>1, <5>2, <4>1
      <4> QED
        BY <4>3 DEF MixUpNeedsKeptConnection
    <3>2. CASE ~Reply(w)
      <4>1. replies' = replies
        BY <2>1, <3>2 DEF Worker, Claim, AskOk, AskReconnect, AskGiveUp, RetryOk,
                RetryFails, SetWarm
      <4> QED
        BY <4>1, <1>m DEF MixUpNeedsKeptConnection
    <3> QED
      BY <3>1, <3>2
  <2> QED
    BY <2>3, <2>4, <2>5, <2>6, <1>p DEF ConnInv
<1> QED
  BY <1>1, <1>2, <1>3, <1>4, <1>5 DEF DotNext, ResolverThread

-----------------------------------------------------------------------------
(* The phases of a batch *)

\* The workers that are not idle can be counted.
LEMMA BusyFinite == IsFiniteSet(Busy) /\ Cardinality(Busy) \in Nat
<1>1. IsFiniteSet(Workers)
  BY DotAssumption, FS_Interval DEF Workers
<1>2. Busy \subseteq Workers
  BY DEF Busy
<1> QED
  BY <1>1, <1>2, FS_Subset, FS_CardinalityType

\* One more worker, with the connection it is given, and one fewer to start.
LEMMA StartCounts ==
  ASSUME ResolverInv, StartWorker
  PROVE  /\ Cardinality(Busy)' = Cardinality(Busy) + 1
         /\ \A w \in 1..toStart' : wpc'[w] = "idle"
         /\ Len(pool') <= toStart'
<1>t. /\ toStart \in 0..MaxPool /\ wpc \in [Workers -> WPcs]
      /\ toStart > 0 /\ toStart' = toStart - 1 /\ pc = "start"
      /\ wpc' = [wpc EXCEPT ![toStart] = "claim"]
  BY PartsOfTypes DEF StartWorker, ResolverInv, WorkTypes
<1>i. /\ \A w \in 1..toStart : wpc[w] = "idle"
      /\ Len(pool) <= toStart
  BY <1>t DEF ResolverInv, PhaseInv
<1>w. toStart \in Workers
  BY <1>t, DotAssumption DEF Workers
<1>1. Busy' = Busy \cup {toStart} /\ toStart \notin Busy
  <2>1. \A v \in Workers : wpc'[v] = IF v = toStart THEN "claim" ELSE wpc[v]
    BY <1>t, <1>w
  <2>2. wpc[toStart] = "idle"
    BY <1>t, <1>i
  <2> QED
    BY <2>1, <2>2, <1>w DEF Busy
<1>2. Cardinality(Busy)' = Cardinality(Busy) + 1
  BY <1>1, BusyFinite, FS_AddElement
<1>3. \A w \in 1..toStart' : wpc'[w] = "idle"
  <2> SUFFICES ASSUME NEW w \in 1..toStart' PROVE wpc'[w] = "idle"
    OBVIOUS
  <2>1. w \in 1..toStart /\ w # toStart /\ w \in Workers
    BY <1>t, DotAssumption DEF Workers
  <2> QED
    BY <2>1, <1>t, <1>i
<1>4. Len(pool') <= toStart'
  <2>p. pool \in Seq(SoundConns) /\ Len(pool) \in Nat
    BY LenProperties DEF ResolverInv, ConnInv
  <2>1. CASE pool # <<>>
    <3>1. Len(pool) > 0 /\ pool' = SubSeq(pool, 1, Len(pool) - 1)
      BY <2>1, <2>p, EmptySeq, <1>t DEF StartWorker
    <3> DEFINE m == Len(pool) - 1
    <3>2. m \in Nat /\ \A i \in 1..m : i \in 1..Len(pool)
      BY <3>1, <2>p
    <3>3. pool' = SubSeq(pool, 1, m)
      BY <3>1
    <3>4. Len(SubSeq(pool, 1, m)) = m
      <4> HIDE DEF m
      <4>1. \A i \in 1..m : pool[i] \in SoundConns
        BY <2>p, <3>2, ElementOfSeq
      <4>2. Len(SubSeq(pool, 1, m)) = IF 1 <= m THEN m - 1 + 1 ELSE 0
        BY <4>1, <3>2, SubSeqProperties
      <4> QED
        BY <4>2, <3>2
    <3>5. Len(pool') = Len(pool) - 1
      BY <3>3, <3>4
    <3> QED
      BY <3>5, <2>p, <1>t, <1>i
  <2>2. CASE pool = <<>>
    <3>1. pool' = pool /\ Len(pool) = 0
      BY <2>2 DEF StartWorker
    <3> QED
      BY <3>1, <1>t
  <2> QED
    BY <2>1, <2>2
<1> QED
  BY <1>2, <1>3, <1>4

\* A worker that moves was started; the last move gives its connection back.
LEMMA WorkerCounts ==
  ASSUME ResolverInv, NEW w \in Workers, Worker(w)
  PROVE  /\ pc = "start"
         /\ UNCHANGED <<pc, toStart, pool, batch>>
         /\ Cardinality(Busy)' + Len(returned') = Cardinality(Busy) + Len(returned)
         /\ \A v \in 1..toStart : wpc'[v] = "idle"
<1>t. wpc \in [Workers -> WPcs]
  BY PartsOfTypes DEF ResolverInv, WorkTypes
<1>1. wpc[w] # "idle"
  BY DEF Worker, Claim, AskOk, AskReconnect, AskGiveUp, RetryOk, RetryFails,
         SetWarm, Reply
<1>2. pc = "start"
  <2>1. pc \in Resting \cup {"start"}
    BY PartsOfTypes DEF ResolverInv, QueueTypes, Resting
  <2> QED
    BY <2>1, <1>1 DEF ResolverInv, PhaseInv
<1>3. UNCHANGED <<pc, toStart, pool, batch>>
  BY DEF Worker, Claim, AskOk, AskReconnect, AskGiveUp, RetryOk, RetryFails,
         SetWarm, Reply, WorkerOnly
<1>4. \E x \in WPcs : wpc' = [wpc EXCEPT ![w] = x]
  BY DEF Worker, Claim, AskOk, AskReconnect, AskGiveUp, RetryOk, RetryFails,
         SetWarm, Reply, WPcs
<1>5. \A v \in Workers \ {w} : wpc'[v] = wpc[v]
  BY <1>4, <1>t
<1>6. \A v \in 1..toStart : wpc'[v] = "idle"
  <2> SUFFICES ASSUME NEW v \in 1..toStart PROVE wpc'[v] = "idle"
    OBVIOUS
  <2>1. wpc[v] = "idle" /\ v # w
    BY <1>1 DEF ResolverInv, PhaseInv
  <2>2. v \in Workers
    BY PartsOfTypes, DotAssumption DEF ResolverInv, WorkTypes, Workers
  <2> QED
    BY <2>1, <2>2, <1>5
<1>7. Cardinality(Busy)' + Len(returned') = Cardinality(Busy) + Len(returned)
  <2>r. returned \in Seq(SoundConns) /\ Len(returned) \in Nat
        /\ conn[w] \in SoundConns
    BY LenProperties DEF ResolverInv, ConnInv
  <2>1. CASE Claim(w) /\ ~HasQuery
    <3>1. wpc' = [wpc EXCEPT ![w] = "idle"] /\ returned' = Append(returned, conn[w])
      BY <2>1 DEF Claim
    <3>2. wpc'[w] = "idle"
      BY <3>1, <1>t
    <3>3. Busy' = Busy \ {w} /\ w \in Busy
      BY <3>2, <1>1, <1>5 DEF Busy
    <3>4. Cardinality(Busy)' = Cardinality(Busy) - 1
      BY <3>3, BusyFinite, FS_RemoveElement
    <3>5. Len(returned') = Len(returned) + 1
      BY <3>1, <2>r, AppendProperties
    <3> QED
      BY <3>4, <3>5, <2>r, BusyFinite
  <2>2. CASE ~(Claim(w) /\ ~HasQuery)
    <3>1. returned' = returned
      BY <2>2 DEF Worker, Claim, AskOk, AskReconnect, AskGiveUp, RetryOk,
                  RetryFails, SetWarm, Reply
    <3>2. wpc'[w] # "idle"
      BY <2>2, <1>t DEF Worker, Claim, AskOk, AskReconnect, AskGiveUp, RetryOk,
                  RetryFails, SetWarm, Reply
    <3>3. Busy' = Busy
      BY <3>2, <1>1, <1>5 DEF Busy
    <3> QED
      BY <3>1, <3>3
  <2> QED
    BY <2>1, <2>2
<1> QED
  BY <1>2, <1>3, <1>6, <1>7

\* The connections are counted as they go from the pool to the workers and back
\* (main.rs:95-178).
LEMMA PhaseStep == ResolverInv /\ [DotNext]_vars => PhaseInv'
<1> SUFFICES ASSUME ResolverInv, [DotNext]_vars PROVE PhaseInv'
  OBVIOUS
<1> USE DotAssumption DEF Resting
<1>t. QueueTypes /\ WorkTypes /\ PhaseInv
  BY PartsOfTypes DEF ResolverInv
<1>n. /\ pool \in Seq(SoundConns) /\ returned \in Seq(SoundConns)
      /\ Len(pool) \in Nat /\ Len(returned) \in Nat
      /\ batch \in Seq(Queries) /\ Len(batch) \in Nat
      /\ toStart \in 0..MaxPool
  BY <1>t, LenProperties DEF ResolverInv, ConnInv, QueueTypes, WorkTypes
<1>1. CASE Test \/ RecvTimeout \/ TakeBatch
  <2>1. /\ pc \in {"test", "recv"}
        /\ pc' \in {"test", "recv", "done", "expand"}
        /\ pc' # "expand" => batch' = batch
        /\ UNCHANGED <<pool, toStart, returned, wpc>>
    BY <1>1 DEF Test, RecvTimeout, TakeBatch
  <2> QED
    BY <2>1, <1>t DEF PhaseInv
<1>2. CASE Expand
  <2>1. Len(pool) < MaxPool
    BY <1>2, <1>n, MinOfTwo DEF Expand, PoolShort
  <2>2. Len(pool') <= MaxPool
    BY <2>1, <1>2, <1>n, FreshIsSound, AppendProperties DEF Expand
  <2>3. pc = "expand" /\ UNCHANGED <<pc, batch, toStart, returned, wpc>>
    BY <1>2 DEF Expand
  <2> QED
    BY <2>2, <2>3, <1>t DEF PhaseInv
<1>3. CASE ExpandEnd
  <2>1. /\ pc = "expand" /\ pc' = "start" /\ toStart' = WorkerCount
        /\ UNCHANGED <<pool, returned, wpc>>
    BY <1>3 DEF ExpandEnd
  <2>2. /\ Len(pool) <= MaxPool /\ returned = <<>>
        /\ \A w \in Workers : wpc[w] = "idle"
    BY <2>1, <1>t DEF PhaseInv
  <2>3. /\ WorkerCount \in Nat /\ Len(pool) <= WorkerCount
        /\ WorkerCount <= MaxPool
    BY <2>2, <1>n, WorkerCountOfPool
  <2>4. Busy = {} /\ Busy' = {}
    BY <2>1, <2>2 DEF Busy
  <2>5. Cardinality(Busy)' = 0 /\ Len(returned') = 0
    BY <2>1, <2>2, <2>4, FS_EmptySet
  <2>6. \A w \in 1..toStart' : wpc'[w] = "idle"
    BY <2>1, <2>2, <2>3 DEF Workers
  <2>7. Cardinality(Busy)' + Len(returned') + toStart' <= MaxPool
    BY <2>1, <2>3, <2>5
  <2> QED
    BY <2>1, <2>3, <2>6, <2>7 DEF PhaseInv
<1>4. CASE StartWorker
  <2>1. /\ pc = "start" /\ toStart > 0 /\ toStart' = toStart - 1
        /\ UNCHANGED <<pc, returned>>
    BY <1>4 DEF StartWorker
  <2>2. /\ Cardinality(Busy)' = Cardinality(Busy) + 1
        /\ \A w \in 1..toStart' : wpc'[w] = "idle"
        /\ Len(pool') <= toStart'
    BY <1>4, StartCounts
  <2>3. Cardinality(Busy)' + Len(returned') + toStart' <= MaxPool
    BY <2>1, <2>2, <1>t, <1>n, BusyFinite DEF PhaseInv
  <2> QED
    BY <2>1, <2>2, <2>3 DEF PhaseInv
<1>5. CASE StartFails
  <2>1. /\ pc = "start" /\ toStart > 0 /\ toStart' = toStart - 1 /\ pool = <<>>
        /\ UNCHANGED <<pc, returned, pool, wpc>>
    BY <1>5 DEF StartFails
  <2>2. Busy' = Busy /\ Len(pool) = 0
    BY <2>1 DEF Busy
  <2>3. Cardinality(Busy)' + Len(returned') + toStart' <= MaxPool
    BY <2>1, <2>2, <1>t, <1>n, BusyFinite DEF PhaseInv
  <2>4. Len(pool') <= toStart'
    BY <2>1, <2>2, <1>n
  <2>5. \A w \in 1..toStart' : wpc'[w] = "idle"
    BY <2>1, <1>n, <1>t DEF PhaseInv
  <2> QED
    BY <2>1, <2>3, <2>4, <2>5 DEF PhaseInv
<1>6. CASE Join
  <2> DEFINE all == pool \o returned
             n == Min({MaxPool, Len(all)})
  <2>1. /\ pc = "start" /\ pc' = "test" /\ toStart' = 0
        /\ \A w \in Workers : wpc'[w] = "idle"
        /\ returned' = <<>> /\ batch' = <<>>
        /\ pool' = SubSeq(all, 1, n)
    BY <1>6 DEF Join, AllJoined
  <2>2. all \in Seq(SoundConns) /\ Len(all) \in Nat
    BY <1>n, ConcatProperties, LenProperties
  <2>3. n \in Nat /\ n <= MaxPool /\ n <= Len(all)
    BY <2>2, MinOfTwo
  <2>4. Len(pool') <= MaxPool
    <3> HIDE DEF all, n
    <3>1. \A i \in 1..n : all[i] \in SoundConns
      BY <2>2, <2>3, ElementOfSeq
    <3>2. Len(SubSeq(all, 1, n)) = IF 1 <= n THEN n - 1 + 1 ELSE 0
      BY <3>1, <2>3, SubSeqProperties
    <3> QED
      BY <3>2, <2>1, <2>3
  <2>5. 1..toStart' = {}
    BY <2>1
  <2> QED
    BY <2>1, <2>4, <2>5 DEF PhaseInv
<1>7. CASE \E w \in Workers : Worker(w)
  <2>1. PICK w \in Workers : Worker(w)
    BY <1>7
  <2>2. /\ pc = "start"
        /\ UNCHANGED <<pc, toStart, pool, batch>>
        /\ Cardinality(Busy)' + Len(returned') = Cardinality(Busy) + Len(returned)
        /\ \A v \in 1..toStart : wpc'[v] = "idle"
    BY <2>1, WorkerCounts
  <2>3. Cardinality(Busy)' + Len(returned') + toStart' <= MaxPool
    BY <2>2, <1>t DEF PhaseInv
  <2> QED
    BY <2>2, <2>3, <1>t DEF PhaseInv
<1>8. CASE Divert \/ StopBridge \/ UNCHANGED vars
  <2>1. UNCHANGED <<pc, batch, pool, toStart, returned, wpc>>
    BY <1>8 DEF Divert, StopBridge, vars
  <2> QED
    BY <2>1, <1>t DEF PhaseInv, Busy
<1> QED
  BY <1>1, <1>2, <1>3, <1>4, <1>5, <1>6, <1>7, <1>8 DEF DotNext, ResolverThread

-----------------------------------------------------------------------------
(* The queries *)

\* What a worker's step does to the counter, its query and the replies.
LEMMA WorkerQueries ==
  ASSUME ResolverInv, NEW w \in Workers, Worker(w)
  PROVE  /\ UNCHANGED <<bridge, dnsChan, arrived, pc, batch>>
         /\ counter' \in Nat /\ counter <= counter'
         /\ \A v \in Workers \ {w} : wpc'[v] = wpc[v] /\ query'[v] = query[v]
         /\ \/ /\ HasQuery /\ Claim(w)
               /\ counter' = counter + 1 /\ replies' = replies
               /\ query'[w] = batch[counter + 1] /\ wpc'[w] = "ask"
            \/ /\ ~Active(w)' /\ query'[w] = query[w]
               /\ replies' = replies
            \/ /\ Active(w) /\ Active(w)' /\ query'[w] = query[w]
               /\ replies' = replies
            \/ /\ Active(w) /\ ~Active(w)' /\ query'[w] = query[w]
               /\ replies' = replies \cup {<<query[w], answer[w], conn[w].failed>>}
<1>t. /\ wpc \in [Workers -> WPcs] /\ query \in [Workers -> Queries]
      /\ counter \in Nat
  BY PartsOfTypes DEF ResolverInv, WorkTypes, QueueTypes
<1> USE DEF WorkerOnly, Active
<1>1. CASE Claim(w)
  <2>1. UNCHANGED <<bridge, dnsChan, arrived, pc, batch, replies>>
        /\ counter' = counter + 1
    BY <1>1 DEF Claim, NextIndex
  <2>2. CASE HasQuery
    <3>1. /\ wpc' = [wpc EXCEPT ![w] = "ask"]
          /\ query' = [query EXCEPT ![w] = batch[counter + 1]]
      BY <1>1, <2>2 DEF Claim
    <3>2. \A v \in Workers \ {w} : wpc'[v] = wpc[v] /\ query'[v] = query[v]
      BY <3>1, <1>t
    <3>3. query'[w] = batch[counter + 1] /\ wpc'[w] = "ask"
      BY <3>1, <1>t
    <3> QED
      BY <1>1, <1>t, <2>1, <2>2, <3>2, <3>3
  <2>3. CASE ~HasQuery
    <3>1. wpc' = [wpc EXCEPT ![w] = "idle"] /\ query' = query
      BY <1>1, <2>3 DEF Claim
    <3>2. \A v \in Workers \ {w} : wpc'[v] = wpc[v] /\ query'[v] = query[v]
      BY <3>1, <1>t
    <3>3. wpc'[w] = "idle"
      BY <3>1, <1>t
    <3> QED
      BY <1>t, <2>1, <3>1, <3>2, <3>3
  <2> QED
    BY <2>2, <2>3
<1>2. CASE AskOk(w) \/ AskReconnect(w) \/ AskGiveUp(w) \/ RetryOk(w)
           \/ RetryFails(w) \/ SetWarm(w)
  <2>1. UNCHANGED <<bridge, dnsChan, arrived, pc, batch, counter, query, replies>>
    BY <1>2 DEF AskOk, AskReconnect, AskGiveUp, RetryOk, RetryFails, SetWarm
  <2>2. Active(w)
    BY <1>2 DEF AskOk, AskReconnect, AskGiveUp, RetryOk, RetryFails, SetWarm
  <2>3. PICK x \in WPcs : wpc' = [wpc EXCEPT ![w] = x]
    BY <1>2 DEF AskOk, AskReconnect, AskGiveUp, RetryOk, RetryFails, SetWarm, WPcs
  <2>4. \A v \in Workers \ {w} : wpc'[v] = wpc[v]
    BY <2>3, <1>t
  <2> QED
    BY <2>1, <2>2, <2>4, <1>t
<1>3. CASE Reply(w)
  <2>1. /\ UNCHANGED <<bridge, dnsChan, arrived, pc, batch, counter, query>>
        /\ wpc[w] = "reply" /\ wpc' = [wpc EXCEPT ![w] = "claim"]
        /\ replies' = replies \cup {<<query[w], answer[w], conn[w].failed>>}
    BY <1>3 DEF Reply
  <2>2. wpc'[w] = "claim" /\ \A v \in Workers \ {w} : wpc'[v] = wpc[v]
    BY <2>1, <1>t
  <2> QED
    BY <2>1, <2>2, <1>t
<1> QED
  BY <1>1, <1>2, <1>3 DEF Worker

\* The counter gives every index to one worker (main.rs:136), and the queries of
\* a batch, of the channel and of the batches before are different ones.
LEMMA QueryStep == ResolverInv /\ [DotNext]_vars => QueryInv'
<1> SUFFICES ASSUME ResolverInv, [DotNext]_vars PROVE QueryInv'
  OBVIOUS
<1> USE DotAssumption
<1>t. QueueTypes /\ WorkTypes /\ PhaseInv /\ QueryInv
  BY PartsOfTypes DEF ResolverInv
<1>n. /\ dnsChan \in Seq(Queries) /\ Len(dnsChan) \in Nat
      /\ batch \in Seq(Queries) /\ Len(batch) \in Nat
      /\ arrived \in Nat /\ counter \in Nat /\ Base \in Nat
      /\ wpc \in [Workers -> WPcs] /\ query \in [Workers -> Queries]
      /\ replies \subseteq Queries \X Answers \X BOOLEAN
      /\ \A r \in replies : r[1] \in Nat
      /\ \A w \in Workers : query[w] \in Nat
  <2>1. /\ dnsChan \in Seq(Queries) /\ batch \in Seq(Queries)
        /\ arrived \in Nat /\ counter \in Nat
        /\ wpc \in [Workers -> WPcs] /\ query \in [Workers -> Queries]
        /\ replies \subseteq Queries \X Answers \X BOOLEAN
    BY <1>t DEF QueueTypes, WorkTypes
  <2>2. Len(dnsChan) \in Nat /\ Len(batch) \in Nat
    BY <2>1, LenProperties
  <2>3. Base \in Nat
    BY <2>1, <2>2, <1>t DEF QueryInv, Base
  <2>4. (\A r \in replies : r[1] \in Nat) /\ \A w \in Workers : query[w] \in Nat
    BY <2>1 DEF Queries
  <2> QED
    BY <2>1, <2>2, <2>3, <2>4
<1>o. AnsweredOnce
  BY <1>t DEF QueryInv
<1>1. CASE Test \/ RecvTimeout \/ Expand \/ ExpandEnd \/ StartFails \/ StopBridge
           \/ UNCHANGED vars
  <2>1. UNCHANGED <<arrived, dnsChan, batch, counter, replies, wpc, query>>
    BY <1>1 DEF Test, RecvTimeout, Expand, ExpandEnd, StartFails, StopBridge,
                vars
  <2> QED
    BY <2>1, <1>t DEF QueryInv, Base, UpToClaimed, Active, AnsweredOnce
<1>2. CASE StartWorker
  <2>1. /\ UNCHANGED <<arrived, dnsChan, batch, counter, replies, query>>
        /\ wpc' = [wpc EXCEPT ![toStart] = "claim"]
    BY <1>2 DEF StartWorker
  <2>2. Base' = Base
    BY <2>1 DEF Base
  <2>3. \A w \in Workers : Active(w)' => Active(w) /\ wpc'[w] = wpc[w]
    BY <2>1, <1>n DEF Active
  <2>4. AnsweredOnce'
    BY <2>1, <2>3, <1>o DEF AnsweredOnce, Active
  <2> QED
    BY <2>1, <2>2, <2>3, <2>4, <1>t DEF QueryInv, UpToClaimed
<1>3. CASE TakeBatch
  <2>1. /\ pc = "recv" /\ batch' = dnsChan /\ dnsChan' = <<>> /\ counter' = 0
        /\ UNCHANGED <<arrived, wpc, query, replies>>
    BY <1>3 DEF TakeBatch
  <2>2. batch = <<>> /\ \A w \in Workers : wpc[w] = "idle"
    BY <2>1, <1>t DEF PhaseInv, Resting
  <2>3. Len(batch) = 0 /\ Len(dnsChan') = 0 /\ Len(batch') = Len(dnsChan)
    BY <2>1, <2>2
  <2>4. Base' = Base
    <3>1. arrived' - Len(dnsChan') - Len(batch') = arrived - Len(dnsChan) - Len(batch)
      <4>1. arrived' = arrived
        BY <2>1
      <4> QED
        BY ONLY <4>1, <2>3, <1>n
    <3> QED
      BY <3>1 DEF Base
  <2>5. \A i \in 1..Len(batch') : batch'[i] = Base + i
    <3>1. \A i \in 1..Len(dnsChan) : dnsChan[i] = Base + Len(batch) + i
      BY <1>t DEF QueryInv
    <3>2. \A i \in 1..Len(dnsChan) : dnsChan[i] = Base + i
      BY <3>1, <2>3, <1>n
    <3> QED
      BY <3>2, <2>1, <2>3
  <2>6. \A r \in replies : r[1] <= Base
    BY <2>3, <1>t, <1>n DEF QueryInv, UpToClaimed
  <2>7. \A r \in replies' : UpToClaimed(r[1])'
    BY <2>1, <2>3, <2>4, <2>6, <1>n DEF UpToClaimed
  <2>8. \A w \in Workers : ~Active(w)'
    BY <2>1, <2>2 DEF Active
  <2>9. AnsweredOnce'
    BY <2>1, <1>o DEF AnsweredOnce
  <2>10. 1..Len(dnsChan') = {}
    BY <2>3
  <2>11. Base' >= 0 /\ \A i \in 1..Len(batch') : batch'[i] = Base' + i
    BY <2>4, <2>5, <1>n
  <2>12. /\ \A i \in 1..Len(dnsChan') : dnsChan'[i] = Base' + Len(batch') + i
         /\ \A w \in Workers :
              Active(w)' => query'[w] > Base' /\ UpToClaimed(query[w])'
    BY <2>8, <2>10
  <2> QED
    BY <2>7, <2>9, <2>11, <2>12 DEF QueryInv
<1>4. CASE Join
  <2>1. /\ batch' = <<>> /\ \A w \in Workers : wpc[w] = "idle"
        /\ UNCHANGED <<arrived, dnsChan, counter, wpc, query, replies>>
    BY <1>4 DEF Join, AllJoined
  <2>2. Len(batch') = 0
    BY <2>1
  <2>3. Base' = Base + Len(batch)
    <3>1. arrived' - Len(dnsChan') - Len(batch') = arrived - Len(dnsChan)
      <4>1. arrived' = arrived /\ dnsChan' = dnsChan
        BY <2>1
      <4> QED
        BY ONLY <4>1, <2>2, <1>n
    <3> QED
      BY <3>1, <1>n DEF Base
  <2>4. \A i \in 1..Len(dnsChan') : dnsChan'[i] = Base' + Len(batch') + i
    BY <2>1, <2>2, <2>3, <1>t, <1>n DEF QueryInv
  <2>5. \A r \in replies' : UpToClaimed(r[1])'
    BY <2>1, <2>2, <2>3, <1>t, <1>n DEF QueryInv, UpToClaimed
  <2>6. \A w \in Workers : ~Active(w)'
    BY <2>1 DEF Active
  <2>7. AnsweredOnce'
    BY <2>1, <1>o DEF AnsweredOnce
  <2>8. 1..Len(batch') = {}
    BY <2>2
  <2> QED
    BY <2>3, <2>4, <2>5, <2>6, <2>7, <2>8, <1>n DEF QueryInv
<1>5. CASE Divert
  <2>1. /\ arrived' = arrived + 1 /\ dnsChan' = Append(dnsChan, arrived + 1)
        /\ arrived + 1 \in Queries
        /\ UNCHANGED <<batch, counter, wpc, query, replies>>
    BY <1>5, <1>n DEF Divert, Queries
  <2>2. /\ Len(dnsChan') = Len(dnsChan) + 1
        /\ \A i \in 1..Len(dnsChan) : dnsChan'[i] = dnsChan[i]
        /\ dnsChan'[Len(dnsChan) + 1] = arrived + 1
    BY <2>1, <1>n, AppendProperties
  <2>3. Base' = Base
    BY <2>1, <2>2, <1>n DEF Base
  <2>4. \A i \in 1..Len(dnsChan') : dnsChan'[i] = Base + Len(batch) + i
    <3> SUFFICES ASSUME NEW i \in 1..Len(dnsChan')
                 PROVE  dnsChan'[i] = Base + Len(batch) + i
      OBVIOUS
    <3>1. CASE i \in 1..Len(dnsChan)
      BY <3>1, <2>2, <1>t DEF QueryInv
    <3>2. CASE i = Len(dnsChan) + 1
      <4>1. Base + Len(batch) + i = arrived + 1
        BY <3>2, <1>n DEF Base
      <4> QED
        BY <4>1, <3>2, <2>2
    <3> QED
      BY <3>1, <3>2, <2>2, <1>n
  <2>5. AnsweredOnce'
    BY <2>1, <1>o DEF AnsweredOnce
  <2> QED
    BY <2>1, <2>3, <2>4, <2>5, <1>t DEF QueryInv, UpToClaimed, Active
<1>6. CASE \E w \in Workers : Worker(w)
  <2>1. PICK w \in Workers : Worker(w)
    BY <1>6
  <2>2. /\ UNCHANGED <<dnsChan, arrived, batch>>
        /\ counter' \in Nat /\ counter <= counter'
        /\ \A v \in Workers \ {w} : wpc'[v] = wpc[v] /\ query'[v] = query[v]
    BY <2>1, WorkerQueries
  <2>3. Base' = Base
    BY <2>2 DEF Base
  <2>4. \A q \in Nat : UpToClaimed(q) => UpToClaimed(q)'
    BY <2>2, <2>3, <1>n DEF UpToClaimed
  <2>5. \A r \in replies : UpToClaimed(r[1])
    BY <1>t DEF QueryInv
  <2>6. \A v \in Workers : Active(v) => query[v] > Base /\ UpToClaimed(query[v])
    BY <1>t DEF QueryInv
  <2>7. \A v \in Workers \ {w} : Active(v)' =>
           Active(v) /\ query'[v] = query[v] /\ query'[v] > Base
             /\ UpToClaimed(query[v])'
    BY <2>2, <2>4, <2>6, <1>n DEF Active
  <2>8. /\ \A i \in 1..Len(batch') : batch'[i] = Base + i
        /\ \A i \in 1..Len(dnsChan') : dnsChan'[i] = Base + Len(batch') + i
    BY <2>2, <1>t DEF QueryInv
  <2>9. ASSUME replies' = replies,
               Active(w)' => query'[w] > Base /\ UpToClaimed(query[w])',
               Active(w)' => \A v \in Workers \ {w} :
                               Active(v) => query[v] # query'[w],
               Active(w)' => \A r \in replies : r[1] # query'[w]
        PROVE  QueryInv'
    <3>1. \A r \in replies' : UpToClaimed(r[1])'
      BY <2>9, <2>4, <2>5, <1>n
    <3>2. \A v \in Workers : Active(v)' => query'[v] > Base /\ UpToClaimed(query[v])'
      BY <2>7, <2>9
    <3>3. \A u, v \in Workers : u # v /\ Active(u)' /\ Active(v)'
                                  => query'[u] # query'[v]
      <4> SUFFICES ASSUME NEW u \in Workers, NEW v \in Workers, u # v,
                          Active(u)', Active(v)'
                   PROVE  query'[u] # query'[v]
        OBVIOUS
      <4>1. CASE u = w
        BY <4>1, <2>7, <2>9
      <4>2. CASE v = w
        BY <4>2, <2>7, <2>9
      <4>3. CASE u # w /\ v # w
        <5>1. Active(u) /\ Active(v) /\ query'[u] = query[u] /\ query'[v] = query[v]
          BY <4>3, <2>7
        <5> QED
          BY <5>1, <1>o DEF AnsweredOnce, Active
      <4> QED
        BY <4>1, <4>2, <4>3
    <3>4. \A v \in Workers : Active(v)' => \A r \in replies' : r[1] # query'[v]
      <4> SUFFICES ASSUME NEW v \in Workers, Active(v)'
                   PROVE  \A r \in replies' : r[1] # query'[v]
        OBVIOUS
      <4>1. CASE v = w
        BY <4>1, <2>9
      <4>2. CASE v # w
        BY <4>2, <2>7, <2>9, <1>o DEF AnsweredOnce, Active
      <4> QED
        BY <4>1, <4>2
    <3>5. AnsweredOnce'
      BY <3>3, <3>4, <2>9, <1>o DEF AnsweredOnce, Active
    <3> QED
      BY <3>1, <3>2, <3>5, <2>3, <2>8, <1>n DEF QueryInv
  <2>10. CASE /\ HasQuery /\ counter' = counter + 1 /\ replies' = replies
              /\ query'[w] = batch[counter + 1] /\ wpc'[w] = "ask"
    <3>1. counter < Len(batch)
      BY <2>10 DEF HasQuery
    <3>2. query'[w] = Base + counter + 1
      <4>1. counter + 1 \in 1..Len(batch)
        BY <3>1, <1>n
      <4>2. batch[counter + 1] = Base + (counter + 1)
        BY <4>1, <1>t DEF QueryInv
      <4> QED
        BY <4>2, <2>10, <1>n
    <3>3. query'[w] > Base /\ UpToClaimed(query[w])'
      BY <3>1, <3>2, <2>2, <2>3, <2>10, <1>n DEF UpToClaimed
    <3>4. \A q \in Nat : UpToClaimed(q) => q # query'[w]
      BY <3>2, <1>n DEF UpToClaimed
    <3>5. \A v \in Workers \ {w} : Active(v) => query[v] # query'[w]
      BY <3>4, <2>6, <1>n
    <3>6. \A r \in replies : r[1] # query'[w]
      BY <3>4, <2>5, <1>n
    <3> QED
      BY <2>9, <2>10, <3>3, <3>5, <3>6
  <2>11. CASE ~Active(w)' /\ query'[w] = query[w] /\ replies' = replies
    BY <2>9, <2>11
  <2>12. CASE Active(w) /\ Active(w)' /\ query'[w] = query[w] /\ replies' = replies
    <3>1. query'[w] > Base /\ UpToClaimed(query[w])'
      BY <2>4, <2>6, <2>12, <1>n
    <3>2. /\ \A v \in Workers \ {w} : Active(v) => query[v] # query'[w]
          /\ \A r \in replies : r[1] # query'[w]
      BY <2>12, <1>o DEF AnsweredOnce, Active
    <3> QED
      BY <2>9, <2>12, <3>1, <3>2
  <2>13. CASE /\ Active(w) /\ ~Active(w)' /\ query'[w] = query[w]
              /\ replies' = replies \cup {<<query[w], answer[w], conn[w].failed>>}
    <3> DEFINE r0 == <<query[w], answer[w], conn[w].failed>>
    <3>1. r0[1] = query[w]
      OBVIOUS
    <3>2. \A r \in replies : r[1] # query[w]
      BY <2>13, <1>o DEF AnsweredOnce, Active
    <3>3. replies' = replies \cup {r0}
      BY <2>13
    <3> HIDE DEF r0
    <3>4. \A r \in replies' : UpToClaimed(r[1])'
      BY <3>1, <3>3, <2>4, <2>5, <2>6, <2>13, <1>n
    <3>5. \A v \in Workers : Active(v)' =>
            /\ v # w /\ Active(v) /\ query'[v] = query[v]
            /\ query'[v] > Base /\ UpToClaimed(query[v])'
      BY <2>7, <2>13
    <3>6. \A u, v \in Workers : u # v /\ Active(u)' /\ Active(v)'
                                  => query'[u] # query'[v]
      BY <3>5, <1>o DEF AnsweredOnce, Active
    <3>7. \A v \in Workers : Active(v)' => \A r \in replies' : r[1] # query'[v]
      <4> SUFFICES ASSUME NEW v \in Workers, Active(v)', NEW r \in replies'
                   PROVE  r[1] # query'[v]
        OBVIOUS
      <4>1. v # w /\ Active(v) /\ query'[v] = query[v]
        BY <3>5
      <4>2. CASE r \in replies
        BY <4>1, <4>2, <1>o DEF AnsweredOnce, Active
      <4>3. CASE r = r0
        BY <4>1, <4>3, <3>1, <2>13, <1>o DEF AnsweredOnce, Active
      <4> QED
        BY <4>2, <4>3, <3>3
    <3>8. \A r, s \in replies' : r[1] = s[1] => r = s
      BY <3>1, <3>2, <3>3, <1>o DEF AnsweredOnce
    <3>9. AnsweredOnce'
      BY <3>6, <3>7, <3>8 DEF AnsweredOnce, Active
    <3> QED
      BY <3>4, <3>5, <3>9, <2>3, <2>8, <1>n DEF QueryInv
  <2> QED
    BY <2>1, <2>10, <2>11, <2>12, <2>13, WorkerQueries
<1> QED
  BY <1>1, <1>2, <1>3, <1>4, <1>5, <1>6 DEF DotNext, ResolverThread

\* A worker that claims a query goes on to try it, whatever its connection is
\* worth (main.rs:136-160), and ends only when the batch is exhausted.
LEMMA TriedStep == ResolverInv /\ [DotNext]_vars => TriedInv'
<1> SUFFICES ASSUME ResolverInv, [DotNext]_vars, bridge'
             PROVE  /\ \A i \in 1..Len(batch') :
                         i <= counter' =>
                           \/ batch'[i] \in tried'
                           \/ \E w \in Workers :
                                wpc'[w] = "ask" /\ query'[w] = batch'[i]
                    /\ returned' # <<>> => counter' >= Len(batch')
  BY DEF TriedInv
<1> USE DotAssumption
<1>t. QueueTypes /\ WorkTypes /\ PhaseInv /\ TriedInv
  BY PartsOfTypes DEF ResolverInv
<1>n. /\ batch \in Seq(Queries) /\ Len(batch) \in Nat /\ counter \in Nat
      /\ wpc \in [Workers -> WPcs] /\ query \in [Workers -> Queries]
  BY <1>t, LenProperties DEF QueueTypes, WorkTypes
<1>b. bridge
  <2>1. CASE StopBridge
    BY <2>1 DEF StopBridge
  <2>2. CASE ~StopBridge
    <3>1. bridge' = bridge
      BY <2>2 DEF DotNext, ResolverThread, Test, RecvTimeout, TakeBatch, Expand,
           ExpandEnd, StartWorker, StartFails, Join, Worker, Claim, AskOk,
           AskReconnect, AskGiveUp, RetryOk, RetryFails, SetWarm, Reply,
           WorkerOnly, Divert, vars
    <3> QED
      BY <3>1
  <2> QED
    BY <2>1, <2>2
<1>i. /\ \A i \in 1..Len(batch) :
           i <= counter =>
             \/ batch[i] \in tried
             \/ \E w \in Workers : wpc[w] = "ask" /\ query[w] = batch[i]
      /\ returned # <<>> => counter >= Len(batch)
  BY <1>t, <1>b DEF TriedInv
<1>1. CASE \/ Test \/ RecvTimeout \/ Expand \/ ExpandEnd \/ StartFails
           \/ Divert \/ StopBridge \/ UNCHANGED vars
  <2>1. UNCHANGED <<batch, counter, tried, returned, wpc, query>>
    BY <1>1, <1>b DEF Test, RecvTimeout, Expand, ExpandEnd, StartFails, Divert,
                      StopBridge, vars
  <2> QED
    BY <2>1, <1>i
<1>2. CASE TakeBatch \/ Join
  <2>1. CASE TakeBatch
    <3>1. /\ pc = "recv" /\ batch' = dnsChan /\ counter' = 0
          /\ returned' = returned
      BY <2>1 DEF TakeBatch
    <3>2. returned = <<>>
      BY <3>1, <1>t DEF PhaseInv, Resting
    <3> QED
      BY <3>1, <3>2
  <2>2. CASE Join
    <3>1. batch' = <<>> /\ returned' = <<>>
      BY <2>2 DEF Join
    <3>2. 1..Len(batch') = {}
      BY <3>1
    <3> QED
      BY <3>1, <3>2
  <2> QED
    BY <1>2, <2>1, <2>2
<1>3. CASE StartWorker
  <2>1. /\ UNCHANGED <<batch, counter, tried, returned, query>>
        /\ toStart > 0 /\ wpc' = [wpc EXCEPT ![toStart] = "claim"]
    BY <1>3 DEF StartWorker
  <2>2. wpc[toStart] = "idle"
    BY <2>1, <1>t DEF PhaseInv, WorkTypes
  <2>3. \A w \in Workers : wpc[w] = "ask" => wpc'[w] = "ask"
    BY <2>1, <2>2, <1>n
  <2> QED
    BY <2>1, <2>3, <1>i
<1>4. CASE \E w \in Workers : Worker(w)
  <2>1. PICK w \in Workers : Worker(w)
    BY <1>4
  <2>2. /\ batch' = batch /\ counter' \in Nat /\ counter <= counter'
        /\ \A v \in Workers \ {w} : wpc'[v] = wpc[v] /\ query'[v] = query[v]
    BY <2>1, WorkerQueries
  <2>3. /\ tried \subseteq tried'
        /\ wpc[w] = "ask" => query[w] \in tried'
    BY <2>1 DEF Worker, Claim, AskOk, AskReconnect, AskGiveUp, RetryOk,
                RetryFails, SetWarm, Reply
  <2>4. \A i \in 1..Len(batch) :
          i <= counter =>
            \/ batch[i] \in tried'
            \/ \E v \in Workers : wpc'[v] = "ask" /\ query'[v] = batch[i]
    <3> SUFFICES ASSUME NEW i \in 1..Len(batch), i <= counter,
                        batch[i] \notin tried'
                 PROVE  \E v \in Workers : wpc'[v] = "ask" /\ query'[v] = batch[i]
      OBVIOUS
    <3>1. PICK v \in Workers : wpc[v] = "ask" /\ query[v] = batch[i]
      BY <1>i, <2>3
    <3>2. v # w
      BY <3>1, <2>3
    <3> QED
      BY <3>1, <3>2, <2>2
  <2>5. CASE Claim(w) /\ HasQuery
    <3>1. /\ counter' = counter + 1 /\ returned' = returned
          /\ counter < Len(batch)
          /\ wpc' = [wpc EXCEPT ![w] = "ask"]
          /\ query' = [query EXCEPT ![w] = batch[counter + 1]]
      BY <2>5 DEF Claim, HasQuery, NextIndex
    <3>2. wpc'[w] = "ask" /\ query'[w] = batch[counter + 1]
      BY <3>1, <1>n
    <3>3. returned = <<>>
      BY <3>1, <1>i, <1>n
    <3>4. \A i \in 1..Len(batch) : i <= counter + 1 => i <= counter \/ i = counter + 1
      BY <1>n
    <3> QED
      BY <2>2, <2>4, <3>1, <3>2, <3>3, <3>4
  <2>6. CASE Claim(w) /\ ~HasQuery
    <3>1. counter >= Len(batch) /\ counter' = counter + 1
      BY <2>6, <1>b, <1>n DEF Claim, HasQuery, NextIndex
    <3>2. \A i \in 1..Len(batch) : i <= counter
      BY <3>1, <1>n
    <3> QED
      BY <2>2, <2>4, <3>1, <3>2, <1>n
  <2>7. CASE ~Claim(w)
    <3>1. counter' = counter /\ returned' = returned
      BY <2>1, <2>7 DEF Worker, AskOk, AskReconnect, AskGiveUp, RetryOk,
                        RetryFails, SetWarm, Reply
    <3> QED
      BY <2>2, <2>4, <3>1, <1>i
  <2> QED
    BY <2>5, <2>6, <2>7
<1> QED
  BY <1>1, <1>2, <1>3, <1>4 DEF DotNext, ResolverThread

-----------------------------------------------------------------------------
(* The theorems *)

\* What the resolver thread and its workers rely on holds in every state
\* (main.rs:77-178).
LEMMA ResolverInvariant == DotSpec => []ResolverInv
<1>1. DotInit => ResolverInv
  BY InitResolver
<1>2. ResolverInv /\ [DotNext]_vars => ResolverInv'
  <2> SUFFICES ASSUME ResolverInv, [DotNext]_vars PROVE ResolverInv'
    OBVIOUS
  <2>1. QueueTypes' /\ WorkTypes' /\ ConnInv'
    BY QueueTypesStep, WorkTypesStep, ConnStep
  <2>2. DotTypeOK'
    BY <2>1, TypesByPart, PTL
  <2> QED
    BY <2>1, <2>2, PhaseStep, QueryStep, TriedStep DEF ResolverInv
<1> QED
  BY <1>1, <1>2, PTL DEF DotSpec

\* The thread never holds more than MAX_POOL connections, in the pool, with the
\* workers and on their way back together (main.rs:95-103, 178).
THEOREM PoolKeepsItsBound == DotSpec => []DotInv
<1>1. ResolverInv => DotInv
  <2> SUFFICES ASSUME ResolverInv PROVE DotInv
    OBVIOUS
  <2>t. QueueTypes /\ WorkTypes /\ PhaseInv /\ DotTypeOK
    BY PartsOfTypes DEF ResolverInv
  <2>n. Len(pool) \in Nat /\ Len(returned) \in Nat /\ toStart \in Nat
    BY <2>t, LenProperties, DotAssumption DEF DotTypeOK
  <2>1. CASE pc \in Resting
    <3>1. Busy = {} /\ returned = <<>> /\ Len(pool) <= MaxPool
      BY <2>1, <2>t DEF PhaseInv, Busy
    <3>2. Cardinality(Busy) = 0 /\ Len(returned) = 0
      BY <3>1, FS_EmptySet
    <3>3. PoolBounded
      BY <3>1, <3>2, <2>n DEF PoolBounded
    <3> QED
      BY <3>3, <2>t DEF DotInv
  <2>2. CASE pc = "start"
    <3>1. PoolBounded
      BY <2>2, <2>t, <2>n, BusyFinite, DotAssumption DEF PhaseInv, PoolBounded
    <3> QED
      BY <3>1, <2>t DEF DotInv
  <2> QED
    BY <2>1, <2>2, <2>t DEF QueueTypes, Resting
<1> QED
  BY <1>1, ResolverInvariant, PTL

\* No query of a batch is worked on by two workers or answered twice (main.rs:136).
THEOREM NoQueryTwice == DotSpec => []AnsweredOnce
<1>1. ResolverInv => AnsweredOnce
  BY DEF ResolverInv, QueryInv
<1> QED
  BY <1>1, ResolverInvariant, PTL

\* When a batch is over every query of it was tried, unless the session was
\* stopped or there was no connection to try one over (main.rs:123, 137).
THEOREM EveryQueryIsTried == DotSpec => []NoQuerySkipped
<1>1. ResolverInv => NoQuerySkipped
  <2> SUFFICES ASSUME ResolverInv, pc = "start", AllJoined, bridge,
                      ~(pool = <<>> /\ returned = <<>>)
               PROVE  \A i \in DOMAIN batch : batch[i] \in tried
    BY DEF NoQuerySkipped
  <2>t. /\ pool \in Seq(SoundConns) /\ batch \in Seq(Queries) /\ counter \in Nat
        /\ Len(batch) \in Nat /\ DOMAIN batch = 1..Len(batch)
    BY PartsOfTypes, LenProperties DEF ResolverInv, ConnInv, QueueTypes
  <2>1. toStart = 0 /\ \A w \in Workers : wpc[w] = "idle"
    BY DEF AllJoined
  <2>2. Len(pool) <= 0
    BY <2>1 DEF ResolverInv, PhaseInv
  <2>3. pool = <<>>
    BY <2>2, <2>t, EmptySeq
  <2>4. counter >= Len(batch)
    BY <2>3 DEF ResolverInv, TriedInv
  <2>5. \A i \in 1..Len(batch) : i <= counter
    BY <2>4, <2>t
  <2>6. \A i \in 1..Len(batch) : batch[i] \in tried
    BY <2>1, <2>5 DEF ResolverInv, TriedInv
  <2> QED
    BY <2>6, <2>t
<1> QED
  BY <1>1, ResolverInvariant, PTL

\* The answer to another query is only ever delivered over a connection that
\* failed one and was kept (main.rs:146-160).
THEOREM NeverFailedStaysInStep == DotSpec => []MixUpNeedsKeptConnection
<1>1. ResolverInv => MixUpNeedsKeptConnection
  BY DEF ResolverInv, ConnInv
<1> QED
  BY <1>1, ResolverInvariant, PTL

-----------------------------------------------------------------------------
(* The pool as a resolver *)

\* What the refinement mapping makes of the state.
DnsPc == IF pc \in {"expand", "start"} THEN "resolve" ELSE pc

Unanswered == {batch[i] : i \in DOMAIN batch} \ Handled

\* A query of the batch in the hands of a worker that is about to set the flag is
\* one the resolver still owes an answer to.
LEMMA AnsweredIsOwed ==
  ASSUME ResolverInv, NEW w \in Workers, wpc[w] = "answered"
  PROVE  query[w] \in Unanswered
<1>t. /\ batch \in Seq(Queries) /\ Len(batch) \in Nat /\ Base \in Int
      /\ counter \in Nat /\ DOMAIN batch = 1..Len(batch)
      /\ query[w] \in Queries /\ query[w] \in Nat
  <2>1. /\ batch \in Seq(Queries) /\ counter \in Nat /\ query[w] \in Queries
        /\ arrived \in Nat /\ dnsChan \in Seq(Queries)
    BY PartsOfTypes DEF ResolverInv, QueueTypes, WorkTypes
  <2> QED
    BY <2>1, LenProperties DEF Base, Queries
<1>q. QueryInv
  BY DEF ResolverInv
<1>1. query[w] > Base /\ query[w] <= Base + Len(batch)
  BY <1>q DEF QueryInv, Active, UpToClaimed
<1>2. PICK i \in 1..Len(batch) : query[w] = Base + i
  <2>1. query[w] - Base \in 1..Len(batch) /\ query[w] = Base + (query[w] - Base)
    BY <1>1, <1>t
  <2> QED
    BY <2>1
<1>3. query[w] = batch[i]
  BY <1>2, <1>q DEF QueryInv
<1>4. query[w] \notin Handled
  <2>1. \A r \in replies : r[1] # query[w]
    BY <1>q DEF QueryInv, AnsweredOnce
  <2>2. \A v \in Workers : wpc[v] = "reply" => query[v] # query[w]
    BY <1>q DEF QueryInv, AnsweredOnce
  <2> QED
    BY <2>1, <2>2 DEF Handled
<1> QED
  BY <1>t, <1>2, <1>3, <1>4 DEF Unanswered

\* A step that touches neither the replies nor who is about to reply leaves the
\* answered queries as they are.
LEMMA HandledKept ==
  ASSUME UNCHANGED replies,
         \A w \in Workers : wpc'[w] = "reply" <=> wpc[w] = "reply",
         \A w \in Workers : wpc[w] = "reply" => query'[w] = query[w]
  PROVE  Handled' = Handled
BY DEF Handled

\* What a step of the pool has to do to be a step of the resolver or none at all.
LEMMA Stutter ==
  ASSUME UNCHANGED <<bridge, dnsChan, warm>>, DnsPc' = DnsPc,
         Unanswered' = Unanswered
  PROVE  UNCHANGED Contract!resolverVars
BY DEF Contract!resolverVars, DnsPc, Unanswered

\* A step of a worker is an answer, or none of the resolver's business.
LEMMA WorkerRefines ==
  ASSUME ResolverInv, NEW w \in Workers, Worker(w)
  PROVE  Contract!Resolver \/ UNCHANGED Contract!resolverVars
<1>t. /\ wpc \in [Workers -> WPcs] /\ query \in [Workers -> Queries]
      /\ query[w] \in Queries
  BY PartsOfTypes DEF ResolverInv, WorkTypes
<1>1. /\ pc = "start" /\ UNCHANGED <<pc, batch>>
  BY WorkerCounts
<1>2. UNCHANGED <<bridge, dnsChan>>
  BY WorkerQueries
<1>3. DnsPc = "resolve" /\ DnsPc' = DnsPc
  BY <1>1 DEF DnsPc
<1>4. CASE SetWarm(w)
  <2>1. /\ wpc[w] = "answered" /\ warm' = TRUE
        /\ wpc' = [wpc EXCEPT ![w] = "reply"]
        /\ UNCHANGED <<query, replies>>
    BY <1>4 DEF SetWarm
  <2>2. wpc'[w] = "reply" /\ \A v \in Workers \ {w} : wpc'[v] = wpc[v]
    BY <2>1, <1>t
  <2>3. Handled' = Handled \cup {query[w]}
    BY <2>1, <2>2, <1>t DEF Handled
  <2>4. Unanswered' = Unanswered \ {query[w]}
    BY <2>3, <1>1 DEF Unanswered
  <2>5. query[w] \in Unanswered
    BY <2>1, AnsweredIsOwed
  <2>6. PICK q : q = query[w]
    OBVIOUS
  <2>7. \E x \in {batch[i] : i \in DOMAIN batch} \ Handled : Contract!DnsAnswer(x)
    <3>1. q \in {batch[i] : i \in DOMAIN batch} \ Handled
      BY <2>5, <2>6 DEF Unanswered
    <3>2. Contract!DnsAnswer(q)
      BY <2>1, <2>4, <2>6, <1>2, <1>3 DEF Contract!DnsAnswer, DnsPc, Unanswered
    <3> QED
      BY <3>1, <3>2
  <2>8. Contract!Resolver
    BY <2>7, Zenon DEF Contract!Resolver
  <2> QED
    BY <2>8
<1>5. CASE Reply(w)
  <2>1. /\ wpc[w] = "reply" /\ wpc' = [wpc EXCEPT ![w] = "claim"]
        /\ replies' = replies \cup {<<query[w], answer[w], conn[w].failed>>}
        /\ UNCHANGED <<warm, query>>
    BY <1>5 DEF Reply
  <2>2. wpc'[w] = "claim" /\ \A v \in Workers \ {w} : wpc'[v] = wpc[v]
    BY <2>1, <1>t
  <2>3. \A q : (\E r \in replies' : r[1] = q)
                 <=> (\E r \in replies : r[1] = q) \/ q = query[w]
    <3> DEFINE r0 == <<query[w], answer[w], conn[w].failed>>
    <3>1. r0[1] = query[w] /\ replies' = replies \cup {r0}
      BY <2>1
    <3> HIDE DEF r0
    <3> QED
      BY <3>1
  <2>4. Handled' = Handled
    BY <2>1, <2>2, <2>3 DEF Handled
  <2> QED
    BY <2>1, <2>4, <1>1, <1>2, <1>3, Stutter DEF Unanswered
<1>6. CASE Claim(w)
  <2>1. UNCHANGED <<warm, replies>>
    BY <1>6 DEF Claim
  <2>2. /\ wpc[w] = "claim" /\ wpc'[w] # "reply"
        /\ \A v \in Workers \ {w} : wpc'[v] = wpc[v] /\ query'[v] = query[v]
    BY <1>6, <1>t DEF Claim
  <2>3. Handled' = Handled
    BY <2>1, <2>2, HandledKept
  <2> QED
    BY <2>1, <2>3, <1>1, <1>2, <1>3, Stutter DEF Unanswered
<1>7. CASE AskOk(w) \/ AskReconnect(w) \/ AskGiveUp(w) \/ RetryOk(w)
           \/ RetryFails(w)
  <2>1. /\ UNCHANGED <<warm, replies, query>>
        /\ wpc[w] \in {"ask", "retry"}
        /\ \E x \in {"answered", "retry", "claim"} : wpc' = [wpc EXCEPT ![w] = x]
    BY <1>7 DEF AskOk, AskReconnect, AskGiveUp, RetryOk, RetryFails
  <2>2. /\ wpc[w] # "reply" /\ wpc'[w] # "reply"
        /\ \A v \in Workers \ {w} : wpc'[v] = wpc[v]
    BY <2>1, <1>t
  <2>3. Handled' = Handled
    BY <2>1, <2>2, HandledKept
  <2> QED
    BY <2>1, <2>3, <1>1, <1>2, <1>3, Stutter DEF Unanswered
<1> QED
  BY <1>4, <1>5, <1>6, <1>7 DEF Worker

\* Every step of the pool is one of the resolver of ResolverContract, or none.
LEMMA PoolRefines ==
  ResolverInv /\ [DotNext]_vars =>
    [Contract!Resolver \/ Contract!StopBridge
       \/ \E q \in Queries : Contract!Divert(q)]_(Contract!resolverVars)
<1> SUFFICES ASSUME ResolverInv, [DotNext]_vars
             PROVE  \/ Contract!Resolver \/ Contract!StopBridge
                    \/ \E q \in Queries : Contract!Divert(q)
                    \/ UNCHANGED Contract!resolverVars
  OBVIOUS
<1>t. QueueTypes /\ WorkTypes /\ PhaseInv /\ QueryInv
  BY PartsOfTypes DEF ResolverInv
<1>h. UNCHANGED <<wpc, query, replies>> => Handled' = Handled
  BY DEF Handled
<1>1. CASE Test
  <2>1. /\ pc = "test" /\ pc' = IF bridge THEN "recv" ELSE "done"
        /\ UNCHANGED <<bridge, warm, dnsChan, batch, wpc, query, replies>>
    BY <1>1 DEF Test
  <2>2. Contract!DnsTest
    BY <2>1, <1>h DEF Contract!DnsTest
  <2> QED
    BY <2>2 DEF Contract!Resolver
<1>2. CASE RecvTimeout
  <2>1. /\ pc = "recv" /\ pc' = "test" /\ dnsChan = <<>>
        /\ UNCHANGED <<bridge, warm, dnsChan, batch, wpc, query, replies>>
    BY <1>2 DEF RecvTimeout
  <2>2. Contract!DnsTimeout
    BY <2>1, <1>h DEF Contract!DnsTimeout, Contract!AfterIdle
  <2> QED
    BY <2>2 DEF Contract!Resolver
<1>3. CASE TakeBatch
  <2>1. /\ pc = "recv" /\ pc' = "expand" /\ dnsChan # <<>> /\ dnsChan' = <<>>
        /\ batch' = dnsChan
        /\ UNCHANGED <<bridge, warm, wpc, query, replies>>
    BY <1>3 DEF TakeBatch
  <2>2. batch = <<>> /\ \A w \in Workers : wpc[w] = "idle"
    BY <2>1, <1>t DEF PhaseInv, Resting
  <2>3. \A i \in DOMAIN dnsChan : dnsChan[i] \notin Handled
    <3> SUFFICES ASSUME NEW i \in DOMAIN dnsChan PROVE dnsChan[i] \notin Handled
      OBVIOUS
    <3>1. /\ dnsChan \in Seq(Queries) /\ batch \in Seq(Queries) /\ arrived \in Nat
          /\ Len(dnsChan) \in Nat /\ DOMAIN dnsChan = 1..Len(dnsChan)
          /\ Len(batch) \in Nat
      BY <1>t, LenProperties DEF QueueTypes
    <3>2. Base \in Int /\ dnsChan[i] = Base + Len(batch) + i
      BY <3>1, <1>t DEF QueryInv, Base
    <3>3. \A r \in replies : r[1] \in Nat /\ r[1] <= Base + Len(batch)
      BY <1>t DEF QueryInv, UpToClaimed, WorkTypes, Queries
    <3>4. \A r \in replies : r[1] # dnsChan[i]
      BY <3>1, <3>2, <3>3
    <3> QED
      BY <3>4, <2>2 DEF Handled
  <2>4. Unanswered' = {dnsChan[i] : i \in DOMAIN dnsChan}
    BY <2>1, <2>3, <1>h DEF Unanswered
  <2>5. Contract!DnsTake
    BY <2>1, <2>4 DEF Contract!DnsTake, Unanswered
  <2> QED
    BY <2>5 DEF Contract!Resolver
<1>4. CASE Expand \/ ExpandEnd \/ StartFails
  <2>1. /\ pc \in {"expand", "start"} /\ pc' \in {"expand", "start"}
        /\ UNCHANGED <<bridge, warm, dnsChan, batch, wpc, query, replies>>
    BY <1>4 DEF Expand, ExpandEnd, StartFails
  <2> QED
    BY <2>1, <1>h, Stutter DEF DnsPc, Unanswered
<1>5. CASE StartWorker
  <2>1. /\ toStart > 0 /\ wpc' = [wpc EXCEPT ![toStart] = "claim"]
        /\ UNCHANGED <<bridge, warm, dnsChan, batch, pc, query, replies>>
    BY <1>5 DEF StartWorker
  <2>2. /\ wpc \in [Workers -> WPcs] /\ wpc[toStart] = "idle"
    BY <2>1, <1>t DEF PhaseInv, WorkTypes
  <2>3. \A w \in Workers : wpc'[w] = "reply" <=> wpc[w] = "reply"
    BY <2>1, <2>2
  <2>4. Handled' = Handled
    BY <2>1, <2>3, HandledKept
  <2> QED
    BY <2>1, <2>4, Stutter DEF DnsPc, Unanswered
<1>6. CASE Join
  <2>1. /\ pc = "start" /\ pc' = "test" /\ batch' = <<>>
        /\ UNCHANGED <<bridge, warm, dnsChan>>
    BY <1>6 DEF Join
  <2>2. Unanswered' = {}
    BY <2>1 DEF Unanswered
  <2>3. Contract!DnsBatchEnd
    BY <2>1, <2>2 DEF Contract!DnsBatchEnd, Unanswered
  <2> QED
    BY <2>3 DEF Contract!Resolver
<1>7. CASE \E w \in Workers : Worker(w)
  BY <1>7, WorkerRefines
<1>8. CASE Divert
  <2>1. /\ pc # "done" /\ dnsChan' = Append(dnsChan, arrived + 1)
        /\ arrived + 1 \in Queries
        /\ UNCHANGED <<bridge, warm, pc, batch, wpc, query, replies>>
    <3>1. arrived \in Nat /\ arrived < MaxQueries
      BY <1>8, <1>t DEF Divert, QueueTypes
    <3>2. arrived + 1 \in Queries
      BY <3>1, DotAssumption DEF Queries
    <3> QED
      BY <1>8, <3>2 DEF Divert
  <2>2. Contract!Divert(arrived + 1)
    BY <2>1, <1>h DEF Contract!Divert
  <2> QED
    BY <2>1, <2>2
<1>9. CASE StopBridge
  <2>1. /\ bridge' = FALSE
        /\ UNCHANGED <<warm, dnsChan, pc, batch, wpc, query, replies>>
    BY <1>9 DEF StopBridge
  <2>2. Contract!StopBridge
    BY <2>1, <1>h DEF Contract!StopBridge
  <2> QED
    BY <2>2
<1>10. CASE UNCHANGED vars
  <2>1. UNCHANGED <<bridge, warm, dnsChan, pc, batch, wpc, query, replies>>
    BY <1>10 DEF vars
  <2> QED
    BY <2>1, <1>h, Stutter DEF DnsPc, Unanswered
<1> QED
  BY <1>1, <1>2, <1>3, <1>4, <1>5, <1>6, <1>7, <1>8, <1>9, <1>10
     DEF DotNext, ResolverThread

\* The DoT pool is a resolver as the rest of the session knows it: it takes what
\* is waiting as one batch, answers only queries of that batch, each at most
\* once, and takes no other before the workers have ended (main.rs:316-368).
THEOREM PoolIsResolver == DotSpec => ImplementsResolver
<1>1. DotInit => Contract!ResolverInit
  <2> SUFFICES ASSUME DotInit PROVE Contract!ResolverInit
    OBVIOUS
  <2>1. batch = <<>> /\ {batch[i] : i \in DOMAIN batch} = {}
    BY DEF DotInit
  <2> QED
    BY <2>1 DEF DotInit, Contract!ResolverInit
<1>2. ResolverInv /\ [DotNext]_vars =>
        [Contract!Resolver \/ Contract!StopBridge
           \/ \E q \in Queries : Contract!Divert(q)]_(Contract!resolverVars)
  BY PoolRefines
<1> QED
  BY <1>1, <1>2, ResolverInvariant, PTL
     DEF DotSpec, ImplementsResolver, Contract!ResolverSpec
=============================================================================

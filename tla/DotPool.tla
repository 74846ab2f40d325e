------------------------------ MODULE DotPool ------------------------------
(***************************************************************************)
(* The DNS resolver thread in DoT mode: process_dot_serial (main.rs:77)    *)
(* with its pool of TLS connections, called from the loop at main.rs:316.  *)
(* A batch of queries is shared out to one worker thread per connection.   *)
(*                                                                         *)
(* A query is the number of its arrival and the answer to it is the same   *)
(* number.  A connection is what its peer still owes: the queries written  *)
(* whose answers were not read, and whether the byte stream is in step.    *)
(* A worker owns its connection, so a write and the read that follows it   *)
(* are one step; what the worker shares with the others (the counter, the  *)
(* flags, utun) is touched in steps of its own.                            *)
(***************************************************************************)
EXTENDS Naturals, Sequences, FiniteSets, FiniteSetsExt

CONSTANTS
  MaxPool,     \* MAX_POOL (4)
  MaxQueries   \* bound: queries that ever arrive

ASSUME DotAssumption ==
  /\ MaxPool \in Nat \ {0}
  /\ MaxQueries \in Nat \ {0}

Queries == 1..MaxQueries
Workers == 1..MaxPool

\* What is read when the stream is out of step: bytes of another answer.
Garbled == 0
Answers == Queries \cup {Garbled}

VARIABLES
  bridge,    \* running_bridge, the "running" of process_dot_serial
  warm,      \* doh_warmed_up
  dnsChan,   \* the channel of intercepted queries
  arrived,   \* queries diverted so far
  pc,        \* where the resolver thread is
  batch,     \* queries
  pool,      \* dot_conns
  toStart,   \* workers the loop at main.rs:117 still has to start
  counter,   \* the shared index
  returned,  \* the channel on which workers give their connections back
  wpc,       \* where each worker is
  conn,      \* its connection
  query,     \* the query it has claimed
  answer,    \* what it read
  tried,     \* history: queries handed to dot_query_pooled
  replies    \* history: <<query, answer, the connection had failed before>>

poolVars == <<pool, toStart, returned>>
workVars == <<wpc, conn, query, answer>>
vars == <<bridge, warm, dnsChan, arrived, pc, batch, poolVars, counter,
          workVars, tried, replies>>

\* create_dot_conn
Fresh == [owed |-> <<>>, stream |-> "ok", failed |-> FALSE]

Conns == [owed : Seq(Queries), stream : {"ok", "garbled", "dead"},
          failed : BOOLEAN]

DotInit ==
  /\ bridge = TRUE
  /\ warm = FALSE
  /\ dnsChan = <<>>
  /\ arrived = 0
  /\ pc = "test"
  /\ batch = <<>>
  /\ pool = <<>>
  /\ toStart = 0
  /\ counter = 0
  /\ returned = <<>>
  /\ wpc = [w \in Workers |-> "idle"]
  /\ conn = [w \in Workers |-> Fresh]
  /\ query = [w \in Workers |-> 1]
  /\ answer = [w \in Workers |-> Garbled]
  /\ tried = {}
  /\ replies = {}

-----------------------------------------------------------------------------
(* The resolver thread *)

\* while dns_bridge.load()
Test ==
  /\ pc = "test"
  /\ pc' = IF bridge THEN "recv" ELSE "done"
  /\ UNCHANGED <<bridge, warm, dnsChan, arrived, batch, poolVars, counter,
                 workVars, tried, replies>>

\* 200 ms without a query
RecvTimeout ==
  /\ pc = "recv"
  /\ dnsChan = <<>>
  /\ pc' = "test"
  /\ UNCHANGED <<bridge, warm, dnsChan, arrived, batch, poolVars, counter,
                 workVars, tried, replies>>

\* The first query and, with try_recv, every other that is waiting.
TakeBatch ==
  /\ pc = "recv"
  /\ dnsChan # <<>>
  /\ batch' = dnsChan
  /\ dnsChan' = <<>>
  /\ counter' = 0
  /\ pc' = "expand"
  /\ UNCHANGED <<bridge, warm, arrived, poolVars, workVars, tried, replies>>

\* Seeded fault: <=
PoolShortInclusive == Len(pool) <= Min({MaxPool, Len(batch)})

PoolShort == Len(pool) < Min({MaxPool, Len(batch)})

\* The pool grows to the size of the batch.
Expand ==
  /\ pc = "expand"
  /\ PoolShort
  /\ pool' = Append(pool, Fresh)
  /\ UNCHANGED <<bridge, warm, dnsChan, arrived, pc, batch, toStart, returned,
                 counter, workVars, tried, replies>>

\* dot_conns.len().max(1)
WorkerCount == Max({1, Len(pool)})

\* It is large enough, or create_dot_conn failed.
ExpandEnd ==
  /\ pc = "expand"
  /\ toStart' = WorkerCount
  /\ pc' = "start"
  /\ UNCHANGED <<bridge, warm, dnsChan, arrived, batch, pool, returned, counter,
                 workVars, tried, replies>>

\* One turn of the loop that starts the workers: with a pooled connection, the
\* last one first, or with a new one ...
StartWorker ==
  /\ pc = "start"
  /\ toStart > 0
  /\ toStart' = toStart - 1
  /\ IF pool # <<>>
     THEN /\ conn' = [conn EXCEPT ![toStart] = pool[Len(pool)]]
          /\ pool' = SubSeq(pool, 1, Len(pool) - 1)
     ELSE /\ conn' = [conn EXCEPT ![toStart] = Fresh]
          /\ UNCHANGED pool
  /\ wpc' = [wpc EXCEPT ![toStart] = "claim"]
  /\ UNCHANGED <<bridge, warm, dnsChan, arrived, pc, batch, returned, counter,
                 query, answer, tried, replies>>

\* ... or none, because there was none in the pool and none could be opened.
StartFails ==
  /\ pc = "start"
  /\ toStart > 0
  /\ pool = <<>>
  /\ toStart' = toStart - 1
  /\ UNCHANGED <<bridge, warm, dnsChan, arrived, pc, batch, pool, returned,
                 counter, workVars, tried, replies>>

\* Seeded fault: the connections are reclaimed without joining the workers.
AllJoinedSkipped == toStart = 0

AllJoined == toStart = 0 /\ \A w \in Workers : wpc[w] = "idle"

\* Every worker is joined, the connections they returned go back to the pool,
\* which is trimmed to MAX_POOL.
Join ==
  /\ pc = "start"
  /\ AllJoined
  /\ LET all == pool \o returned
     IN pool' = SubSeq(all, 1, Min({MaxPool, Len(all)}))
  /\ returned' = <<>>
  /\ batch' = <<>>
  /\ pc' = "test"
  /\ UNCHANGED <<bridge, warm, dnsChan, arrived, toStart, counter, workVars,
                 tried, replies>>

ResolverThread ==
  \/ Test \/ RecvTimeout \/ TakeBatch \/ Expand \/ ExpandEnd
  \/ StartWorker \/ StartFails \/ Join

-----------------------------------------------------------------------------
(* A worker *)

\* Nothing of the resolver thread changes.
WorkerOnly == UNCHANGED <<bridge, dnsChan, arrived, pc, batch, pool, toStart>>

\* Seeded fault: the index is read and not advanced.
NextIndexLoad == counter

\* counter.fetch_add(1)
NextIndex == counter + 1

\* Seeded fault: the last query of a batch is never claimed.
HasQueryShort == counter + 1 < Len(batch) /\ bridge

\* i < queries.len() && running.load()
HasQuery == counter < Len(batch) /\ bridge

\* The top of the loop: claim a query, or give the connection back and end.
Claim(w) ==
  /\ wpc[w] = "claim"
  /\ counter' = NextIndex
  /\ IF HasQuery
     THEN /\ wpc' = [wpc EXCEPT ![w] = "ask"]
          /\ query' = [query EXCEPT ![w] = batch[counter + 1]]
          /\ UNCHANGED returned
     ELSE /\ wpc' = [wpc EXCEPT ![w] = "idle"]
          /\ returned' = Append(returned, conn[w])
          /\ UNCHANGED query
  /\ WorkerOnly /\ UNCHANGED <<warm, conn, answer, tried, replies>>

\* dot_query_pooled succeeds: q is written, and the oldest answer not read yet
\* is what the read returns.
Ask(w) ==
  LET owed == Append(conn[w].owed, query[w])
  IN /\ conn[w].stream # "dead"
     /\ answer' = [answer EXCEPT ![w] =
          IF conn[w].stream = "ok" THEN Head(owed) ELSE Garbled]
     /\ conn' = [conn EXCEPT ![w].owed = Tail(owed)]

\* dot_query_pooled fails: the connection is closed, the answer does not arrive
\* in 5 s (it may still arrive), or part of it has been read.
Failed(c, q) ==
  {[c EXCEPT !.stream = "dead"]}
    \cup {[c EXCEPT !.owed = Append(@, q), !.stream = s] :
            s \in (IF c.stream = "ok" THEN {"ok", "garbled"} ELSE {c.stream})}

\* The first try of a query gives an answer, ...
AskOk(w) ==
  /\ wpc[w] = "ask"
  /\ Ask(w)
  /\ wpc' = [wpc EXCEPT ![w] = "answered"]
  /\ tried' = tried \cup {query[w]}
  /\ WorkerOnly /\ UNCHANGED <<warm, counter, returned, query, replies>>

\* Seeded fault: the new connection is opened and not used.
ReconnectedKept(c) == c

\* conn = new_conn
Reconnected(c) == Fresh

\* ... or fails and the worker reconnects, ...
AskReconnect(w) ==
  /\ wpc[w] = "ask"
  /\ \E c \in Failed(conn[w], query[w]) :
       conn' = [conn EXCEPT ![w] = Reconnected(c)]
  /\ wpc' = [wpc EXCEPT ![w] = "retry"]
  /\ tried' = tried \cup {query[w]}
  /\ WorkerOnly /\ UNCHANGED <<warm, counter, returned, query, answer, replies>>

\* ... or fails and so does the reconnection: the query is given up and the old
\* connection is kept.
AskGiveUp(w) ==
  /\ wpc[w] = "ask"
  /\ \E c \in Failed(conn[w], query[w]) :
       conn' = [conn EXCEPT ![w] = [c EXCEPT !.failed = TRUE]]
  /\ wpc' = [wpc EXCEPT ![w] = "claim"]
  /\ tried' = tried \cup {query[w]}
  /\ WorkerOnly /\ UNCHANGED <<warm, counter, returned, query, answer, replies>>

\* The one retry, on the new connection
RetryOk(w) ==
  /\ wpc[w] = "retry"
  /\ Ask(w)
  /\ wpc' = [wpc EXCEPT ![w] = "answered"]
  /\ WorkerOnly /\ UNCHANGED <<warm, counter, returned, query, tried, replies>>

RetryFails(w) ==
  /\ wpc[w] = "retry"
  /\ \E c \in Failed(conn[w], query[w]) :
       conn' = [conn EXCEPT ![w] = [c EXCEPT !.failed = TRUE]]
  /\ wpc' = [wpc EXCEPT ![w] = "claim"]
  /\ WorkerOnly
  /\ UNCHANGED <<warm, counter, returned, query, answer, tried, replies>>

\* doh_warmed_up is set, ...
SetWarm(w) ==
  /\ wpc[w] = "answered"
  /\ warm' = TRUE
  /\ wpc' = [wpc EXCEPT ![w] = "reply"]
  /\ WorkerOnly
  /\ UNCHANGED <<counter, returned, conn, query, answer, tried, replies>>

\* ... then build_reply puts what was read into a packet that answers the one
\* intercepted, and it is written to utun; an error is logged.
Reply(w) ==
  /\ wpc[w] = "reply"
  /\ replies' = replies \cup {<<query[w], answer[w], conn[w].failed>>}
  /\ wpc' = [wpc EXCEPT ![w] = "claim"]
  /\ WorkerOnly
  /\ UNCHANGED <<warm, counter, returned, conn, query, answer, tried>>

Worker(w) ==
  \/ Claim(w) \/ AskOk(w) \/ AskReconnect(w) \/ AskGiveUp(w)
  \/ RetryOk(w) \/ RetryFails(w) \/ SetWarm(w) \/ Reply(w)

-----------------------------------------------------------------------------

\* The TX thread diverts a query.
Divert ==
  /\ arrived < MaxQueries
  /\ pc # "done"
  /\ arrived' = arrived + 1
  /\ dnsChan' = Append(dnsChan, arrived + 1)
  /\ UNCHANGED <<bridge, warm, pc, batch, poolVars, counter, workVars, tried,
                 replies>>

StopBridge ==
  /\ bridge
  /\ bridge' = FALSE
  /\ UNCHANGED <<warm, dnsChan, arrived, pc, batch, poolVars, counter, workVars,
                 tried, replies>>

DotNext ==
  \/ ResolverThread
  \/ \E w \in Workers : Worker(w)
  \/ Divert
  \/ StopBridge

DotSpec == DotInit /\ [][DotNext]_vars

\* Threads are scheduled, and every connect, read and write has a timeout of
\* 5 s (dns_proxy.rs:172-178): a step of a worker ends one way or the other.
DotLiveSpec ==
  /\ DotSpec
  /\ WF_vars(ResolverThread)
  /\ \A w \in Workers : WF_vars(Worker(w))

-----------------------------------------------------------------------------
(* Properties *)

\* Every variable of the resolver has its type.
DotTypeOK ==
  /\ bridge \in BOOLEAN
  /\ warm \in BOOLEAN
  /\ dnsChan \in Seq(Queries)
  /\ arrived \in 0..MaxQueries
  /\ pc \in {"test", "recv", "expand", "start", "done"}
  /\ batch \in Seq(Queries)
  /\ pool \in Seq(Conns)
  /\ toStart \in 0..MaxPool
  /\ counter \in Nat
  /\ returned \in Seq(Conns)
  /\ wpc \in [Workers -> {"idle", "claim", "ask", "retry", "answered", "reply"}]
  /\ conn \in [Workers -> Conns]
  /\ query \in [Workers -> Queries]
  /\ answer \in [Workers -> Answers]
  /\ tried \subseteq Queries
  /\ replies \subseteq Queries \X Answers \X BOOLEAN

Busy == {w \in Workers : wpc[w] # "idle"}

\* However often connections fail and are reopened, the thread never holds more
\* than MAX_POOL of them, in the pool, with the workers and on their way back
\* together: the trimming at main.rs:178 never discards one.
PoolBounded == Len(pool) + Cardinality(Busy) + Len(returned) <= MaxPool

\* The types, and the size of the pool (main.rs:95-103, 178).
DotInv == DotTypeOK /\ PoolBounded

\* No query is worked on by two workers or answered twice: the shared counter
\* gives every index of a batch to one worker (main.rs:136).
AnsweredOnce ==
  /\ \A v, w \in Workers :
       /\ v # w
       /\ wpc[v] \in {"ask", "retry", "answered", "reply"}
       /\ wpc[w] \in {"ask", "retry", "answered", "reply"}
       => query[v] # query[w]
  /\ \A w \in Workers :
       wpc[w] \in {"ask", "retry", "answered", "reply"} =>
         \A r \in replies : r[1] # query[w]
  /\ \A r, s \in replies : r[1] = s[1] => r = s

\* When the workers of a batch have ended, every query of it was tried, unless
\* the session was stopped (main.rs:137) or there is no connection at all, not
\* even one that failed (main.rs:123): a dead pooled connection is not enough to
\* drop a batch.
NoQuerySkipped ==
  pc = "start" /\ AllJoined =>
    \/ \A i \in DOMAIN batch : batch[i] \in tried
    \/ ~bridge
    \/ pool = <<>> /\ returned = <<>>

\* A reply that carries the answer to another query, or half of one, only ever
\* comes over a connection that failed a query and was kept, because the
\* reconnection (main.rs:146) or the retry on the new connection (main.rs:150)
\* failed; a connection that never failed stays in step across batches.
MixUpNeedsKeptConnection ==
  \A r \in replies : r[1] # r[2] => r[3]

\* A batch ends, and the resolver comes back to its channel, whatever the
\* servers do (main.rs:171).
BatchEnds == pc = "expand" ~> pc = "test"

\* DotPool implements the resolver the rest of the session is built on
\* (module ResolverContract); a query counts as answered when the flag is set.
Handled == {q \in Queries : \/ \E r \in replies : r[1] = q
                            \/ \E w \in Workers : wpc[w] = "reply" /\ query[w] = q}

Contract == INSTANCE ResolverContract WITH
  DnsQueries <- Queries,
  dnsPc <- IF pc \in {"expand", "start"} THEN "resolve" ELSE pc,
  dnsBatch <- {batch[i] : i \in DOMAIN batch} \ Handled

ImplementsResolver == Contract!ResolverSpec
=============================================================================

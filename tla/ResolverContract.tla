-------------------------- MODULE ResolverContract --------------------------
(***************************************************************************)
(* What the DNS resolver thread of a session promises: it takes every      *)
(* query that is waiting as one batch, answers some of them, drops the     *)
(* others, and takes the next batch only when every worker has ended.      *)
(* With DoH every query has a thread of its own; with DoT the batch is     *)
(* shared out to pooled connections, which is the business of DotPool:     *)
(* DotPool implements this module, Bridge is built on it.                  *)
(***************************************************************************)
EXTENDS Naturals, Sequences

CONSTANT DnsQueries  \* the queries the TX thread may divert

VARIABLES
  bridge,    \* running_bridge
  dnsPc,     \* where the resolver thread is
  dnsChan,   \* the channel of intercepted queries
  dnsBatch,  \* queries of the batch that are not answered
  warm       \* doh_warmed_up

resolverVars == <<bridge, dnsPc, dnsChan, dnsBatch, warm>>

DnsPcs == {"test", "recv", "resolve", "done"}

ResolverInit ==
  /\ bridge = TRUE
  /\ dnsPc = "test"
  /\ dnsChan = <<>>
  /\ dnsBatch = {}
  /\ warm = FALSE

\* while dns_bridge.load()
DnsTest ==
  /\ dnsPc = "test"
  /\ dnsPc' = IF bridge THEN "recv" ELSE "done"
  /\ UNCHANGED <<bridge, dnsChan, dnsBatch, warm>>

\* recv_timeout returns a query, and try_recv the others that are waiting.
DnsTake ==
  /\ dnsPc = "recv"
  /\ dnsChan # <<>>
  /\ dnsBatch' = {dnsChan[i] : i \in DOMAIN dnsChan}
  /\ dnsChan' = <<>>
  /\ dnsPc' = "resolve"
  /\ UNCHANGED <<bridge, warm>>

\* Seeded fault: an idle resolver ends.
AfterIdleQuit == "done"

AfterIdle == "test"

\* 200 ms without a query.  The channel is never disconnected: run_session
\* keeps a sender.
DnsTimeout ==
  /\ dnsPc = "recv"
  /\ dnsChan = <<>>
  /\ dnsPc' = AfterIdle
  /\ UNCHANGED <<bridge, dnsChan, dnsBatch, warm>>

\* A worker has an answer to q: the flag is set and the reply goes to utun.
DnsAnswer(q) ==
  /\ dnsPc = "resolve"
  /\ dnsBatch' = dnsBatch \ {q}
  /\ warm' = TRUE
  /\ UNCHANGED <<bridge, dnsPc, dnsChan>>

\* Every worker is joined before the next batch.  The queries left over failed
\* or timed out, there was no agent or no connection, or a DoT worker found the
\* bridge stopped: nothing is written for them.
DnsBatchEnd ==
  /\ dnsPc = "resolve"
  /\ dnsBatch' = {}
  /\ dnsPc' = "test"
  /\ UNCHANGED <<bridge, dnsChan, warm>>

Resolver ==
  \/ DnsTest \/ DnsTake \/ DnsTimeout
  \/ \E q \in dnsBatch : DnsAnswer(q)
  \/ DnsBatchEnd

\* The TX thread diverts a query; the channel is gone when the thread is.
Divert(q) ==
  /\ dnsChan' = IF dnsPc = "done" THEN dnsChan ELSE Append(dnsChan, q)
  /\ UNCHANGED <<bridge, dnsPc, dnsBatch, warm>>

StopBridge ==
  /\ bridge' = FALSE
  /\ UNCHANGED <<dnsPc, dnsChan, dnsBatch, warm>>

ResolverSpec ==
  /\ ResolverInit
  /\ [][Resolver \/ StopBridge \/ \E q \in DnsQueries : Divert(q)]_resolverVars
=============================================================================

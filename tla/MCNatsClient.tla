---------------------------- MODULE MCNatsClient ----------------------------
(***************************************************************************)
(* The server's way to NATS for TLC: it looks for a broker, connects once  *)
(* and publishes.  Two bounds on what is published: a few messages, one of *)
(* which the broker rejects, or log events without end.                    *)
(***************************************************************************)
EXTENDS NatsClient, PeerDiscovery

VARIABLES
  bounds,     \* "few" messages or log events without "end"
  started     \* main has called connect()

Endless == INSTANCE NatsClient WITH MaxLogs <- 0

natsVars == <<vars, discoveryVars, bounds, started>>

Peer(ips, host) == [ips |-> ips, host |-> host]

\* No tailnet; the server itself, a host of another name and a foreign address; one peer;
\* three peers for two threads.
MCStatuses ==
  {<< >>,
   <<Peer(<<"self">>, TRUE), Peer(<<"p0">>, FALSE), Peer(<<"other">>, TRUE)>>,
   <<Peer(<<"other", "p1">>, TRUE)>>,
   <<Peer(<<"p1">>, TRUE), Peer(<<"p2">>, TRUE), Peer(<<"p3">>, TRUE)>>}

NatsInit ==
  /\ bounds \in {"few", "end"} /\ started = FALSE
  /\ DiscoveryInit
  /\ Init /\ ~ connected

\* main calls connect(), which may fail.  What discover_nats_url worked with is gone,
\* and the URL is not read again.
connect ==
  /\ ~ started /\ main = "returned"
  /\ started' = TRUE /\ connected' \in BOOLEAN
  /\ matched' = << >> /\ found' = FALSE /\ next_idx' = 1 /\ winning_url' = << >>
  /\ elapsed' = 0 /\ passed' = {} /\ nats_url' = FromEnv
  /\ UNCHANGED <<main, thread, bounds, broker, breaker, dlq, locals, probing, logs, ledger>>

\* Log events without end.
LogOn == \E th \in Thread : Endless!publish_log(th) \/ Continue(th)

NatsNext ==
  \/ ~ started /\ DiscoveryNext /\ UNCHANGED <<vars, bounds, started>>
  \/ connect
  \/ /\ started /\ UNCHANGED <<discoveryVars, bounds, started>>
     /\ \/ bounds = "few" /\ Next
        \/ bounds = "end" /\ (LogOn \/ Drain \/ Tick \/ GoAway \/ ComeBack)

InTraffic(A) == started /\ bounds = "end" /\ A

NatsFairness ==
  /\ WF_discoveryVars(DiscoveryNext)
  /\ \A th \in Thread :
       /\ WF_vars(InTraffic(Continue(th)))
       /\ WF_vars(InTraffic(Endless!publish_log(th)))
  /\ WF_vars(InTraffic(Tick))

NatsSpec == NatsInit /\ [][NatsNext]_natsVars /\ NatsFairness

\* circuit_breaker.hpp: Recovers for a server that publishes log events for ever: once
\* the broker stays up, the circuit is closed again and again, whichever thread held the
\* probe and however its publish ended.
RecoversInTraffic == bounds = "end" => Recovers

=============================================================================

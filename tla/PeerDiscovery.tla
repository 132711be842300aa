---------------------------- MODULE PeerDiscovery ---------------------------
(***************************************************************************)
(* How the server finds a NATS broker when NATS_URL is not set             *)
(* (src/src/peer_discovery.cpp, src/src/server_main.cpp): the Tailscale    *)
(* peers are listed, a few threads probe them, and the first one that      *)
(* passes is taken.                                                        *)
(*                                                                         *)
(* Time passes only while every thread waits for a socket, the clock or    *)
(* another thread: a probe is long and a step of the program is short.     *)
(***************************************************************************)
EXTENDS Naturals, Sequences

CONSTANTS
    Statuses,       \* what `tailscale status` may answer: sequences of peers
    MaxWorkers,     \* opts.max_workers
    TotalBudget,    \* opts.total_budget
    ProbeTimeout    \* opts.per_probe_timeout_ms

ASSUME DiscoveryAssumption == {MaxWorkers, TotalBudget, ProbeTimeout} \subseteq Nat

VARIABLES
    matched,      \* the peers to probe
    found, next_idx, winning_url,
    elapsed,      \* milliseconds since discover_nats_url was called
    main,         \* where the calling thread is
    thread,       \* probing thread -> [at, i, since, timeout, wait]
    passed,       \* history: the peers whose probe succeeded
    nats_url      \* what the server connects to

discoveryVars ==
    <<matched, found, next_idx, winning_url, elapsed, main, thread, passed, nats_url>>

(* The URL of a host; the empty one is << >>, and what NATS_URL holds is    *)
(* taken as it is.                                                          *)
Url(host) == <<"nats", host, "port">>
FromEnv == <<"NATS_URL">>

Smaller(a, b) == IF a < b THEN a ELSE b

clamped_workers == IF MaxWorkers < 1 THEN 1 ELSE Smaller(MaxWorkers, 32)

Prober == 1 .. clamped_workers
Fresh == [at |-> "loop", i |-> 0, since |-> 0, timeout |-> 0, wait |-> 0]
Gone == [Fresh EXCEPT !.at = "gone"]

(* A peer is [ips, host]: its addresses, each "other", "self" or one of the *)
(* tailnet, and whether its name matches the pattern.                       *)
is_tailscale_ip(ip) == ip # "other"
matches_hostname_pattern(p) == p.host

(* The first address of the tailnet that is not the server's own is the     *)
(* candidate.                                                               *)
enumerate_tailscale_peers(status) ==
    LET tailnet(p) == SelectSeq(p.ips, LAMBDA ip : is_tailscale_ip(ip) /\ ip # "self")
        candidate(p) == [tailscale_ip |-> Head(tailnet(p)), host |-> p.host]
        reachable == SelectSeq(status, LAMBDA p : tailnet(p) # << >>)
    IN  [k \in DOMAIN reachable |-> candidate(reachable[k])]

Matched(peers) ==
    LET those == SelectSeq(peers, matches_hostname_pattern)
    IN  [k \in DOMAIN those |-> those[k].tailscale_ip]

worker_count(n) == Smaller(n, clamped_workers)

DiscoveryInit ==
    /\ matched = << >> /\ found = FALSE /\ next_idx = 1 /\ winning_url = << >>
    /\ elapsed = 0 /\ main = "start" /\ passed = {}
    /\ thread = [w \in Prober |-> Gone] /\ nats_url = << >>

(* The environment names the broker. *)
FromEnvironment ==
    /\ main = "start" /\ main' = "returned" /\ nats_url' = FromEnv
    /\ UNCHANGED <<matched, found, next_idx, winning_url, elapsed, thread, passed>>

(* The threads start.  No peers: the answer is empty, and the server falls  *)
(* back on its own host.                                                    *)
discover_nats_url ==
    /\ main = "start"
    /\ \E status \in Statuses : matched' = Matched(enumerate_tailscale_peers(status))
    /\ IF matched' = << >> THEN main' = "returned" /\ nats_url' = Url("localhost")
       ELSE main' = "wait" /\ UNCHANGED nats_url
    /\ thread' = [w \in Prober |-> IF w <= worker_count(Len(matched')) THEN Fresh ELSE Gone]
    /\ UNCHANGED <<found, next_idx, winning_url, elapsed, passed>>

Becomes(w, t) == thread' = [thread EXCEPT ![w] = t]
Goes(w, to) == Becomes(w, [thread[w] EXCEPT !.at = to])

Loop(w) ==
    /\ thread[w].at = "loop" /\ (IF found THEN Becomes(w, Gone) ELSE Goes(w, "fetch"))
    /\ UNCHANGED <<matched, found, next_idx, winning_url, elapsed, main, passed, nats_url>>

remaining_ms == IF elapsed < TotalBudget THEN TotalBudget - elapsed ELSE 0

\* Mutant of probe_timeout: the budget is not looked at.
ProbeTimeoutWhole == ProbeTimeout

probe_timeout == Smaller(ProbeTimeout, remaining_ms)

(* fetch_add, and the first wait of the probe unless there is nothing left  *)
(* to probe or no time.                                                     *)
FetchIndex(w) ==
    /\ thread[w].at = "fetch" /\ next_idx' = next_idx + 1
    /\ IF next_idx > Len(matched) \/ remaining_ms = 0 THEN Becomes(w, Gone)
       ELSE Becomes(w, [at |-> "probe", i |-> next_idx, since |-> elapsed,
                        timeout |-> probe_timeout, wait |-> 1])
    /\ UNCHANGED <<matched, found, winning_url, elapsed, main, passed, nats_url>>

(* A connection to the monitoring port, then its answer: two waits. *)
check_nats_monitoring(w) ==
    /\ thread[w].wait < 3 /\ UNCHANGED passed
    /\ Becomes(w, [thread[w] EXCEPT !.wait = @ + 1, !.since = elapsed])

(* A connection to the NATS port. *)
tcp_connect_with_timeout(w) ==
    /\ thread[w].wait = 3 /\ Goes(w, "claim")
    /\ passed' = passed \cup {matched[thread[w].i]}

(* Each of the three waits may take as long as the timeout.  The peer       *)
(* answers or refuses, or the timeout ends the wait.                        *)
probe_nats_peer(w) ==
    /\ thread[w].at = "probe"
    /\ \/ check_nats_monitoring(w)
       \/ tcp_connect_with_timeout(w)
       \/ Becomes(w, Fresh) /\ UNCHANGED passed
    /\ UNCHANGED <<matched, found, next_idx, winning_url, elapsed, main, nats_url>>

(* compare_exchange_strong: only the first one goes on to write the URL. *)
Claim(w) ==
    /\ thread[w].at = "claim" /\ found' = TRUE
    /\ IF found THEN Becomes(w, Gone) ELSE Goes(w, "write")
    /\ UNCHANGED <<matched, next_idx, winning_url, elapsed, main, passed, nats_url>>

Write(w) ==
    /\ thread[w].at = "write" /\ winning_url' = Url(matched[thread[w].i]) /\ Goes(w, "notify")
    /\ UNCHANGED <<matched, found, next_idx, elapsed, main, passed, nats_url>>

Notify(w) ==
    /\ thread[w].at = "notify" /\ Becomes(w, Gone)
    /\ main' = IF main = "asleep" THEN "woken" ELSE main
    /\ UNCHANGED <<matched, found, next_idx, winning_url, elapsed, passed, nats_url>>

\* Mutant of WaitUntil: a wait without a deadline.
WaitForFound ==
    /\ main \in {"wait", "woken"} /\ main' = IF found THEN "join" ELSE "asleep"
    /\ UNCHANGED <<matched, found, next_idx, winning_url, elapsed, thread, passed, nats_url>>

(* wait_until: asleep until the deadline, or a notification after which the *)
(* flag is found set.                                                       *)
WaitUntil ==
    /\ \/ main \in {"wait", "woken"} /\ main' = IF found THEN "join" ELSE "asleep"
       \/ main = "asleep" /\ elapsed >= TotalBudget /\ main' = "join"
    /\ UNCHANGED <<matched, found, next_idx, winning_url, elapsed, thread, passed, nats_url>>

\* Mutant of Join: the threads are detached.
JoinNone ==
    /\ main = "join" /\ main' = "returned"
    /\ nats_url' = IF winning_url = << >> THEN Url("localhost") ELSE winning_url
    /\ UNCHANGED <<matched, found, next_idx, winning_url, elapsed, thread, passed>>

(* join, and the server's choice. *)
Join ==
    /\ main = "join" /\ (\A w \in Prober : thread[w] = Gone) /\ main' = "returned"
    /\ nats_url' = IF winning_url = << >> THEN Url("localhost") ELSE winning_url
    /\ UNCHANGED <<matched, found, next_idx, winning_url, elapsed, thread, passed>>

Waits(t) == t.at = "probe" /\ elapsed < t.since + t.timeout

Elapse ==
    /\ \A w \in Prober : thread[w] = Gone \/ Waits(thread[w])
    /\ \/ main = "asleep" /\ elapsed < TotalBudget
       \/ main = "join" /\ \E w \in Prober : thread[w] # Gone
    /\ elapsed' = elapsed + 1
    /\ UNCHANGED <<matched, found, next_idx, winning_url, main, thread, passed, nats_url>>

Probing(w) ==
    Loop(w) \/ FetchIndex(w) \/ probe_nats_peer(w) \/ Claim(w) \/ Write(w) \/ Notify(w)

Discover == discover_nats_url \/ FromEnvironment \/ WaitUntil \/ Join \/ Elapse

DiscoveryNext == Discover \/ \E w \in Prober : Probing(w)

DiscoverySpec == DiscoveryInit /\ [][DiscoveryNext]_discoveryVars
-----------------------------------------------------------------------------
(* peer_discovery.cpp:252-258, 271-282: the calling thread may be woken     *)
(* before the URL is written, yet what it returns is the URL of a peer that *)
(* passed its probe whenever a peer did, and the server falls back only     *)
(* when none did.                                                           *)
FoundIsReturned ==
    main = "returned" /\ nats_url # FromEnv =>
        IF passed = {} THEN nats_url = Url("localhost") ELSE \E ip \in passed : nats_url = Url(ip)

(* peer_discovery.hpp:42, "Worst-case wall clock: opts.total_budget + ~50   *)
(* ms kernel timer jitter", as far as the code bears it out: a probe waits  *)
(* three times, and each wait has the timeout that was left when the probe  *)
(* began, so the call takes at most two timeouts more than its budget.      *)
BudgetKept == elapsed <= TotalBudget + 2 * ProbeTimeout

(* peer_discovery.cpp:264-282: start-up goes on, whether a peer is found,   *)
(* none answers or there is none.                                           *)
DiscoveryReturns == <>(main = "returned")
=============================================================================

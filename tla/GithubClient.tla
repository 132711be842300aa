---------------------------- MODULE GithubClient ----------------------------
(***************************************************************************)
(* The GitHub side of the server: the issues of the repository, the       *)
(* webhook deliveries they cause, and the client that reads and writes     *)
(* them (src/src/github_client.cpp).  An issue holds one record of one     *)
(* collection in its body.                                                 *)
(***************************************************************************)
EXTENDS Integers, Sequences, FiniteSets

CONSTANTS
    Id,           \* the records' ids (uuids)
    kMaxRetries,  \* attempts per request
    PageSize,     \* issues per page of a listing: 100 in the code
    MaxClock,     \* bound: seconds that pass
    MaxTrouble,   \* bound: faults, changes made by others and crashes in all
    MaxHooks      \* bound: deliveries under way when a change begins

ASSUME ClientAssumption ==
    /\ kMaxRetries \in Nat \ {0} /\ PageSize \in Nat \ {0}
    /\ {MaxClock, MaxTrouble, MaxHooks} \subseteq Nat

VARIABLES
    issues,   \* issue number -> [id, body, open, updated_at]
    hooks,    \* webhook deliveries under way, in no order
    clock,    \* seconds, shared by server and GitHub
    faults,   \* failed requests, lost deliveries and short listings so far
    trouble   \* faults, changes made by others and crashes so far

ghVars == <<issues, hooks, clock, faults, trouble>>

(* What a body says of a record: the version of its fields, whether its     *)
(* status is "closed", and its updatedAt.  A body edited by hand may have   *)
(* lost its JSON block.                                                     *)
Body(r, parses) ==
    [ver |-> r.ver, closed |-> r.closed, at |-> r.at, parses |-> parses]

Numbers == 1 .. Len(issues)
IssuesOf(id) == {n \in Numbers : issues[n].id = id}

Delivery(action, n, issue) ==
    [action |-> action, n |-> n, id |-> issue.id, body |-> issue.body,
     at |-> issue.updated_at]

(* What GitHub does with a request that reaches it: store the change, stamp *)
(* the issue and send a webhook.                                            *)
Sent(d) == hooks' = hooks \cup {d}

Opened(id, body) ==
    LET issue == [id |-> id, body |-> body, open |-> TRUE, updated_at |-> clock]
    IN  /\ issues' = Append(issues, issue)
        /\ Sent(Delivery("opened", Len(issues) + 1, issue))

Changed(n, action, body, open) ==
    LET issue == [issues[n] EXCEPT !.body = body, !.open = open,
                                   !.updated_at = clock]
    IN  /\ issues' = [issues EXCEPT ![n] = issue]
        /\ Sent(Delivery(action, n, issue))

RoomForHooks == Cardinality(hooks) < MaxHooks
Unreached == UNCHANGED <<issues, hooks>>

Trouble == trouble < MaxTrouble /\ trouble' = trouble + 1
Fault == Trouble /\ faults' = faults + 1
NoFault == UNCHANGED <<faults, trouble>>

(* What one attempt comes back with: success, a status that is not retried, *)
(* a transient status (429, 5xx), or a transport error.                     *)
Answer == {"ok", "rejected", "transient", "none"}

is_transient_status(answer) == answer = "transient"

with_retry(try, answer) ==
    CASE answer \in {"ok", "rejected"} -> answer
      [] answer \in {"transient", "none"} /\ try < kMaxRetries -> "again"
      [] is_transient_status(answer) /\ try = kMaxRetries -> "rejected"
      [] answer = "none" /\ try = kMaxRetries -> "throw"

(* One attempt at a request: it may take effect without its answer arriving.*)
Request(answer, effect) ==
    /\ IF answer = "ok" THEN NoFault ELSE Fault
    /\ \/ answer # "rejected" /\ effect
       \/ answer # "ok" /\ Unreached

create_issue(answer, id, body) == Request(answer, Opened(id, body))

update_issue_body(answer, n, body) ==
    Request(answer, Changed(n, "edited", body, issues[n].open))

close_issue(answer, n) ==
    Request(answer, Changed(n, "closed", issues[n].body, FALSE))

(* The open issues, newest first, page by page; an error ends the listing   *)
(* with the pages read so far.                                              *)
OpenIssues == {n \in Numbers : issues[n].open}
Pages(k) == {n \in OpenIssues :
                Cardinality({m \in OpenIssues : m > n}) < k * PageSize}
\* Mutant of Entry: the time comes from the body instead of from the issue.
EntryOfBody(n) == [n |-> n, id |-> issues[n].id, body |-> issues[n].body,
                   at |-> issues[n].body.at]

Entry(n) == [n |-> n, id |-> issues[n].id, body |-> issues[n].body,
             at |-> issues[n].updated_at]

list_issues(k) ==
    IF Pages(k) = OpenIssues THEN NoFault ELSE Fault

Listing(k) == {Entry(n) : n \in Pages(k)}
=============================================================================

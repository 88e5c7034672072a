-------------------------- MODULE WebhookDeliveries --------------------------
(***************************************************************************)
(* Verified GitHub webhooks: each delivery is recorded once under its ID,  *)
(* with the installation snapshot it carries, and a lifecycle delivery     *)
(* then refreshes the publications it names before it is acknowledged.     *)
(* GitHub may deliver at any time, again, concurrently, and after an error *)
(* answer; a refresh awaits GitHub, so handlers interleave between two     *)
(* publications.                                                           *)
(***************************************************************************)
EXTENDS Naturals, Sequences, FiniteSets

CONSTANTS
  Lifecycle,       \* pull_request and check_run deliveries, by ID
  Installations,   \* installation deliveries that carry permissions
  Ignored,         \* deliveries of events that are not accepted
  Contents,        \* what may arrive under one delivery ID
  Pulls,           \* draft publications, in the order of created_at
  Names(_),        \* the publications a lifecycle delivery's commit or pull number matches
  MatchLimit,      \* publications one delivery may match (20 in the code)
  Handlers,        \* concurrent webhook requests
  MaxArrivals      \* bound: webhook requests

Deliveries == Lifecycle \cup Installations \cup Ignored

ASSUME WebhookAssumption ==
  /\ \A d \in Lifecycle : Names(d) \subseteq {Pulls[i] : i \in DOMAIN Pulls}
  /\ Pulls \in Seq({Pulls[i] : i \in DOMAIN Pulls}) /\ {MatchLimit, MaxArrivals} \subseteq Nat
  /\ "none" \notin Contents \cup Deliveries

VARIABLES
  delivered,     \* github_webhook_deliveries: the content under each ID
  installation,  \* github_installation_snapshots, in the order of id
  pull,          \* the status of each publication: refreshable, merged or blocked
  handler,       \* handler[h]: the delivery it serves and the publications still to refresh
  acknowledged,  \* deliveries answered with 202
  due,           \* due[d]: refreshable publications d named when it was recorded
  lookedUp,      \* lookedUp[d]: publications refreshed since d was recorded
  arrivals

webhookVars == <<delivered, installation, pull, handler, acknowledged, due, lookedUp, arrivals>>

PullSet == {Pulls[i] : i \in DOMAIN Pulls}
NoHandler == [on |-> "none", todo |-> {}]

WebhookInit ==
  /\ delivered = [d \in Deliveries |-> "none"] /\ installation = <<>>
  /\ pull = [p \in PullSet |-> "refreshable"]
  /\ handler = [h \in Handlers |-> NoHandler]
  /\ acknowledged = {}
  /\ due = [d \in Deliveries |-> {}] /\ lookedUp = [d \in Deliveries |-> {}]
  /\ arrivals = 0

\* The publications a delivery names, and the most one delivery may refresh.
Named(d) == {p \in PullSet : d \in Lifecycle /\ p \in Names(d) /\ pull[p] = "refreshable"}

Refreshes(todo) == Cardinality(todo) \in 1..MatchLimit

\* recordVerified: one transaction; a known ID with the same content is a
\* duplicate and changes nothing, with other content it is refused.
RecordVerified(d, content) ==
  \/ /\ delivered[d] = "none"
     /\ delivered' = [delivered EXCEPT ![d] = content]
     /\ installation' = IF d \in Installations THEN Append(installation, d) ELSE installation
     /\ due' = [due EXCEPT ![d] = Named(d)]
  \/ delivered[d] = content /\ UNCHANGED <<delivered, installation, due>>

\* Fault: only the first arrival of a delivery is reconciled.
ToRefreshFirst(d) == IF delivered[d] = "none" THEN Named(d) ELSE {}

\* What onRecorded refreshes, for duplicates too.
ToRefresh(d) == Named(d)

\* A request arrives.  Without anything to refresh it is acknowledged at once;
\* a signal that matches too many publications is answered with an error.
Arrive(h, d, content) ==
  /\ arrivals < MaxArrivals /\ arrivals' = arrivals + 1
  /\ handler[h].on = "none"
  /\ \/ /\ RecordVerified(d, content)
        /\ LET todo == ToRefresh(d) IN
             /\ handler' = [handler EXCEPT ![h] =
                  IF Refreshes(todo) THEN [on |-> d, todo |-> todo] ELSE @]
             /\ acknowledged' = IF todo = {} THEN acknowledged \cup {d} ELSE acknowledged
     \/ /\ delivered[d] \notin {"none", content}
        /\ UNCHANGED <<delivered, installation, due, handler, acknowledged>>
  /\ UNCHANGED <<pull, lookedUp>>

\* The publication a handler looks up next: the first left, in the order of created_at.
IsNext(p, h) ==
  \E i \in DOMAIN Pulls : /\ p = Pulls[i] /\ p \in handler[h].todo
                          /\ \A j \in DOMAIN Pulls : j < i => Pulls[j] \notin handler[h].todo

\* It is looked up at GitHub and its row written; after the last one the delivery is
\* acknowledged.
RefreshNext(h, p) ==
  /\ handler[h].on # "none" /\ IsNext(p, h) /\ pull[p] # "blocked"
  /\ LET d == handler[h].on  rest == handler[h].todo \ {p} IN
       /\ \E s \in {"refreshable", "merged"} :
            /\ pull[p] = "merged" => s = "merged"
            /\ pull' = [pull EXCEPT ![p] = s]
       /\ lookedUp' = [e \in Deliveries |-> IF delivered[e] # "none" THEN lookedUp[e] \cup {p}
                                            ELSE lookedUp[e]]
       /\ handler' = [handler EXCEPT ![h] = IF rest = {} THEN NoHandler
                                            ELSE [@ EXCEPT !.todo = rest]]
       /\ acknowledged' = IF rest = {} THEN acknowledged \cup {d} ELSE acknowledged
  /\ UNCHANGED <<delivered, installation, due, arrivals>>

\* The refresh throws: GitHub fails, or the pull request no longer matches its
\* evidence and is blocked.  The rest of the list is left, and the answer is an error.
RefreshFails(h, p) ==
  /\ handler[h].on # "none" /\ IsNext(p, h)
  /\ pull' \in {pull} \cup {[pull EXCEPT ![p] = IF @ = "refreshable" THEN "blocked" ELSE @]}
  /\ handler' = [handler EXCEPT ![h] = NoHandler]
  /\ UNCHANGED <<delivered, installation, acknowledged, due, lookedUp, arrivals>>

HandlersStop ==
  /\ handler' = [h \in Handlers |-> NoHandler] /\ handler' # handler
  /\ UNCHANGED <<delivered, installation, pull, acknowledged, due, lookedUp, arrivals>>

WebhookNext ==
  \/ \E h \in Handlers : \/ \E d \in Deliveries, content \in Contents : Arrive(h, d, content)
                         \/ \E p \in PullSet : RefreshNext(h, p) \/ RefreshFails(h, p)
  \/ HandlersStop

WebhookSpec == WebhookInit /\ [][WebhookNext]_webhookVars

(***************************************************************************)
(* Properties                                                              *)
(***************************************************************************)
\* Rows and handlers are of the kinds the tables and the code allow.
WebhookTypeOK ==
  /\ delivered \in [Deliveries -> Contents \cup {"none"}]
  /\ pull \in [PullSet -> {"refreshable", "merged", "blocked"}]
  /\ \A h \in Handlers : /\ handler[h].on \in Lifecycle \cup {"none"}
                         /\ Cardinality(handler[h].todo) <= MatchLimit
                         /\ handler[h].on = "none" <=> handler[h].todo = {}
  /\ \A d \in acknowledged : delivered[d] # "none"

\* GitHub stops delivering what was acknowledged, so by then every publication
\* the delivery named has been looked up since, or can no longer be refreshed:
\* also when an earlier arrival failed half way or its process stopped.
AcknowledgedMeansRefreshed ==
  \A d \in acknowledged : \A p \in due[d] : p \in lookedUp[d] \/ pull[p] # "refreshable"

\* An installation's snapshots are one per recorded delivery, in the order the
\* deliveries were first received, however often they arrive.
OneSnapshotPerDelivery ==
  /\ {installation[i] : i \in DOMAIN installation} =
       {d \in Installations : delivered[d] # "none"}
  /\ \A i, j \in DOMAIN installation : installation[i] = installation[j] => i = j

\* The payload under a delivery ID never changes.
PayloadStands ==
  [][\A d \in Deliveries : delivered[d] # "none" => delivered'[d] = delivered[d]]_webhookVars

\* What GitHub was told is received has been applied, once.
DeliveriesAreApplied ==
  /\ WebhookTypeOK
  /\ AcknowledgedMeansRefreshed
  /\ OneSnapshotPerDelivery
=============================================================================

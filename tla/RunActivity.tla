----------------------------- MODULE RunActivity -----------------------------
(***************************************************************************)
(* What agents do is observed in memory, stored in batches, and polled by  *)
(* the page on which a person watches one run.  Several processes observe  *)
(* and share the store; the page reads the run's lane from the board,      *)
(* which it loads on a timer of its own.  The runtime that emits and the   *)
(* run's own progress are external.                                        *)
(***************************************************************************)
EXTENDS Naturals, Sequences, FiniteSets, Functions

CONSTANTS
  Processes,    \* the server, the one after its restart, standalone agents
  Limit,        \* rows of one answer (400 in the code)
  MaxEvents,    \* bound: observations
  MaxFailures,  \* bound: batches SQLite refuses, and answers lost on the way
  MaxStarts     \* bound: attempts the run starts

ASSUME ActivityAssumption == Limit \in Nat \ {0} /\ {MaxEvents, MaxFailures, MaxStarts} \subseteq Nat

\* The lanes in which the run is at work, and who emits in each of them.
Live     == {"working", "review"}
Lanes    == Live \cup {"ready", "settled"}
Contexts == {"working", "review", "another run"}

VARIABLES
  alive,       \* processes that have not ended
  emitted,     \* observations each process delivered
  queue,       \* state.queue of each process: [from, n, context, row]
  scheduled,   \* flushScheduled
  recorded,    \* flue_observations, by id
  lane,        \* the lane of the run, which the ledger decides
  reviewed,    \* a review row exists
  starts,
  card,        \* the lane on the board the page loaded last
  view,        \* the page: closed, waiting, answered or stopped
  after,       \* the highest id it has seen
  reply,       \* the ids in the answer on its way
  shown,       \* the ids it shows, in the order of the stream
  failures

activityVars == <<alive, emitted, queue, scheduled, recorded, lane, reviewed, starts, card, view,
                  after, reply, shown, failures>>
pageVars     == <<card, view, after, reply, shown>>
storeVars    == <<alive, emitted, queue, scheduled, recorded>>

ActivityInit ==
  /\ alive = Processes /\ emitted = [p \in Processes |-> 0]
  /\ queue = [p \in Processes |-> <<>>] /\ scheduled = [p \in Processes |-> FALSE]
  /\ recorded = <<>>
  /\ lane = "ready" /\ reviewed = FALSE /\ starts = 0
  /\ card = "ready" /\ view = "closed" /\ after = 0 /\ reply = {} /\ shown = <<>>
  /\ failures = 0

(***************************************************************************)
(* The observer                                                            *)
(***************************************************************************)
\* The observer queues and schedules one flush.
Observe(p, context, row) ==
  /\ p \in alive /\ SumFunction(emitted) < MaxEvents
  /\ IF context = "another run" THEN row ELSE context = lane
  /\ emitted' = [emitted EXCEPT ![p] = @ + 1]
  /\ queue' = [queue EXCEPT ![p] = Append(@, [from |-> p, n |-> emitted'[p], context |-> context,
                                              row |-> row])]
  /\ scheduled' = [scheduled EXCEPT ![p] = TRUE]
  /\ UNCHANGED <<alive, recorded, lane, reviewed, starts, failures, pageVars>>

\* Fault: a batch that could not be stored is not queued again.
Dropped(batch) == <<>>

\* The batch that could not be stored stays ahead of what comes.
Requeued(batch) == batch

\* flush: the microtask that stores the queue in one transaction.
Flush(p) ==
  /\ p \in alive /\ scheduled[p]
  /\ scheduled' = [scheduled EXCEPT ![p] = FALSE]
  /\ \/ /\ recorded' = recorded \o queue[p] /\ queue' = [queue EXCEPT ![p] = <<>>]
        /\ UNCHANGED failures
     \/ /\ failures < MaxFailures /\ failures' = failures + 1
        /\ queue' = [queue EXCEPT ![p] = Requeued(@)] /\ UNCHANGED recorded
  /\ UNCHANGED <<alive, emitted, lane, reviewed, starts, pageVars>>

\* A process ends: with a last flush on beforeExit, or abruptly.
Exit(p) ==
  /\ p \in alive /\ alive' = alive \ {p}
  /\ \E last \in {queue[p], <<>>} : recorded' = recorded \o last
  /\ queue' = [queue EXCEPT ![p] = <<>>] /\ scheduled' = [scheduled EXCEPT ![p] = FALSE]
  /\ UNCHANGED <<emitted, lane, reviewed, starts, failures, pageVars>>

(***************************************************************************)
(* The run                                                                 *)
(***************************************************************************)
\* The attempt or the review has its row before its agent emits anything.
RunAdvances ==
  /\ \/ lane \in {"ready", "settled"} /\ starts < MaxStarts
        /\ lane' = "working" /\ starts' = starts + 1
     \/ lane = "working" /\ lane' \in {"review", "settled"} /\ UNCHANGED starts
     \/ lane = "review" /\ lane' = "settled" /\ UNCHANGED starts
  /\ reviewed' = (reviewed \/ lane' = "review")
  /\ UNCHANGED <<storeVars, pageVars, failures>>

(***************************************************************************)
(* The page                                                                *)
(***************************************************************************)
\* The contexts whose names start with the id of an attempt or review of this run.
OfRun(event) == event.context = "working" \/ (event.context = "review" /\ reviewed)

\* activity: the first rows after those the page has seen.
Activity(seen) ==
  LET ids == {i \in DOMAIN recorded : i > seen /\ OfRun(recorded[i])}
  IN  {i \in ids : Cardinality({j \in ids : j < i}) < Limit}

\* The page opens with the board as it was loaded, perhaps a while ago.
Open ==
  /\ view = "closed" /\ view' = "waiting" /\ card' \in {"ready", lane}
  /\ UNCHANGED <<storeVars, lane, reviewed, starts, after, reply, shown, failures>>

\* The route answers in one stretch; an error leaves the timer to ask again.
Serve ==
  /\ view = "waiting" /\ view' = "answered" /\ reply' = Activity(after)
  /\ UNCHANGED <<storeVars, lane, reviewed, starts, card, after, shown, failures>>

Lose ==
  /\ view = "answered" /\ failures < MaxFailures /\ failures' = failures + 1
  /\ view' = "waiting" /\ reply' = {}
  /\ UNCHANGED <<storeVars, lane, reviewed, starts, card, after, shown>>

\* s lists the ids in their order, each once.
Ascending(s, ids) == Range(s) = ids /\ \A i, j \in DOMAIN s : i < j => s[i] < s[j]

\* The page has seen the highest id that came, if any came.
Seen(ids) == {i \in ids \cup {after} : \A j \in ids : j <= i}

\* tick, after the answer: not every observation makes a row.  The page asks no
\* more once the board shows no work and nothing came.
Paint ==
  /\ view = "answered" /\ reply' = {} /\ after' \in Seen(reply)
  /\ LET rows == {i \in reply : recorded[i].row} IN
       \E painted \in [1..Cardinality(rows) -> rows] :
         Ascending(painted, rows) /\ shown' = shown \o painted
  /\ view' = IF card \notin Live /\ reply = {} THEN "stopped" ELSE "waiting"
  /\ UNCHANGED <<storeVars, lane, reviewed, starts, card, failures>>

LoadBoard ==
  /\ view # "closed" /\ card # lane /\ card' = lane
  /\ UNCHANGED <<storeVars, lane, reviewed, starts, view, after, reply, shown, failures>>

ActivityNext ==
  \/ \E p \in Processes :
       \/ \E context \in Contexts, row \in BOOLEAN : Observe(p, context, row)
       \/ Flush(p) \/ Exit(p)
  \/ RunAdvances \/ Open \/ Serve \/ Lose \/ Paint \/ LoadBoard

ActivitySpec == ActivityInit /\ [][ActivityNext]_activityVars

(***************************************************************************)
(* Properties                                                              *)
(***************************************************************************)
\* Lanes and page states are of their kinds, the page never runs ahead of the store,
\* and a queued observation is flushed, or follows a batch that was refused.
ActivityTypeOK ==
  /\ {lane, card} \subseteq Lanes /\ view \in {"closed", "waiting", "answered", "stopped"}
  /\ after \in 0..Len(recorded) /\ reply \cup Range(shown) \subseteq 1..Len(recorded)
  /\ \A p \in Processes : queue[p] # <<>> => p \in alive /\ (scheduled[p] \/ failures > 0)

\* docs/observability.md: failed batches remain queued, and only an abrupt end loses
\* the final batch.  What a process emitted is stored in its order, without a gap,
\* followed by what it still queues.
StoredWithoutGap ==
  \A p \in Processes : \E stored \in 0..emitted[p] :
    LET ids == {i \in DOMAIN recorded : recorded[i].from = p}
    IN  /\ {recorded[i].n : i \in ids} = 1..stored
        /\ \A i, j \in ids : i < j => recorded[i].n < recorded[j].n
        /\ \A k \in DOMAIN queue[p] : queue[p][k].n = stored + k
        /\ p \in alive => stored + Len(queue[p]) = emitted[p]

\* The page shows every row of the run up to the last it has seen, each once and in
\* order: though several processes store, answers are limited and lost, the review
\* joins later, and other runs' rows lie between.
StreamIsComplete ==
  Ascending(shown, {i \in 1..after : OfRun(recorded[i]) /\ recorded[i].row})

\* What processes observed is stored in order and shown in full.
ActivityIsComplete ==
  /\ ActivityTypeOK
  /\ StoredWithoutGap
  /\ StreamIsComplete
=============================================================================

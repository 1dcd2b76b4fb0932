----------------------------- MODULE Telemetry -----------------------------
(***************************************************************************)
(* Layer 3: the four collectors (metrics_collector.go, log_aggregator.go,  *)
(* trace_collector.go, event_stream.go), their storages in memory and in   *)
(* SQLite, and the queries over what was stored (correlation_engine.go).   *)
(*                                                                         *)
(* Each collector has a buffered channel.  Whoever collects stamps the     *)
(* item with the time and tries to send it; a full buffer is reported and  *)
(* the item dropped.  One goroutine a collector takes items from the       *)
(* buffer and stores them, until its context is done.  That of the event   *)
(* stream then offers the event to the subscribers of its entity and of    *)
(* "*", without waiting for any.                                           *)
(*                                                                         *)
(* The spans are all of one trace.                                         *)
(***************************************************************************)
EXTENDS Integers, FiniteSets, SequencesExt

CONSTANTS
  Item,        \* metrics, log entries, spans and events, numbered: a bound
  Entity,      \* entity IDs
  Channel,     \* the channels Subscribe makes: a bound
  Capacity,    \* of the collectors' buffers
  Pending,     \* of a subscriber's channel; 100 in the code
  Interval,    \* of an aggregation
  Limit,       \* of the rows a statement returns; 1000 in the code
  MaxTime,     \* a bound on the clock
  All,         \* the key "*"
  None

VARIABLES
  db,        \* ManagerConfig.DB is given: the storages are SQLite's
  clock,
  item,      \* what was collected
  step,      \* how far the caller who collects an item is
  buffer,    \* the channels of the collectors
  stored,    \* what the storages hold
  trace,     \* InMemoryTraceStorage.traces, or the row of the trace
  holding,   \* the event that is stored and not yet offered
  done,      \* the context is cancelled: each collector may see it later
  stopped,   \* the collectors whose goroutine has ended
  subs,      \* EventStream.subscribers, in whatever order
  pending,   \* what the subscribers' channels hold
  closed,    \* the channels that are closed
  accepted,  \* history: what was taken, in order
  failed,    \* history: what could not be stored
  received,  \* history: what was sent to each channel
  crashed    \* something was sent to a closed channel

call == <<db, clock, item, step>>
pipe == <<buffer, stored, trace, holding, failed>>
hub  == <<subs, pending, closed, received, crashed>>
vars == <<call, pipe, hub, done, stopped, accepted>>

Stream == {"metrics", "logs", "traces", "events"}
Key    == Entity \cup {All}
NoItem == [stream |-> "none", entity |-> None, time |-> 0, end |-> 0]

Init ==
  /\ db \in BOOLEAN
  /\ clock = 1
  /\ item = [i \in Item |-> NoItem]
  /\ step = [i \in Item |-> "none"]
  /\ buffer = [s \in Stream |-> <<>>]
  /\ stored = [s \in Stream |-> <<>>]
  /\ trace = None
  /\ holding = None
  /\ done = FALSE
  /\ stopped = {}
  /\ subs = [k \in Key |-> {}]
  /\ pending = [c \in Channel |-> <<>>]
  /\ closed = {}
  /\ accepted = [s \in Stream |-> <<>>]
  /\ failed = {}
  /\ received = [c \in Channel |-> <<>>]
  /\ crashed = FALSE

-----------------------------------------------------------------------------
(* Collecting *)

Tick ==
  /\ clock < MaxTime
  /\ clock' = clock + 1
  /\ UNCHANGED <<db, item, step, pipe, hub, done, stopped, accepted>>

\* The time is taken before the item is sent: two callers may send in the
\* other order.  For a span it is StartSpan that takes it.  Items are numbered
\* as they are stamped.
Stamp(i, s, e) ==
  /\ step[i] = "none"
  /\ \A j \in Item : j < i => step[j] # "none"
  /\ item' = [item EXCEPT ![i] = [stream |-> s, entity |-> e, time |-> clock, end |-> clock]]
  /\ step' = [step EXCEPT ![i] = "stamped"]
  /\ UNCHANGED <<db, clock, pipe, hub, done, stopped, accepted>>

\* Mutant: a full buffer goes unnoticed.
SendUnchecked(i, s) ==
  /\ step[i] = "stamped"
  /\ s = item[i].stream
  /\ step' = [step EXCEPT ![i] = "accepted"]
  /\ accepted' = [accepted EXCEPT ![s] = Append(@, i)]
  /\ buffer' = IF Len(buffer[s]) < Capacity
                 THEN [buffer EXCEPT ![s] = Append(@, i)] ELSE buffer

Send(i, s) ==
  /\ step[i] = "stamped"
  /\ s = item[i].stream
  /\ IF Len(buffer[s]) < Capacity
       THEN /\ step' = [step EXCEPT ![i] = "accepted"]
            /\ accepted' = [accepted EXCEPT ![s] = Append(@, i)]
            /\ buffer' = [buffer EXCEPT ![s] = Append(@, i)]
       ELSE /\ step' = [step EXCEPT ![i] = "dropped"]
            /\ UNCHANGED <<buffer, accepted>>

Collects(i, s) ==
  /\ Send(i, s)
  /\ UNCHANGED <<db, clock, item, stored, trace, holding, failed, hub, done, stopped>>

Collect(i) == Collects(i, "metrics")
Log(i)     == Collects(i, "logs")
Publish(i) == Collects(i, "events")

\* Finish, then RecordSpan
Finish(i) ==
  /\ Send(i, "traces")
  /\ item' = [item EXCEPT ![i].end = clock]
  /\ UNCHANGED <<db, clock, stored, trace, holding, failed, hub, done, stopped>>

-----------------------------------------------------------------------------
(* The goroutines of the collectors *)

Cancel ==
  /\ ~done
  /\ done' = TRUE
  /\ UNCHANGED <<call, pipe, hub, stopped, accepted>>

\* With the context done and an item there, either may be chosen.
Stop(s) ==
  /\ done
  /\ s \notin stopped
  /\ s = "events" => holding = None
  /\ stopped' = stopped \cup {s}
  /\ UNCHANGED <<call, pipe, hub, done, accepted>>

Take(s, i) ==
  /\ s \notin stopped
  /\ buffer[s] # <<>>
  /\ i = Head(buffer[s])
  /\ buffer' = [buffer EXCEPT ![s] = Tail(@)]

Stores(s, i) ==
  /\ stored' = [stored EXCEPT ![s] = Append(@, i)]
  /\ UNCHANGED failed

\* The error of the database is not looked at, and the item is gone.
Refuses(i) ==
  /\ failed' = failed \cup {i}
  /\ UNCHANGED stored

StoreItem(s) ==
  /\ \E i \in Item : Take(s, i) /\ (Stores(s, i) \/ (db /\ Refuses(i)))
  /\ UNCHANGED <<call, trace, holding, hub, done, stopped, accepted>>

StoreMetric == StoreItem("metrics")
StoreLog    == StoreItem("logs")

\* rebuildTrace: the earliest start and the latest end of the spans.
Rebuild(spans) ==
  [start |-> Min({item[i].time : i \in Range(spans)}),
   end   |-> Max({item[i].end : i \in Range(spans)}),
   of    |-> {item[i].entity : i \in Range(spans)}]

StoreSpan ==
  /\ ~db
  /\ \E i \in Item : Take("traces", i) /\ Stores("traces", i)
  /\ trace' = Rebuild(stored'["traces"])
  /\ UNCHANGED <<call, holding, hub, done, stopped, accepted>>

\* SQLiteTraceStorage: three statements, each of which may fail by itself.  The
\* row of the trace has the start and the entity of its first span and the
\* latest end; a span needs the row (foreign_keys is on).
Row(i, ok) ==
  LET row == IF trace = None /\ "row" \in ok
               THEN [start |-> item[i].time, end |-> 0, of |-> {item[i].entity}]
               ELSE trace
  IN  IF row # None /\ "end" \in ok /\ row.end < item[i].end
        THEN [row EXCEPT !.end = item[i].end] ELSE row

StoreSpanRow ==
  /\ db
  /\ \E i \in Item, ok \in SUBSET {"row", "end", "span"} :
       /\ Take("traces", i)
       /\ trace' = Row(i, ok)
       /\ IF "span" \in ok /\ trace' # None THEN Stores("traces", i) ELSE Refuses(i)
  /\ UNCHANGED <<call, holding, hub, done, stopped, accepted>>

StoreEvent ==
  /\ holding = None
  /\ \E i \in Item :
       /\ Take("events", i)
       /\ Stores("events", i) \/ (db /\ Refuses(i))
       /\ holding' = i
  /\ UNCHANGED <<call, trace, hub, done, stopped, accepted>>

Listeners == subs[item[holding].entity] \cup subs[All]

Give(f, channels) == [c \in Channel |-> IF c \in channels THEN Append(f[c], holding) ELSE f[c]]

Offer(channels) ==
  /\ holding # None
  /\ crashed' = (channels \cap closed # {})
  /\ pending' = Give(pending, channels)
  /\ received' = Give(received, channels)
  /\ UNCHANGED <<call, buffer, stored, trace, failed, subs, closed, done, stopped, accepted>>

\* Mutant: the event is offered again.
NotifyAgain ==
  /\ Offer({c \in Listeners : Len(pending[c]) < Pending})
  /\ UNCHANGED holding

\* Mutant: a subscriber whose channel is full is waited for.
NotifyWaits ==
  /\ holding # None
  /\ \A c \in Listeners : Len(pending[c]) < Pending
  /\ Offer(Listeners)
  /\ holding' = None

\* Under the read lock; a subscriber whose channel is full is passed over.
Notify ==
  /\ holding # None
  /\ Offer({c \in Listeners : Len(pending[c]) < Pending})
  /\ holding' = None

-----------------------------------------------------------------------------
(* Subscribers *)

Subscribe(k, c) ==
  /\ c \notin closed
  /\ \A key \in Key : c \notin subs[key]
  /\ subs' = [subs EXCEPT ![k] = @ \cup {c}]
  /\ UNCHANGED <<call, pipe, pending, closed, received, crashed, done, stopped, accepted>>

\* A channel that is not found is left open, so none is closed twice.
Unsubscribe(k, c) ==
  /\ c \in subs[k]
  /\ subs' = [subs EXCEPT ![k] = @ \ {c}]
  /\ closed' = closed \cup {c}
  /\ UNCHANGED <<call, pipe, pending, received, crashed, done, stopped, accepted>>

Receive(c) ==
  /\ pending[c] # <<>>
  /\ pending' = [pending EXCEPT ![c] = Tail(@)]
  /\ UNCHANGED <<call, pipe, subs, closed, received, crashed, done, stopped, accepted>>

-----------------------------------------------------------------------------
(* Queries *)

\* Mutant: the end of the range is left out.
AskedBefore(i, e, from, to) == item[i].entity = e /\ item[i].time \in from..(to - 1)

Asked(i, e, from, to) == item[i].entity = e /\ item[i].time \in from..to

\* Those of an entity in a range of times, in the order they were stored.
Found(s, e, from, to) ==
  LET found[n \in 0..Len(stored[s])] ==
        IF n = 0 THEN <<>>
        ELSE IF Asked(stored[s][n], e, from, to)
          THEN Append(found[n - 1], stored[s][n])
          ELSE found[n - 1]
  IN  found[Len(stored[s])]

\* What sorting has to choose from: equals may come in any order.
Rearranged(list) ==
  {[n \in DOMAIN list |-> list[p[n]]] : p \in Bijection(DOMAIN list, DOMAIN list)}

LatestFirst(found) == CHOOSE rows \in Rearranged(found) :
  \A m, n \in DOMAIN rows : m < n => item[rows[m]].time >= item[rows[n]].time

MemoryMetrics(e, from, to) == Found("metrics", e, from, to)
MemoryLogs(e, from, to)    == Found("logs", e, from, to)
MemoryEvents(e, from, to)  == Found("events", e, from, to)

\* The statements end in ORDER BY timestamp DESC and a LIMIT; Correlate gives none
\* of its own.
Latest(found) == SubSeq(LatestFirst(found), 1, IF Len(found) <= Limit THEN Len(found) ELSE Limit)

MetricRows(e, from, to) == Latest(Found("metrics", e, from, to))
LogRows(e, from, to)    == Latest(Found("logs", e, from, to))
EventRows(e, from, to)  == Latest(Found("events", e, from, to))

Stamps(found) == [n \in DOMAIN found |-> item[found[n]].time]

\* The one trace, if it is asked for: in memory it is that of all its spans'
\* entities and must end in the range; in the database it must start there, and a
\* row without an end (NULL) cannot be scanned.
MemoryTraces(e, from, to) ==
  IF trace # None /\ e \in trace.of /\ from <= trace.start /\ trace.end <= to
    THEN <<trace.start>> ELSE <<>>
TraceRows(e, from, to) ==
  IF trace # None /\ e \in trace.of /\ trace.start \in from..to /\ trace.end # 0
    THEN <<trace.start>> ELSE <<>>

\* Manager.Query: the times of what is found, of whichever storage there is.
Query(s, e, from, to) ==
  CASE s = "metrics" -> Stamps(IF db THEN MetricRows(e, from, to) ELSE MemoryMetrics(e, from, to))
    [] s = "logs"    -> Stamps(IF db THEN LogRows(e, from, to) ELSE MemoryLogs(e, from, to))
    [] s = "traces"  -> IF db THEN TraceRows(e, from, to) ELSE MemoryTraces(e, from, to)
    [] s = "events"  -> Stamps(IF db THEN EventRows(e, from, to) ELSE MemoryEvents(e, from, to))

Entries(s, e, from, to) ==
  LET times == Query(s, e, from, to)
  IN  [n \in DOMAIN times |-> [kind |-> s, time |-> times[n]]]

\* Correlate, asked for all four types.
Collected(e, from, to) ==
  Entries("metrics", e, from, to) \o Entries("logs", e, from, to)
    \o Entries("traces", e, from, to) \o Entries("events", e, from, to)

Timeline(e, from, to) == CHOOSE line \in Rearranged(Collected(e, from, to)) :
  \A m, n \in DOMAIN line : m < n => line[m].time <= line[n].time

\* aggregateMetrics, the function being count: a point for each interval with
\* a value.
Points(times) ==
  LET start(t) == t - (t % Interval)
  IN  [t \in {start(times[n]) : n \in DOMAIN times} |->
         Cardinality({n \in DOMAIN times : start(times[n]) = t})]

\* strftime('%s', timestamp): the driver writes a time as Time.String does, with a
\* zone that SQLite's date functions do not know, so the result is NULL.
Seconds(i) == None

\* The statement groups the rows by the interval of their time; a group whose
\* interval is NULL cannot be scanned and is passed over.
PointRows(found) ==
  LET bucket(i) == IF Seconds(i) = None THEN None ELSE (Seconds(i) \div Interval) * Interval
  IN  [t \in {bucket(found[n]) : n \in DOMAIN found} \ {None} |->
         Cardinality({n \in DOMAIN found : bucket(found[n]) = t})]

Aggregate(e, from, to) ==
  LET found == Found("metrics", e, from, to)
  IN  IF db THEN PointRows(found) ELSE Points(Stamps(found))

-----------------------------------------------------------------------------
Caller == \E i \in Item :
  Collect(i) \/ Log(i) \/ Publish(i) \/ Finish(i) \/ \E s \in Stream, e \in Entity : Stamp(i, s, e)

Process(s) ==
  \/ s = "metrics" /\ StoreMetric
  \/ s = "logs" /\ StoreLog
  \/ s = "traces" /\ (StoreSpan \/ StoreSpanRow)
  \/ s = "events" /\ (StoreEvent \/ Notify)

Subscriber == \E c \in Channel :
  Receive(c) \/ \E k \in Key : Subscribe(k, c) \/ Unsubscribe(k, c)

\* A send to a closed channel ends the program.
Next ==
  /\ ~crashed
  /\ Tick \/ Caller \/ Subscriber \/ Cancel \/ \E s \in Stream : Process(s) \/ Stop(s)

\* The goroutines of the collectors are scheduled.
Fairness == \A s \in Stream : WF_vars(~crashed /\ Process(s))

Spec == Init /\ [][Next]_vars /\ Fairness

-----------------------------------------------------------------------------
(* Properties *)

\* s has elements of t, none of them twice, in the order of t.
InOrder(s, t) ==
  /\ Range(s) \subseteq Range(t)
  /\ \A m, n \in DOMAIN s, i, j \in DOMAIN t :
       m < n /\ s[m] = t[i] /\ s[n] = t[j] => i < j

\* What a collector has taken (Collect returned no error) is stored, refused by
\* the database, or in the buffer: once, and in the order it was taken, so
\* nothing overtakes and nothing is dropped without an error.
NothingLost == \A s \in Stream :
  LET kept == stored[s] \o buffer[s]
  IN  /\ InOrder(kept, accepted[s])
      /\ Range(kept) = Range(accepted[s]) \ failed

\* A subscriber is sent events once, in the order of Publish, and none that a
\* query could not have found first (or the database has refused); and nothing
\* is ever sent to a channel that Unsubscribe has closed.
SubscribersServed ==
  /\ ~crashed
  /\ \A c \in Channel :
       /\ InOrder(received[c], accepted["events"])
       /\ Range(received[c]) \subseteq Range(stored["events"]) \cup failed

\* What is stored of an entity in a range of times.
At(s, n) == item[stored[s][n]].time
Within(s, e, from, to) ==
  {n \in DOMAIN stored[s] : item[stored[s][n]].entity = e /\ At(s, n) \in from..to}

\* A timeline is in order and has what is stored as often as it is stored.  Where a
\* statement returned as many rows as it may, what was stored before all of them
\* may be missing.
TimelineRight(e, from, to) ==
  LET line == Timeline(e, from, to)
  IN  /\ \A m, n \in DOMAIN line : m < n => line[m].time <= line[n].time
      /\ \A s \in Stream \ {"traces"}, t \in 1..MaxTime :
           LET shown == Cardinality({n \in DOMAIN line : line[n] = [kind |-> s, time |-> t]})
               there == Cardinality({n \in Within(s, e, from, to) : At(s, n) = t})
               times == Query(s, e, from, to)
           IN  /\ shown <= there
               /\ shown < there => db /\ Len(times) = Limit /\ \A n \in DOMAIN times : t <= times[n]

\* The trace of any span of the entity is found, at the start of the earliest.
TraceShown(e) ==
  Within("traces", e, 1, MaxTime) # {} =>
    \E i \in Range(stored["traces"]) :
      /\ [kind |-> "traces", time |-> item[i].time] \in Range(Timeline(e, 1, MaxTime))
      /\ \A j \in Range(stored["traces"]) : item[i].time <= item[j].time

\* The points count the metrics of intervals that do not meet, each metric in one.
PointsExact(e, from, to) ==
  LET points == Aggregate(e, from, to)
      Between(t) == {n \in Within("metrics", e, from, to) : At("metrics", n) \in t..(t + Interval - 1)}
  IN  /\ \A t \in DOMAIN points : points[t] = Cardinality(Between(t))
      /\ \A n \in Within("metrics", e, from, to) : \E t \in DOMAIN points : n \in Between(t)
      /\ \A t, u \in DOMAIN points : t < u => t + Interval <= u

\* Every timeline is right, from memory or the database, but for the traces and the
\* aggregations of the database: it finds a trace by its first span only, and its
\* aggregations have no points.
QueriesRight == \A e \in Entity, from \in 1..MaxTime, to \in 1..MaxTime :
  /\ TimelineRight(e, from, to)
  /\ ~db => TraceShown(e) /\ PointsExact(e, from, to)

\* What was taken is stored in the end, or refused by the database, and an event
\* has been offered, unless the collector is stopped first: no subscriber can
\* hold up the event stream.
Recorded == <>[](\A i \in Item : step[i] = "accepted" => \E s \in Stream :
  /\ s = item[i].stream
  /\ s \in stopped \/ (holding # i /\ (Contains(stored[s], i) \/ i \in failed)))
=============================================================================

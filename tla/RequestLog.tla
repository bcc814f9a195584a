----------------------------- MODULE RequestLog -----------------------------
(***************************************************************************)
(* The request log (src/core/logging.rs): HttpTrace around every request,  *)
(* the worker thread that owns requests.db, the hourly clean and the       *)
(* ten-minute maintenance (src/main.rs), and one reader, the insights      *)
(* report (src/site/account/insights.rs).                                  *)
(*                                                                         *)
(* Handlers and timers only send messages; the worker is alone at the      *)
(* database.  An entry goes from the channel to the worker's buffer to the *)
(* table.  Time is counted in retention units: the 45 days the clean keeps *)
(* are Retention, the ranges a report may ask for are Span.                *)
(***************************************************************************)
EXTENDS Naturals, Sequences, FiniteSets, SequencesExt

CONSTANTS Request,     \* the requests that come in
          Retention,   \* how long the clean keeps an entry
          Span,        \* how far back a report may look
          MaxNow,      \* bound on the clock
          MaxReports,  \* bound on the reports asked for
          MaxChan      \* bound on the channel, which has none

ASSUME RetentionOutlastsReports ==
    /\ Retention \in Nat /\ MaxReports \in Nat /\ MaxChan \in Nat
    /\ MaxNow \in Nat /\ MaxNow >= Retention
    /\ Span \subseteq Nat
    /\ \A s \in Span : s + 1 < Retention

VARIABLES now,      \* the clock
          serving,  \* "up", or "closed" when every sender is gone
          phase,    \* per request: "new", "running", "answered", "dropped"
          ts,       \* per request: when it came in
          chan,     \* the crossbeam channel
          worker,   \* "running" or "gone"
          buffer,   \* entries received, not inserted
          overdue,  \* last_insert.elapsed() >= 5 s
          table,    \* how many rows of requests.db a request has
          report    \* the insights report under way
logVars == <<now, serving, phase, ts, chan, worker, buffer, overdue, table, report>>
server == <<now, serving>>
requests == <<phase, ts>>
database == <<worker, buffer, overdue, table>>

Part == {"summary", "routes", "consumers"}
Message == [kind : {"log"}, of : Request] \cup [kind : {"clean", "maintain"}]
           \cup [kind : {"query"}, of : Part, no : 0..MaxReports]

Room(n) == Len(chan) + n <= MaxChan
Send(m) == Room(1) /\ chan' = Append(chan, m)
Queued(kind) == \E i \in DOMAIN chan : chan[i].kind = kind

-----------------------------------------------------------------------------
(* A request through HttpTrace: stamped when it comes in, logged when its   *)
(* response is ready.  A future dropped before that logs nothing.           *)

Begin(r) ==
    /\ serving = "up"
    /\ phase[r] = "new"
    /\ phase' = [phase EXCEPT ![r] = "running"]
    /\ ts' = [ts EXCEPT ![r] = now]
    /\ UNCHANGED <<server, chan, database, report>>

Respond(r) ==
    /\ phase[r] = "running"
    /\ phase' = [phase EXCEPT ![r] = "answered"]
    /\ Send([kind |-> "log", of |-> r])
    /\ UNCHANGED <<server, ts, database, report>>

\* the 30 s timeout or a client that went away
Drop(r) ==
    /\ phase[r] = "running"
    /\ phase' = [phase EXCEPT ![r] = "dropped"]
    /\ UNCHANGED <<server, ts, chan, database, report>>

-----------------------------------------------------------------------------
(* The timers of run_server.                                                *)

\* one of each kind in the channel at most, where the code has no bound
SendClean ==
    /\ serving # "closed" /\ ~Queued("clean")
    /\ Send([kind |-> "clean"])
    /\ UNCHANGED <<server, requests, database, report>>

SendMaintain ==
    /\ serving # "closed" /\ ~Queued("maintain")
    /\ Send([kind |-> "maintain"])
    /\ UNCHANGED <<server, requests, database, report>>

\* five seconds since the last insert
Age ==
    /\ ~overdue
    /\ overdue' = TRUE
    /\ UNCHANGED <<server, requests, chan, worker, buffer, table, report>>

\* no handler outlives the 30 s timeout: a report sees the clock turn at most once
Tick ==
    /\ now < MaxNow
    /\ report.step = "idle" \/ now = report.to
    /\ now' = now + 1
    /\ UNCHANGED <<serving, requests, chan, database, report>>

-----------------------------------------------------------------------------
(* The report: the first queries are sent together, the one for the         *)
(* consumers when they are answered.                                        *)

Idle == [no |-> report.no, step |-> "idle", from |-> 0, to |-> 0,
         answered |-> {}, seen |-> [p \in Part |-> {}]]
Query(p, n) == [kind |-> "query", of |-> p, no |-> n]

\* window: an inclusive range that ends now
Window(s) == [from |-> now - s, to |-> now]

StartReport ==
    \E s \in Span :
        /\ serving = "up"
        /\ report.step = "idle" /\ report.no < MaxReports
        /\ Room(2)
        /\ LET n == report.no + 1
               w == Window(s)
           IN  /\ report' = [Idle EXCEPT !.no = n, !.step = "joined",
                                         !.from = w.from, !.to = w.to]
               /\ chan' = chan \o <<Query("summary", n), Query("routes", n)>>
        /\ UNCHANGED <<server, requests, database>>

AskConsumers ==
    /\ report.step = "joined"
    /\ {"summary", "routes"} \subseteq report.answered
    /\ report' = [report EXCEPT !.step = "consumers"]
    /\ Send(Query("consumers", report.no))
    /\ UNCHANGED <<server, requests, database>>

\* answered in full, failed on a query, timed out or abandoned
EndReport ==
    /\ report.step # "idle"
    /\ report' = Idle
    /\ UNCHANGED <<server, requests, chan, database>>

\* what a query of the window counts
InWindow == {r \in Request : table[r] > 0 /\ ts[r] \in report.from .. report.to}

Answer(m) ==
    IF m.kind = "query" /\ m.no = report.no /\ report.step # "idle"
    THEN report' = [report EXCEPT !.answered = @ \cup {m.of}, !.seen[m.of] = InWindow]
    ELSE UNCHANGED report

-----------------------------------------------------------------------------
(* The worker thread.                                                       *)

\* mutant: the clean goes as far as the oldest range a report may ask for
CleanedToWindow ==
    [r \in Request |-> IF \E s \in Span : s > 0 /\ ts[r] <= now - s THEN 0 ELSE table[r]]
Cleaned == [r \in Request |-> IF ts[r] <= now - Retention THEN 0 ELSE table[r]]

\* mutant: entries are only written on the way of another entry
FlushesOnLog(m, kept) == kept # {} /\ overdue /\ m.kind = "log"
Flushes(m, kept) == kept # {} /\ (overdue \/ m.kind = "maintain")

\* mutant: a batch stays in the buffer after it was written
InsertKeeping(kept, rows) ==
    \E ok \in BOOLEAN :
        /\ table' = IF ok THEN [r \in Request |-> rows[r] + (IF r \in kept THEN 1 ELSE 0)] ELSE rows
        /\ buffer' = kept
        /\ overdue' = FALSE
\* one transaction; the batch is drained whether it commits or not
Insert(kept, rows) ==
    \E ok \in BOOLEAN :
        /\ table' = IF ok THEN [r \in Request |-> rows[r] + (IF r \in kept THEN 1 ELSE 0)] ELSE rows
        /\ buffer' = {}
        /\ overdue' = FALSE

\* a clean that fails leaves the rows
RowsAfter(m) == IF m.kind = "clean" THEN {Cleaned, table} ELSE {table}

Receive ==
    /\ worker = "running" /\ chan # <<>>
    /\ chan' = Tail(chan)
    /\ LET m == Head(chan)
           kept == IF m.kind = "log" THEN buffer \cup {m.of} ELSE buffer
       IN  /\ Answer(m)
           /\ \E rows \in RowsAfter(m) :
                IF Flushes(m, kept) THEN Insert(kept, rows)
                ELSE table' = rows /\ buffer' = kept /\ UNCHANGED overdue
    /\ UNCHANGED <<server, requests, worker>>

\* recv fails once every sender is gone and the channel is empty
FinalFlush ==
    /\ worker = "running" /\ serving = "closed" /\ chan = <<>>
    /\ worker' = "gone"
    /\ IF buffer # {} THEN Insert(buffer, table) ELSE UNCHANGED <<table, buffer, overdue>>
    /\ UNCHANGED <<server, requests, chan, report>>

-----------------------------------------------------------------------------
(* Shutdown and restart.  Nobody joins the worker: the process may end with *)
(* entries in the channel and in the buffer, as after a crash.              *)

InFlight == report.step # "idle" \/ \E r \in Request : phase[r] = "running"

\* mutant: the senders go with the signal, before the handlers are done
MayCloseAtOnce == serving = "up"
MayClose == serving = "up" /\ ~InFlight

\* after the signal axum::serve waits for the handlers; the runtime is dropped
Close ==
    /\ MayClose
    /\ serving' = "closed"
    /\ UNCHANGED <<now, requests, chan, database, report>>

Restart ==
    /\ serving' = "up"
    /\ phase' = [r \in Request |-> IF phase[r] = "running" THEN "dropped" ELSE phase[r]]
    /\ chan' = <<>>
    /\ worker' = "running"
    /\ buffer' = {}
    /\ overdue' = FALSE
    /\ report' = Idle
    /\ UNCHANGED <<now, ts, table>>

-----------------------------------------------------------------------------
LogInit ==
    /\ now = Retention
    /\ serving = "up"
    /\ phase = [r \in Request |-> "new"]
    /\ ts = [r \in Request |-> 0]
    /\ chan = <<>>
    /\ worker = "running"
    /\ buffer = {}
    /\ overdue = FALSE
    /\ table = [r \in Request |-> 0]
    /\ report = [no |-> 0, step |-> "idle", from |-> 0, to |-> 0,
                 answered |-> {}, seen |-> [p \in Part |-> {}]]

LogNext ==
    \/ \E r \in Request : Begin(r) \/ Respond(r) \/ Drop(r)
    \/ SendClean \/ SendMaintain \/ Age \/ Tick
    \/ StartReport \/ AskConsumers \/ EndReport
    \/ Receive \/ FinalFlush
    \/ Close \/ Restart

\* a thread that has a message takes it; a timer fires; time passes
Fairness ==
    /\ WF_logVars(Receive) /\ WF_logVars(FinalFlush)
    /\ WF_logVars(SendMaintain) /\ WF_logVars(Age)

LogSpec == LogInit /\ [][LogNext]_logVars /\ Fairness

-----------------------------------------------------------------------------
\* The variables stay in their sets; a request has at most one row.
LogTypeOK ==
    /\ now \in Retention..MaxNow
    /\ serving \in {"up", "closed"}
    /\ phase \in [Request -> {"new", "running", "answered", "dropped"}]
    /\ ts \in [Request -> 0..MaxNow]
    /\ chan \in Seq(Message)
    /\ worker \in {"running", "gone"}
    /\ buffer \subseteq Request
    /\ overdue \in BOOLEAN
    /\ table \in [Request -> 0..1]
    /\ report \in [no : 0..MaxReports, step : {"idle", "joined", "consumers"},
                   from : 0..MaxNow, to : 0..MaxNow,
                   answered : SUBSET Part, seen : [Part -> SUBSET Request]]

Places(r) ==
    Cardinality({i \in DOMAIN chan : chan[i].kind = "log" /\ chan[i].of = r})
    + (IF r \in buffer THEN 1 ELSE 0) + table[r]

\* A request is logged at most once, whatever fails or stops on the way, and
\* only after its response was made: over the channel, the worker's buffer and
\* the table an entry is in one place.
LoggedOnce ==
    \A r \in Request :
        /\ Places(r) <= 1
        /\ Places(r) = 1 => phase[r] = "answered"

\* "unexpected channel termination: should be unreachable" (RequestLogger::call):
\* as long as a report waits for an answer, its query is in the channel and the
\* worker is there to take it.
ReadersAreAnswered ==
    \A p \in Part :
        /\ \/ report.step = "joined" /\ p # "consumers"
           \/ report.step = "consumers" /\ p = "consumers"
        /\ p \notin report.answered
        => /\ worker = "running" /\ serving # "closed"
           /\ Contains(chan, Query(p, report.no))

\* The parts of one report are queries of their own, with writes and cleans in
\* between; yet what an earlier one counted a later one counts as well.
ReportGrows ==
    /\ {"summary", "routes"} \subseteq report.answered
          => report.seen["summary"] \subseteq report.seen["routes"]
    /\ "consumers" \in report.answered
          => report.seen["routes"] \subseteq report.seen["consumers"]

Pending(r) == r \in buffer \/ Contains(chan, [kind |-> "log", of |-> r])

\* No entry stays in the channel or the buffer for ever: on a quiet server, with
\* no later request to carry it, the timers' messages get it written (or a
\* failed batch or a stop loses it).
EntriesLand == \A r \in Request : Pending(r) ~> ~Pending(r)
=============================================================================

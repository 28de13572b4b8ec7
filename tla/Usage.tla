------------------------------- MODULE Usage -------------------------------
(***************************************************************************)
(* Request logs, the running totals beside them, what the dashboards read  *)
(* of both, and the removal of old logs (services/logging_service.py,      *)
(* services/usage_stats.py, routers/stats.py, routers/insights.py,         *)
(* routers/logs.py).  A log is saved when its request is settled, which    *)
(* may be days after the answer; tokens and costs are summed like the      *)
(* requests and are left out.                                              *)
(***************************************************************************)
EXTENDS Integers, FiniteSets, FiniteSetsExt

CONSTANTS
    Calls,        \* requests
    FactsOf,      \* [request -> [key, tenant, model, channel, session, failed, audited]]
    Settled,      \* those that are billed: the others are logged at once
    NoChannel, NoTenant, NoSession,
    Internal,     \* tenants of the system itself
    LastDay,      \* bound on the days
    Retention,    \* log_retention_days, 0 to keep everything
    Sweepers,     \* workers that remove old logs
    MaxStops      \* bound on the workers that exit in the middle of something

ASSUME UsageAssumption ==
    /\ IsFiniteSet(Calls) /\ Settled \subseteq Calls
    /\ LastDay \in Nat /\ Retention \in Nat /\ MaxStops \in Nat

VARIABLES
    today,
    observed,     \* [request -> the day of its answer, or NoDay]
    stamp,        \* [request -> created_at of its log, or NoDay]
    logs,         \* requests with a row in request_logs
    bodies,       \* requests with a row in request_log_audits
    daily,        \* usage_daily: [requests, errors] of [day, key, model, channel, tenant]
    minute,       \* [day -> requests of its minute], one minute a day
    peak,         \* [day -> the busiest minute known]
    watch,        \* [request -> [at, count]]: the observation after the log
    sweptToday,   \* whether a worker has claimed the cleanup of today
    sweep,        \* [sweeper -> [at, ids]]
    stops

usageVars == <<today, observed, stamp, logs, bodies, daily, minute, peak, watch, sweptToday, sweep, stops>>

NoDay == -1
Days == 0..LastDay
Field(r, field) == FactsOf[r][field]
GroupOf(r, day) == [day |-> day, key |-> Field(r, "key"), model |-> Field(r, "model"), channel |-> Field(r, "channel"),
                    tenant |-> Field(r, "tenant")]
Groups == {GroupOf(r, d) : r \in Calls, d \in Days}
Nothing == [requests |-> 0, errors |-> 0]

InitUsage ==
    /\ today = 0 /\ observed = [r \in Calls |-> NoDay] /\ stamp = [r \in Calls |-> NoDay]
    /\ logs = {} /\ bodies = {} /\ daily = [g \in Groups |-> Nothing]
    /\ minute = [d \in Days |-> 0] /\ peak = [d \in Days |-> 0]
    /\ watch = [r \in Calls |-> [at |-> "no", count |-> 0]]
    /\ sweptToday = FALSE /\ sweep = [s \in Sweepers |-> [at |-> "sleeps", ids |-> {}]] /\ stops = 0

logPart   == <<observed, stamp, logs, bodies, daily>>
sweepPart == <<sweptToday, sweep>>
peakPart  == <<minute, peak, watch>>

----------------------------------------------------------------------------
(* Logs and totals *)

\* _bill_and_log keeps the moment in the payload of the settlement
Ended(r) ==
    /\ observed[r] = NoDay /\ observed' = [observed EXCEPT ![r] = today]
    /\ UNCHANGED <<today, stamp, logs, bodies, daily, peakPart, sweepPart, stops>>

\* Mutant of Stamp: the log would be of the day on which it is saved
StampSaved(r) == IF stamp[r] = NoDay THEN today ELSE stamp[r]

Stamp(r) == IF r \in Settled THEN observed[r] ELSE today

\* _upsert_sql: a new row, or its sums and the latest names
Counted(r, day) ==
    [daily EXCEPT ![GroupOf(r, day)] =
        [requests |-> @.requests + 1, errors |-> @.errors + IF Field(r, "failed") THEN 1 ELSE 0]]

\* save_request_log: the log, its body and the totals in one transaction.  If it
\* fails, a settlement comes back and any other log is lost
SaveLog(r) ==
    /\ observed[r] # NoDay /\ stamp[r] = NoDay
    /\ stamp' = [stamp EXCEPT ![r] = Stamp(r)]
    /\ logs' = logs \cup {r}
    /\ bodies' = IF Field(r, "audited") THEN bodies \cup {r} ELSE bodies
    /\ daily' = Counted(r, Stamp(r))
    /\ watch' = [watch EXCEPT ![r].at = "counts"]
    /\ UNCHANGED <<today, observed, minute, peak, sweepPart, stops>>

\* _record_minute: INCR, then the peak is read and written
CountMinute(r) ==
    /\ watch[r].at = "counts"
    /\ minute' = [minute EXCEPT ![stamp[r]] = @ + 1]
    /\ watch' = [watch EXCEPT ![r] = [at |-> "reads", count |-> minute'[stamp[r]]]]
    /\ UNCHANGED <<today, logPart, peak, sweepPart, stops>>

ReadPeak(r) ==
    /\ watch[r].at = "reads"
    /\ watch' = [watch EXCEPT ![r].at = IF watch[r].count > peak[stamp[r]] THEN "writes" ELSE "no"]
    /\ UNCHANGED <<today, logPart, minute, peak, sweepPart, stops>>

WritePeak(r) ==
    /\ watch[r].at = "writes"
    /\ peak' = [peak EXCEPT ![stamp[r]] = watch[r].count]
    /\ watch' = [watch EXCEPT ![r].at = "no"]
    /\ UNCHANGED <<today, logPart, minute, sweepPart, stops>>

\* observe_request_log: a worker that exits, or Redis, may leave it undone
Unobserved(r) ==
    /\ watch[r].at # "no" /\ stops < MaxStops /\ stops' = stops + 1
    /\ watch' = [watch EXCEPT ![r].at = "no"]
    /\ UNCHANGED <<today, logPart, minute, peak, sweepPart>>

----------------------------------------------------------------------------
(* Removal *)

\* log_cleanup_loop: one worker a day
Claim(s) ==
    /\ sweep[s].at = "sleeps" /\ ~sweptToday /\ sweptToday' = TRUE
    /\ sweep' = [sweep EXCEPT ![s].at = IF Retention > 0 THEN "picks" ELSE "sleeps"]
    /\ UNCHANGED <<today, logPart, peakPart, stops>>

\* cleanup_old_logs: a batch of logs of before the cutoff, however late they were
\* saved; their bodies; the logs; until there are none.  The cutoff is a time of
\* day, `later` or not than the logs of its day
PickLogs(s) ==
    /\ sweep[s].at = "picks"
    /\ \E later \in BOOLEAN : LET old == {r \in logs : stamp[r] + Retention < IF later THEN today + 1 ELSE today} IN
       sweep' = [sweep EXCEPT ![s] = IF old = {} THEN [at |-> "sleeps", ids |-> {}] ELSE [at |-> "bodies", ids |-> old]]
    /\ UNCHANGED <<today, logPart, peakPart, sweptToday, stops>>

DropBodies(s) ==
    /\ sweep[s].at = "bodies" /\ bodies' = bodies \ sweep[s].ids
    /\ sweep' = [sweep EXCEPT ![s].at = "logs"]
    /\ UNCHANGED <<today, observed, stamp, logs, daily, peakPart, sweptToday, stops>>

DropLogs(s) ==
    /\ sweep[s].at = "logs" /\ logs' = logs \ sweep[s].ids
    /\ sweep' = [sweep EXCEPT ![s].at = "picks"]
    /\ UNCHANGED <<today, observed, stamp, bodies, daily, peakPart, sweptToday, stops>>

\* The worker exits, or the database fails: the claim stays for the day
StopSweep(s) ==
    /\ sweep[s].at # "sleeps" /\ stops < MaxStops /\ stops' = stops + 1
    /\ sweep' = [sweep EXCEPT ![s] = [at |-> "sleeps", ids |-> {}]]
    /\ UNCHANGED <<today, logPart, peakPart, sweptToday>>

NextDay ==
    /\ today < LastDay /\ today' = today + 1 /\ sweptToday' = FALSE
    /\ UNCHANGED <<logPart, peakPart, sweep, stops>>

----------------------------------------------------------------------------
(* What the dashboards show of the totals *)

\* start_day: the first day of a window that ends today
StartDay(days) == today - days + 1

\* _totals over the rows that are chosen
Totals(rows) == [requests |-> SumFunctionOnSet([g \in Groups |-> daily[g].requests], rows),
                 errors   |-> SumFunctionOnSet([g \in Groups |-> daily[g].errors], rows)]
Since(days) == {g \in Groups : g.day >= StartDay(days)}

Overview         == [all |-> Totals(Groups), today |-> Totals({g \in Groups : g.day = today})]
UsageOn(d)       == Totals({g \in Groups : g.day = d})
ErrorRate(d)     == <<UsageOn(d).errors, UsageOn(d).requests>>
ByModel(m, days) == Totals({g \in Since(days) : g.model = m})
ByKey(k, days)   == Totals({g \in Since(days) : g.key = k})
ByTeam(t, days)  == IF t \in Internal \cup {NoTenant} THEN Nothing ELSE Totals({g \in Since(days) : g.tenant = t})
ByChannel(c, days) == Totals({g \in Since(days) : g.channel = c})
\* cache_stats sums the same rows, and shows channels without "no channel"
CacheStats(c, days) == IF c = NoChannel THEN Nothing ELSE ByChannel(c, days)

(* And of the logs *)

Sessions(s, days) == {r \in logs : stamp[r] >= StartDay(days) /\ Field(r, "session") = s /\ s # NoSession}
ListLogs(field, v) == {r \in logs : Field(r, field) = v}
LogAudit(r)      == r \in logs /\ Field(r, "audited") /\ r \in bodies

----------------------------------------------------------------------------

NextUsage ==
    \/ NextDay
    \/ \E r \in Calls : Ended(r) \/ SaveLog(r) \/ CountMinute(r) \/ ReadPeak(r) \/ WritePeak(r) \/ Unobserved(r)
    \/ \E s \in Sweepers : Claim(s) \/ PickLogs(s) \/ DropBodies(s) \/ DropLogs(s) \/ StopSweep(s)

SpecUsage == InitUsage /\ [][NextUsage]_usageVars

----------------------------------------------------------------------------
(* Properties *)

\* A settled request is of the day of its answer, any other of the day of its log
DayOf(r) == IF r \in Settled THEN observed[r] ELSE stamp[r]
Tally(s) == [requests |-> Cardinality(s), errors |-> Cardinality({r \in s : Field(r, "failed")})]

\* "Rows outlive log retention, so all-time totals stay correct after old logs are
\* cleaned up" (models/usage_daily.py): every view agrees with the requests that
\* were ever logged, by the day of their answer, however late they were settled.
\* A tenant's sessions and logs are those of the window that were not removed, and
\* no body is shown that cleanup left without its log.
TotalsOutliveLogs ==
    LET saved == {r \in Calls : stamp[r] # NoDay}
        within(days) == {r \in saved : DayOf(r) >= StartDay(days)}
        pick(s, field, v) == Tally({r \in s : Field(r, field) = v})
    IN  /\ Overview = [all |-> Tally(saved), today |-> Tally({r \in saved : DayOf(r) = today})]
        /\ \A d \in Days : LET s == {r \in saved : DayOf(r) = d} IN
             UsageOn(d) = Tally(s) /\ ErrorRate(d) = <<Tally(s).errors, Tally(s).requests>>
        /\ \A r \in Calls, days \in 1..2 :
             /\ ByModel(Field(r, "model"), days) = pick(within(days), "model", Field(r, "model"))
             /\ ByKey(Field(r, "key"), days) = pick(within(days), "key", Field(r, "key"))
             /\ Field(r, "tenant") \notin Internal \cup {NoTenant} =>
                  ByTeam(Field(r, "tenant"), days) = pick(within(days), "tenant", Field(r, "tenant"))
             /\ Field(r, "channel") # NoChannel =>
                  CacheStats(Field(r, "channel"), days) = pick(within(days), "channel", Field(r, "channel"))
             /\ (Retention = 0 \/ days <= Retention) =>
                  Sessions(Field(r, "session"), days)
                      = {o \in within(days) : Field(r, "session") # NoSession /\ Field(o, "session") = Field(r, "session")}
        /\ \A r \in Calls : LogAudit(r) => r \in ListLogs("key", Field(r, "key"))

\* The peak of a day is its busiest minute.  This fails: a request that counted
\* earlier may read before and write after a later one.
PeakKept == [][\A d \in Days : peak'[d] >= peak[d]]_usageVars
=============================================================================

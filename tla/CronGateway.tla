---------------------------- MODULE CronGateway ----------------------------
(***************************************************************************)
(* The agent's built-in cron gateways (internal/gitai/gateway/cron.go),    *)
(* their persistent schedules (internal/gitai/store/store.go) and the      *)
(* tools that edit them (internal/gitai/builtin/schedule.go).              *)
(*                                                                         *)
(* A gateway with source "db" polls the schedules table: it fetches the    *)
(* rows that are due, and for each dispatches the tool and then records    *)
(* the next run, two steps with everything else in between.  Any other     *)
(* gateway sleeps until the next tick of its own expression and fires.     *)
(*                                                                         *)
(* Time is in minutes of a calendar with MinutesPerHour and HoursPerDay;   *)
(* an expression has a minute and an hour field, which stand for the five. *)
(***************************************************************************)
EXTENDS Naturals, FiniteSets, FiniteSetsExt, Sequences, SequencesExt, TLC

CONSTANTS CronNames,        \* names of cron gateways
          RowIds,           \* ids of schedule rows, a bound on the table
          MinutesPerHour, HoursPerDay,
          Horizon,          \* how far Next searches (a year in the code)
          MaxTime           \* bound on the clock

ASSUME CronAssumption ==
    /\ MinutesPerHour \in Nat \ {0} /\ HoursPerDay \in Nat \ {0}
    /\ Horizon \in Nat /\ MaxTime \in Nat \ {0}
    /\ RowIds \subseteq Nat \ {0} /\ IsFiniteSet(RowIds)

VARIABLES now,        \* the clock
          rows,       \* cron_schedules, by id; survives a crash
          jobs,       \* m.jobs with the state of each job's goroutine
          cronSpecs,  \* the gateways of the last Reconcile
          cronOp,     \* the operation that holds m.mu, with its progress
          cronDone,   \* m.ctx is cancelled
          fired,      \* history: occurrences <<id, due time>> dispatched
          refired,    \* history: occurrences dispatched again
          unmarked,   \* history: occurrences whose next run was not recorded
          overtaken   \* history: ids edited while a batch held them

cronMem == <<jobs, cronSpecs, cronOp, cronDone>>
cronHist == <<fired, refired, unmarked, overtaken>>
cronVars == <<now, rows, cronMem, cronHist>>

----------------------------------------------------------------------------
(* Expressions *)

NoTick == 0

(* checkRange and parseCronField: the values a field names, or the empty   *)
(* set for an error (a parsed field is never empty).  A field is a step    *)
(* over *, a range or a start value, or *, a list, a range or one value;   *)
(* a range and a list are written with their members.                      *)
checkRange(a, b, lo, hi) == a >= lo /\ b <= hi /\ a <= b

parseCronField(f, lo, hi) ==
    LET start == IF f.form = "star" THEN lo ELSE f.from
        end   == CASE f.form = "star"  -> hi
                   [] f.form = "range" -> f.to
                   [] OTHER            -> IF f.step > 0 THEN hi ELSE f.from
    IN  IF f.form = "list"
        THEN IF f.step = 0 /\ f.vals \subseteq lo..hi THEN f.vals ELSE {}
        ELSE IF checkRange(start, end, lo, hi)
             THEN {v \in start..end : f.step = 0 \/ (v - start) % f.step = 0}
             ELSE {}

(* parseCron: an interval, or one set of values per field.                 *)
Valid(e) ==
    IF e.kind = "every" THEN e.every > 0
    ELSE /\ parseCronField(e.minute, 0, MinutesPerHour - 1) # {}
         /\ parseCronField(e.hour, 0, HoursPerDay - 1) # {}

Matches(e, t) ==
    /\ t % MinutesPerHour \in parseCronField(e.minute, 0, MinutesPerHour - 1)
    /\ (t \div MinutesPerHour) % HoursPerDay \in parseCronField(e.hour, 0, HoursPerDay - 1)

(* cronSchedule.Next and intervalSchedule.Next.  NextCronTick reports an   *)
(* error (NoTick) when the search finds nothing within the horizon.        *)
NextTick(e, t) ==
    IF e.kind = "every" THEN t + e.every
    ELSE LET ticks == {u \in (t + 1)..(t + Horizon) : Matches(e, u)}
         IN  IF ticks = {} THEN NoTick ELSE Min(ticks)

NextCronTick(e, t) == IF Valid(e) THEN NextTick(e, t) ELSE NoTick

----------------------------------------------------------------------------
(* The schedules table *)

Rows == DOMAIN rows
InBatch(id) == \E n \in DOMAIN jobs : jobs[n].db /\ \E i \in DOMAIN jobs[n].batch :
                    jobs[n].batch[i].id = id
Edited(id) == IF InBatch(id) THEN overtaken \cup {id} ELSE overtaken

NewRow(gw, e, on, next, boot) ==
    [gateway |-> gw, expr |-> e, enabled |-> on, next |-> next, boot |-> boot]

CanCreate == RowIds \ Rows # {}

(* EnsureBootstrapCronSchedule inserts at most one bootstrap row per       *)
(* gateway, whatever became of it.  Go's map gives no order to the         *)
(* gateways, which get the next ids of the table.                          *)
EnsureBootstrap(gw, e) ==
    /\ NextCronTick(e, now) # NoTick
    /\ ~\E id \in Rows : rows[id].gateway = gw /\ rows[id].boot

NextIds(gateways) ==
    {id \in [gateways -> RowIds \ Rows] :
        /\ \A m, n \in gateways : id[m] = id[n] => m = n
        /\ \A n \in gateways, r \in RowIds \ Rows : r < id[n] => \E m \in gateways : id[m] = r}

(* ListDueCronSchedules: the due rows of a gateway, by due time and id.    *)
DueRows(gw, t) == {id \in Rows : rows[id].gateway = gw /\ rows[id].enabled /\ rows[id].next <= t}
ListDueCronSchedules(gw, t) ==
    LET before(a, b) == rows[a].next < rows[b].next \/ (rows[a].next = rows[b].next /\ a < b)
    IN  {ids \in SetToSeqs(DueRows(gw, t)) : \A i, j \in DOMAIN ids : i < j => before(ids[i], ids[j])}
Fetched(ids) == [i \in DOMAIN ids |-> [id |-> ids[i], expr |-> rows[ids[i]].expr, due |-> rows[ids[i]].next]]

CronTypeOK ==
    /\ now \in 1..MaxTime
    /\ Rows \subseteq RowIds
    /\ \A id \in Rows : /\ rows[id].gateway \in CronNames
                        /\ rows[id].enabled \in BOOLEAN /\ rows[id].boot \in BOOLEAN
                        /\ rows[id].next \in Nat \ {0}
    /\ DOMAIN jobs \subseteq CronNames
    /\ \A n \in DOMAIN jobs :
          /\ jobs[n].cancelled \in BOOLEAN
          /\ jobs[n].pc \in {"idle", "batch", "mark", "sleep", "done"}
          /\ jobs[n].at \in Nat
    /\ cronDone \in BOOLEAN
    /\ fired \cup refired \cup unmarked \subseteq RowIds \X Nat
    /\ overtaken \subseteq RowIds

CronInit ==
    /\ now = 1
    /\ rows = <<>>
    /\ jobs = <<>>
    /\ cronSpecs = <<>>
    /\ cronOp = [kind |-> "idle"]
    /\ cronDone = FALSE
    /\ fired = {} /\ refired = {} /\ unmarked = {} /\ overtaken = {}

(* schedule.upsert without and with an id, and schedule.disable.  The next *)
(* run is computed when the tool runs; an expression without one is        *)
(* refused.                                                                *)

ScheduleCreate(gw, e, on) ==
    /\ CanCreate
    /\ NextCronTick(e, now) # NoTick
    /\ LET new == Min(RowIds \ Rows)
       IN  rows' = [id \in Rows \cup {new} |->
              IF id = new THEN NewRow(gw, e, on, NextCronTick(e, now), FALSE) ELSE rows[id]]
    /\ UNCHANGED <<now, cronMem, cronHist>>

\* Mutant: an edit leaves the next run of the old expression.
UpdateKeepsNext(id, e, on) ==
    /\ id \in Rows
    /\ NextCronTick(e, now) # NoTick
    /\ rows' = [rows EXCEPT ![id].expr = e, ![id].enabled = on]
    /\ UNCHANGED <<now, cronMem, cronHist>>

ScheduleUpdate(id, e, on) ==
    /\ id \in Rows
    /\ NextCronTick(e, now) # NoTick
    /\ rows' = [rows EXCEPT ![id].expr = e, ![id].enabled = on,
                            ![id].next = NextCronTick(e, now)]
    /\ overtaken' = Edited(id)
    /\ UNCHANGED <<now, cronMem, fired, refired, unmarked>>

ScheduleDisable(id) ==
    /\ id \in Rows
    /\ rows[id].enabled
    /\ rows' = [rows EXCEPT ![id].enabled = FALSE]
    /\ UNCHANGED <<now, cronMem, cronHist>>

----------------------------------------------------------------------------
(* Manager.Reconcile and Stop *)

CronUnlocked == cronOp.kind = "idle"

(* cronSpecChanged compares the source, the expression and the payload.    *)
cronSpecChanged(old, new) == old # new

(* startLocked and startDBLocked: a gateway with a bad expression gets no  *)
(* job; one with source "db" that has a bootstrap expression first ensures *)
(* its bootstrap row.                                                      *)
NewJob(spec) ==
    [spec |-> spec, db |-> spec.db, cancelled |-> cronDone, batch |-> <<>>,
     pc |-> IF spec.db THEN "idle"
            ELSE IF NextTick(spec.expr, now) = NoTick THEN "done" ELSE "sleep",
     at |-> IF spec.db THEN 0 ELSE NextTick(spec.expr, now)]

CronStartMissing(specs) ==
    LET missing == {n \in DOMAIN specs \ DOMAIN jobs : specs[n].db \/ Valid(specs[n].expr)}
        boots == {n \in missing : specs[n].db /\ specs[n].boot /\ EnsureBootstrap(n, specs[n].expr)}
    IN  /\ Cardinality(RowIds \ Rows) >= Cardinality(missing)
        /\ jobs' = [n \in DOMAIN jobs \cup missing |->
              IF n \in missing THEN NewJob(specs[n]) ELSE jobs[n]]
        /\ \E id \in NextIds(boots) :
              rows' = [r \in Rows \cup {id[n] : n \in boots} |->
                 IF r \in Rows THEN rows[r]
                 ELSE LET n == CHOOSE n \in boots : id[n] = r
                      IN  NewRow(n, specs[n].expr, TRUE, NextCronTick(specs[n].expr, now), TRUE)]

CronTodo(specs) ==
    {n \in DOMAIN jobs : n \notin DOMAIN specs \/ cronSpecChanged(jobs[n].spec, specs[n])}

(* With nothing to stop the call returns at once; otherwise it stops the   *)
(* jobs one at a time, under the lock.                                     *)
CronReconcile(by, specs) ==
    /\ CronUnlocked
    /\ IF CronTodo(specs) = {}
       THEN /\ CronStartMissing(specs)
            /\ cronSpecs' = specs
            /\ UNCHANGED cronOp
       ELSE /\ cronOp' = [kind |-> "reconcile", by |-> by, specs |-> specs,
                          waiting |-> {}, todo |-> CronTodo(specs)]
            /\ UNCHANGED <<rows, jobs, cronSpecs>>
    /\ UNCHANGED <<now, cronDone, cronHist>>

CronStopCancels ==
    /\ ~cronDone
    /\ cronDone' = TRUE
    /\ jobs' = [n \in DOMAIN jobs |-> [jobs[n] EXCEPT !.cancelled = TRUE]]
    /\ UNCHANGED <<now, rows, cronSpecs, cronOp, cronHist>>

CronStop(by) ==
    /\ cronDone
    /\ CronUnlocked
    /\ cronOp' = IF DOMAIN jobs = {} THEN cronOp
                 ELSE [kind |-> "stop", by |-> by, specs |-> cronSpecs,
                       waiting |-> {}, todo |-> DOMAIN jobs]
    /\ UNCHANGED <<now, rows, jobs, cronSpecs, cronDone, cronHist>>

CronCancelsOne(n) ==
    /\ ~CronUnlocked
    /\ cronOp.waiting = {}
    /\ n \in cronOp.todo
    /\ cronOp' = [cronOp EXCEPT !.waiting = {n}]
    /\ jobs' = [jobs EXCEPT ![n].cancelled = TRUE]
    /\ UNCHANGED <<now, rows, cronSpecs, cronDone, cronHist>>

(* <-job.done, then the job is deleted.                                    *)
CronOneEnded(n) ==
    /\ ~CronUnlocked
    /\ n \in cronOp.waiting
    /\ jobs[n].pc = "done"
    /\ cronOp' = [cronOp EXCEPT !.waiting = {}, !.todo = @ \ {n}]
    /\ jobs' = Restrict(jobs, DOMAIN jobs \ {n})
    /\ UNCHANGED <<now, rows, cronSpecs, cronDone, cronHist>>

CronReturns ==
    /\ ~CronUnlocked
    /\ cronOp.todo = {}
    /\ IF cronOp.kind = "reconcile"
       THEN CronStartMissing(cronOp.specs)
       ELSE jobs' = <<>> /\ UNCHANGED rows
    /\ cronSpecs' = cronOp.specs
    /\ cronOp' = [kind |-> "idle"]
    /\ UNCHANGED <<now, cronDone, cronHist>>

----------------------------------------------------------------------------
(* runDBJob *)

(* One poll: the due rows, as they are now.  A failed query fetches none.  *)
PollDue(n) ==
    /\ jobs[n].pc = "idle"
    /\ DueRows(n, now) # {}
    /\ \E ids \in ListDueCronSchedules(n, now) :
          jobs' = [jobs EXCEPT ![n].pc = "batch", ![n].at = now, ![n].batch = Fetched(ids)]
    /\ UNCHANGED <<now, rows, cronSpecs, cronOp, cronDone, cronHist>>

Popped(n) ==
    [jobs EXCEPT ![n].batch = Tail(@),
                 ![n].pc = IF Len(jobs[n].batch) = 1 THEN "idle" ELSE "batch"]

(* A row whose expression has no tick after the poll is disabled, and the  *)
(* occurrence that made it due is not dispatched.                          *)
DisableExhausted(n) ==
    LET row == Head(jobs[n].batch)
    IN  /\ jobs[n].pc = "batch"
        /\ NextCronTick(row.expr, jobs[n].at) = NoTick
        /\ rows' = [rows EXCEPT ![row.id].enabled = FALSE]
        /\ jobs' = Popped(n)
        /\ UNCHANGED <<now, cronSpecs, cronOp, cronDone, cronHist>>

(* m.dbDispatch.  A failure only moves the row to its next run.            *)

DispatchFails(n) ==
    LET row  == Head(jobs[n].batch)
        next == NextCronTick(row.expr, jobs[n].at)
    IN  /\ jobs[n].pc = "batch"
        /\ next # NoTick
        /\ rows' = [rows EXCEPT ![row.id].next = next]
        /\ jobs' = Popped(n)
        /\ UNCHANGED <<now, cronSpecs, cronOp, cronDone, cronHist>>

Dispatch(n) ==
    LET row == Head(jobs[n].batch)
        occ == <<row.id, row.due>>
    IN  /\ jobs[n].pc = "batch"
        /\ NextCronTick(row.expr, jobs[n].at) # NoTick
        /\ jobs' = [jobs EXCEPT ![n].pc = "mark"]
        /\ fired' = fired \cup {occ}
        /\ refired' = IF occ \in fired THEN refired \cup {occ} ELSE refired
        /\ UNCHANGED <<now, rows, cronSpecs, cronOp, cronDone, unmarked, overtaken>>

(* MarkCronScheduleTriggered, with the next run of the fetched expression. *)

MarkTriggered(n) ==
    LET row == Head(jobs[n].batch)
    IN  /\ jobs[n].pc = "mark"
        /\ rows' = [rows EXCEPT ![row.id].next = NextCronTick(row.expr, jobs[n].at)]
        /\ jobs' = Popped(n)
        /\ UNCHANGED <<now, cronSpecs, cronOp, cronDone, cronHist>>

MarkFails(n) ==
    LET row == Head(jobs[n].batch)
    IN  /\ jobs[n].pc = "mark"
        /\ jobs' = Popped(n)
        /\ unmarked' = unmarked \cup {<<row.id, row.due>>}
        /\ UNCHANGED <<now, rows, cronSpecs, cronOp, cronDone, fired, refired, overtaken>>

(* Between polls the job sees its cancellation; within a batch it does not.*)
DBJobStops(n) ==
    /\ jobs[n].pc = "idle"
    /\ jobs[n].cancelled
    /\ jobs' = [jobs EXCEPT ![n].pc = "done"]
    /\ UNCHANGED <<now, rows, cronSpecs, cronOp, cronDone, cronHist>>

(* runJob: fire at the tick it slept for, then sleep for the next.  The    *)
(* delivery of the event may fail and is not repeated (fire).              *)
FireTick(n) ==
    LET next == NextTick(jobs[n].spec.expr, now)
    IN  /\ jobs[n].pc = "sleep"
        /\ jobs[n].at <= now
        /\ jobs' = [jobs EXCEPT ![n].at = next,
                                ![n].pc = IF next = NoTick THEN "done" ELSE "sleep"]
        /\ UNCHANGED <<now, rows, cronSpecs, cronOp, cronDone, cronHist>>

JobStops(n) ==
    /\ jobs[n].pc = "sleep"
    /\ jobs[n].cancelled
    /\ jobs' = [jobs EXCEPT ![n].pc = "done"]
    /\ UNCHANGED <<now, rows, cronSpecs, cronOp, cronDone, cronHist>>

runDBJob(n) ==
    \/ PollDue(n) \/ DisableExhausted(n)
    \/ Dispatch(n) \/ DispatchFails(n)
    \/ MarkTriggered(n) \/ MarkFails(n)
    \/ DBJobStops(n)
runJob(n) == FireTick(n) \/ JobStops(n)

CronOpSteps ==
    \/ \E n \in CronNames : CronCancelsOne(n) \/ CronOneEnded(n)
    \/ CronReturns

Tick ==
    /\ now < MaxTime
    /\ now' = now + 1
    /\ UNCHANGED <<rows, cronMem, cronHist>>

(* What a crash leaves: the table.  A dispatch whose mark was pending is   *)
(* unmarked.                                                               *)
CronCrash ==
    /\ unmarked' = unmarked \cup {<<Head(jobs[n].batch).id, Head(jobs[n].batch).due>> :
                       n \in {m \in DOMAIN jobs : jobs[m].pc = "mark"}}
    /\ jobs' = <<>>
    /\ cronSpecs' = <<>>
    /\ cronOp' = [kind |-> "idle"]
    /\ cronDone' = FALSE
    /\ UNCHANGED <<now, rows, fired, refired, overtaken>>

----------------------------------------------------------------------------
(* Properties *)

(* An occurrence of a schedule is dispatched a second time only if the     *)
(* agent died, or the table refused the update, between its dispatch and   *)
(* MarkCronScheduleTriggered; in particular the job of a replaced          *)
(* configuration never runs beside its successor.                          *)
RefireOnlyAfterLostMark == refired \subseteq unmarked

(* The next run recorded for a row is a tick of the expression the row     *)
(* has, except for a row that was edited while a batch held its old        *)
(* expression: the mark then writes a next run of the old one.             *)
NextRunFollowsExpression ==
    \A id \in Rows \ overtaken :
        rows[id].expr.kind = "fields" => Matches(rows[id].expr, rows[id].next)

(* A due row of a gateway whose job runs is served: it is moved to a later *)
(* run or disabled, unless the gateway is configured away.                 *)
IsDue(id) == id \in Rows /\ rows[id].enabled /\ rows[id].next <= now
Polled(id) ==
    /\ rows[id].gateway \in DOMAIN jobs
    /\ jobs[rows[id].gateway].db /\ ~jobs[rows[id].gateway].cancelled
DueRowIsServed ==
    \A id \in RowIds : (IsDue(id) /\ Polled(id)) ~> ~(IsDue(id) /\ Polled(id))

(* The jobs, an operation in progress and the clock go on, and a mark that *)
(* is tried again and again is recorded at some time.                      *)
CronFairness ==
    /\ WF_cronVars(CronOpSteps)
    /\ \A n \in CronNames :
          /\ WF_cronVars(n \in DOMAIN jobs /\ (PollDue(n) \/ DisableExhausted(n) \/ Dispatch(n)))
          /\ SF_cronVars(n \in DOMAIN jobs /\ MarkTriggered(n))
          /\ WF_cronVars(n \in DOMAIN jobs /\ (DBJobStops(n) \/ JobStops(n)))
=============================================================================

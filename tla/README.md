# Formal models of business-land

The repository is a set of Odoo 12 addons. Its program logic is concentrated in
`queue_job` (an asynchronous job queue with its own scheduler, a runner thread,
HTTP requests and database notifications); the other addons are short
extensions of Odoo's stock and accounting models. This directory holds TLA+
models of that logic, the TLC configurations that check them and proofs that
TLAPS checks.

    tlc -workers 2 -config MCJobQueue.cfg MCJobQueue     # a run
    tlapm ChannelsProofs.tla                             # the proofs of a *Proofs module

`PROJECT.json` lists the components, the runs, the source lines behind every
definition, the hazards, the mutants (operators named `Mutant_...`: one
plausible bug for each checked property, which the property must catch) and the
theorems.

## 1. The system

### 1.1 queue_job

| Part | State | Operations | Hard part |
|---|---|---|---|
| `PriorityQueue` (channels.py) | `_heap`, `_known`, `_removed` | add, remove, pop, `[0]`, len, in | removal is lazy: three structures have to agree, loops have to end |
| `ChannelJob`, `ChannelQueue`, `Channel`, `ChannelManager` (channels.py) | per channel: a queue, a queue of jobs with an eta, the running and failed sets, `_pause_until`; the jobs by uuid | notify, remove_job, remove_db, get_jobs_to_run (recursive generators), get_wakeup_time | a job sits in several channels at once; any sequence of states can be notified; the generator is suspended while the runner works |
| `QueueJobRunner`, `Database` (runner.py) | the channels, one listening connection per database | load, process notifications, run jobs, wait; recover from any exception | the channels mirror a table that others change; each step reads it at another time; restarts |
| `_async_http_get` (runner.py) | a thread per request | GET, `set_job_pending` on failure | time-outs while the server works on; late answers |
| `RunJobController` (controllers/main.py) | the worker's transaction and its `Job` object | runjob | locks, commits in the middle, stale `Job` objects, crashes |
| `Job` (job.py) | state, eta, dates, retry | load, store, set_*, postpone, enqueue | what is written back was read earlier |
| `queue.job`, wizards, crons (models/queue_job.py) | the table | button_done, requeue, requeue_stuck_jobs, autovacuum | act at any moment on any row |
| trigger (hooks/post_init_hook.py) | - | pg_notify on every change, except the deletion of a done row | notifications lost while nobody listens |
| configuration (channels.py, jobrunner/__init__.py) | the tree of channels | parse_simple_config, simple_configure, autocreation, _is_runner_enabled | entries in any order, twice, for children before their parents |
| start and stop (jobrunner/__init__.py, runner.py) | the thread or child process, `_stop`, the pipe | start, spawn, signal, stop, join, pop | stop() comes from another thread at any moment; children die |
| `queue.job.channel`, `queue.job.function` (models/queue_job.py) | the tree of channels in the database, stored complete names, functions | edit, register, vacuum | stored names computed from snapshots |

How they interact: somebody calls a method `with_delay`; `Job.enqueue` inserts a
pending row; the trigger notifies; the runner reads the row and tells the
`ChannelManager`; `get_jobs_to_run` yields jobs for which every channel on the
way to the root has a slot; the runner marks each one enqueued in the table and
starts a thread that asks the server to run it; the server locks the row, marks
it started, commits, performs it and stores the outcome; every write notifies
the runner again, which frees or takes slots. There is no other channel of
communication: the runner never sees an answer.

What makes it correct: slots never leak and are never exceeded (in the channels
and in the table); one worker at a time performs a job; no job is forgotten; the
scheduling options (capacity, sequential, throttle, eta) mean what they say; the
runner sleeps until it has something to do and no longer.

### 1.2 The other addons

| Part | State and operations | What makes it correct | Modelled in |
|---|---|---|---|
| fifo_return_and_transfer | `transfer_over_locations` goes draft, available, confirmed, transferred, making two pickings | goods leave once and arrive as they left, at the cost they came with; what was checked is there when it is moved | TransferOverLocations |
| stock_optimization | `_action_assign` reserves quants for moves, stops after 3 minutes; pickings validated by jobs | quants, lines and states of moves agree; nothing is reserved or delivered twice | Reservation |
| inventory_serial_import | `input_file` replaces move lines, `_update_reserved_quantity` gives back what they held | no reservation without a line | Reservation |
| stock_aging | quantities per age bucket, rebuilt from the moves | the buckets are the ages of the stock | StockReports |
| product_avco_report | quantity and value, rebuilt from the moves | they are those of the stock | StockReports |

### 1.3 Not modelled, and why

* report_xlsx, tax_invoice_report: formatting, layout, download; no state.
* customer_credit_limit, ejaf_product_volume: a field and a one-line computation each.
* JSON fields of queue_job, related actions, messages to followers, views,
  migrations: encoding, presentation, or run once by the installer.
* Odoo itself (ORM, stock moves, server loops): modelled as far as the addons
  use it and marked external.

## 2. The modules

| Module | Models | Composes |
|---|---|---|
| `PriorityQueue` | what `PriorityQueue`'s docstring promises: a set, smallest first | |
| `LazyHeap` | the class as written; a refinement of the above | INSTANCE PriorityQueue |
| `Channels` | channels.py: where each job sits, driven by every sequence of calls | |
| `ChannelTiming` | the channels in the runner's loop over time: sleep, wakeup times, throttles | EXTENDS Channels |
| `JobQueue` | table, trigger, runner, request threads, controller, users, crons, failures | EXTENDS Channels |
| `ChannelConfig` | the configuration string and the tree it becomes | builds what `Channels` takes as constants |
| `RunnerProcess` | construction, start, stop, signals and death of the runner | EXTENDS ChannelConfig |
| `DelayedJobs` | job.py: identity keys, tries, retry pattern | |
| `ChannelRegistry` | queue.job.channel and queue.job.function | |
| `TransferOverLocations` | the transfer with its two pickings | |
| `Totals` | sums, minima and the like that the stock addons compute | |
| `StockLedger` | what reserving promises | |
| `Reservation` | `_action_assign`, the import, the validation jobs; without imports a refinement of the above | INSTANCE StockLedger |
| `StockReports` | aging and average cost against the stock itself | |
| `ChannelsProofs` (with `LazyHeap`), `ChannelTimingProofs`, `JobQueueProofs`, `ChannelTreeProofs` (`RunnerProcess`, `ChannelConfig`, `ChannelRegistry`), `DelayedJobsProofs`, `TotalsProofs`, `StockProofs`, `ReportsProofs` | theorems and proofs | |
| `MC...` | constants for TLC | |

### LazyHeap
`heap` is a bag of objects (which one is at index 0 is heapq's business: a
smallest one, any of them under ties). The loops of `pop` and `[0]` are one pass a
step, so that their termination can be stated. Python's `[0]` on an empty queue
raises IndexError: `result = NoObj`. `held` is a history variable: what the callers have
put into the queue and not taken out, the measure of whether a call was lost.

### Channels
`chan[c]` holds the four collections of channel `c`, `job[j]` the `ChannelJob`
(channel, priority, eta; the other sorting keys never change and are the constant
`Seq`). The operators `SetPending`, `SetRunning`, ... are the methods of `Channel`
with their climb to the root; `Notify`, `RemoveJob`, `RemoveDb` those of the
manager. The tree of channels, with the set `Up[c]` of the channels from `c` to
the root, is a constant: it is configured once. The order in a queue is used as
`PriorityQueue` states it, which is what `LazyHeap` is shown to implement.

`get_jobs_to_run` is a chain of generators. It is modelled as a visit of all
channels, children before parents (`todo`, `cur`), one yield a step. A job that
leaves the root is `yielded`: the generator is suspended, and what the code does
after its `yield` is `Resume`. An exception while it is suspended drops it
(`Recover`). `now` is the time the runner samples when a run starts, so the clock
ticks between runs only. The manager's dictionary is weak: whether the
`ChannelJob` of a finished job still exists cannot be observed, and `job[j]` is
`NoJob`.

### ChannelTiming
Adds the runner's stage (notify, run, wait), the wakeup time that
`get_wakeup_time` computed, and two history variables: whether anything was
notified since, and when each channel yielded last.

### JobQueue
`row` is the table: state, eta and whether `date_done` is set (autovacuum looks at
nothing else). `inbox[j]` counts the notifications for `j` that wait in the
runner's connection; the runner handles them in any order (the code pops from the
end of a list others are appended to). `rpc` is where the runner's thread is;
`req[r]` is an open request: the client thread, the server side, the `Job` object
the worker holds (`copy`) and whether the row was written by somebody else after
the worker's snapshot (`dirty`).

What is one step and why: a single SQL statement; a transaction of a button, a
wizard or a cron (Odoo's repeatable-read transactions that write a row somebody
else has changed fail and are retried by Odoo); the controller's SELECT FOR
UPDATE, load, store, commit. `perform()` and the final `store()` are separate
steps, and `Snapshot` is the moment of the first query in between: a row that is
written later makes `store()` fail (`DoneConflict`, or a retry or failure, which
write in a fresh transaction and therefore overwrite whatever is there), a row
that was written before is overwritten.

Failures (`Fault`, at most `MaxFaults` in a behaviour): an exception in the runner,
a restart of its process, a request that times out, a request that is lost or
refused, a worker that dies, a server so slow that the cron takes a job that is
still being served for stuck. `requeue_stuck_jobs` is free to act on a job nobody
serves any more: that job does get old.

Left out on purpose: several databases (the channels treat their jobs alike),
retry counts and identity keys (`DelayedJobs`), what jobs compute, a second runner on the same
database (unsupported; `RunnerProcess` shows that the servers start one), changes of a row's channel by a user (`Channels` covers
their effect on the channels).

The failures of the runner are exceptions that its outer loop recovers from, that
is all but `OSError` (section 3.4, 12); `RunnerProcess` has the others.

### ChannelConfig and RunnerProcess
A channel is the sequence of names from the root to it, an entry of the text a
record; of the text itself only what the code tells apart is kept (whether there
is a space before the first colon, which `_is_runner_enabled` sees and the parser
does not; whether an option has no value, an empty one, a number or something
else). `Channels` takes capacities and throttles that are not negative; `int()`
reads negative ones too. `Start` parses everything before anything is configured, then one
entry a step. `TreeForChannels` is what `Channels` assumes of its constants.

`RunnerProcess` goes on where the configuration is `"ready"`: a runner is started
with it, and the successor of a dead process is configured from the text again
(`Unconfigured`). `threaded`, chosen at the beginning, says which server it is: a
threaded one, where `runner_thread` is started and joined once, or a prefork one,
where `jobrunner` is looked at by `prefork_process_spawn` in every turn of the
parent's loop and emptied by `prefork_worker_pop`. `pc[p]` is where the thread of
runner `p` stands in `run()`; a slot of `Proc` is a thread or a pid. `flag` and
`pipe` are set by `stop()`, in two steps, by the server's thread or in a signal
handler. A visit hands out any number of jobs; `late` counts those handed out
after `_stop`, a history variable.

### DelayedJobs
`row` holds what `Job.store` writes of a job: state, identity key, count of tries,
and for the eta the seconds of the last postponement. A caller's transaction
(`caller`) sees the jobs committed when it began and its own. `perform()` and
what the controller makes of its outcome are one step; how these two interleave
with others is `JobQueue`'s subject. `RetrySeconds` is the loop over the sorted
pattern, as a function along the counts of retries; `SerializationFailure` is the
path around `max_retries`.

History: `alone` (no other transaction was open while the job was stored),
`cause` (why a job is pending) and `lost` (the tries that ended in a conflict).
Bounds: `MaxTry` for the tries of jobs that have no maximum, and a
transaction begins only while there are rows left to create.

### ChannelRegistry
`db` has the three tables with their stored computed fields (`complete`, `path`,
`channel`), `snap[t]` what a transaction sees. A transaction makes one operation;
`Commit` refuses it if a row it writes has been written since (as PostgreSQL does
under repeatable read) or if a constraint breaks. `Named` is the recomputation
of complete names of a channel, of all below it and of the functions there;
`Endless` is the loop of `_compute_complete_name` that does not end, whose
transaction never commits. Jobs keep the name of their channel until their
function gets another one. Every removal interval is over when `Autovacuum` runs.

### TransferOverLocations
`rec[r]` is a record with a line without tracking and a line of serials; `lots`
counts how often each serial is listed. `stock` may go below 0, as Odoo's quants
may. `came` is what the done moves say: the price of the first one into a
location and the prices each serial came with (`update_transfer_relation_vals`
takes any of them). `moved` keeps the two pickings, with their value. Serials are
edited and availability is checked in every state, as the code has it: the dialog
of the serials is open beyond draft (`KeptOrigins`: a line that gets another serial
keeps its origin, a new one has none), and the check is only hidden by the form.
`DoTransfer` takes any set of records and transfers one. History: `edited` (whether
serials were edited since the last check and since the last return) and `setBack`
(how often a check set a confirmed record back), by which the properties name the
cases in which the code does go wrong (section 3.4, 13 and 15).

### StockLedger and Reservation
`plan` is what the moves of a behaviour are (what they ask for, which are chained,
bypass reservation or get imports), one of the plans in the constant `Plan`.
`StockLedger` promises that a piece is claimed for a move only while nobody else
has claimed it. `Reservation` implements it with two counters that are kept
apart: `reserved` of the quants and the quantities of the lines. A run of
`_action_assign` is open (`batch`) over several steps, one a move in any order, and ends
after any of them, for that is what its timer does; as it is one transaction,
nothing else moves meanwhile. `AssignBypass`, `AssignFromStock` and
`AssignChained` are the three branches of its loop, `EndAssign` writes the
states. `Unreserved` frees what a removed line has, but no more than is reserved:
the check that would refuse is commented out. `filled` is whether the lines have
their `qty_done`, without which `button_validate` only returns a wizard.
`OneLot` is the body of the loop of `AssignChained` over what the original moves
brought. A share below 0 (section 3.4, 20) is given back, out of what is reserved,
and the line may go below 0; a line below 0 cannot be delivered, and removing it
reserves. From then on `overdrawn` is TRUE, a history variable: the properties are
about what happens until then.

### StockReports
`lines` are the move lines with a `qty_done`, in the order of their ids, from which
the aging report computes; a line may be entered, by hand or by the import of
serials, long before it is done. `hist` are the done moves in the order in which
they were done, from which the cost report computes. `pieces` is the stock itself,
the days on which the pieces of each lot came, from which the properties take what
the reports should say; deliveries take the oldest pieces of their lot. `left` are
the layers of receipts that are left of the product: Odoo values a delivery first
in, first out by product, whatever the lot. The end dates asked for (`Ends`) are
any number of days before or after today, `Ahead`.

The cost report is modelled for a product that is costed first in, first out, at
the only location of its company, and without negative stock: there quantity and
value by location are those of the product (section 3.4, 25).

## 3. The runs

### 3.1 Questions and answers

| Run (cfg) | States | Question | Answer |
|---|---|---|---|
| lazy_heap (MCLazyHeap) | 1 200 | Does the lazy heap keep its structures in agreement, implement the queue, and do its loops end? | yes |
| timing (MCChannelTiming) | 724 000 | Can any sequence of calls leak a slot or duplicate a job; is a job stranded, a wakeup missed or useless, a throttle broken? | no, but for the root's throttle (3.4, 1) |
| job_queue (MCJobQueue) | 709 000 | Capacity in the table, one executor, the channels mirror the table, started jobs are left to their workers | yes |
| served (Live) | 103 000 | Is every pending job started, every enqueued job left? | yes, if workers do not die |
| contention (Contention) | 45 000 | Are two jobs served that compete for one slot? | yes |
| delayed (Delayed) | 748 000 | One job per identity key; bounded tries; the retry pattern; does a pending job end? | yes, but for overlapping transactions (3.4, 4) and the try between two entries of a pattern (3.4, 7) |
| registry (Registry) | 39 000 | Do tree, stored names and functions agree, one transaction at a time? | yes |
| runner (Runner) | 516 000 | Does the runner have the channels that were written; is there one, does a stop end, is a dead one replaced? | yes |
| transfer (Transfer) | 1 347 000 | Is each return received once, as it was, and do goods leave at a cost they came with? | yes, but for serials edited (3.4, 13) and records checked again (3.4, 15) in between; of several costs any one is taken (3.4, 14) |
| reservation (Reservation) | 762 000 | Do quants, lines and states agree, is the ledger kept, is anything reserved for nobody or delivered twice? | they do, it is, no, until three or more chained moves have taken more than was brought (3.4, 20); states and ledger without imports (3.4, 18) |
| reports (Reports) | 665 000 | Do the reports agree with the stock, for any end date? | quantity, value and the total of the columns do; the ages for one lot (3.4, 22); both totals and ages if lines are done in the order of their ids (3.4, 23) |
| done_final (DoneFinal) | - | Is done final? | **no** (3.3) |

The invariants `TimingInv`, `DelayedInv`, `RegistryInv`, `ConfigInv`,
`ProcessInv`, `TransferInv`, `ReservationInv` and `ReportsInv` are the types of
their module together with one of its properties. The types of `LazyHeap` and
`JobQueue` are proved (section 4) and not checked again.

### 3.2 Bounds and fairness

* lazy_heap: four objects, two of equal rank. Two removed objects above two live
  ones are the longest discard chain that differs from a shorter one.
* timing: two jobs meet in one place; three channels in a chain make a child, a
  middle and a root (siblings share nothing but their parent): the root with one
  slot, one throttled and without limit, one sequential. Four instants, a pause of 2 and an eta at
  3, so that a pause (begun at 0, 1 or 2) ends before, with and after the eta.
* job_queue: one slot and two jobs, so that a leaked or doubled slot shows; two
  requests, so that a job is sent twice; one failure. `MaxCopies = 1` merges the
  notifications of one job. Retries, which need the clock to tick, and repeated
  notifications are in `served`, with one job.
* served, contention: one failure at any moment of an infinite behaviour.
* delayed: two rows, so that a second one can be kept out by the first; two
  transactions, so that they overlap; one job with two tries and one without a maximum;
  a pattern with two counts and one more try, seconds asked for (as many as after a
  conflict) or not, every outcome.
* registry: two channels below the root make a path, a cycle, and two
  siblings of one name; two methods, whose default channels share a name; one job.
* runner: three entries out of more than thirty are enough for a channel, its
  parent and a second entry for either; capacities from none to 2, every option
  with and without a value, an empty one, 0 and -1, every error. A runner is started (`MaxFollowed`) for texts of at most one
  entry: its life depends on the text only in whether it starts. Two pids (a
  process that is dead and not yet seen, and its successor), up to two jobs in a
  visit, for "one more job" to differ from "all".
* transfer: two records with the same source for the same goods (a line of each kind,
  and one kind only), two prices, one serial that may come, go, come
  back, be listed twice and be edited in every state; four moves of others; one record
  is returned twice, so that a confirmed one that is set back goes on.
* reservation: two lots, pieces 0 to 2, moves that need two or one, two chained and
  one not; or three chained moves that need three and one of three pieces of a lot,
  which is how a share gets below 0; or two imports for moves that also reserve and a
  consumable, with two validation jobs.
* reports: four moves of one or two pieces of two lots over two days, one line that
  is entered and not done, end dates of today, tomorrow and the day after (lines on
  the end date, after it and before it), periods of a day and a last, open bucket
  after two.

`FairJobQueueSpec` assumes that the runner's thread, the client threads and the
workers go on, that the cron keeps running on jobs nobody serves, and that time
passes. Strong fairness is used where a step is enabled again and again rather
than for ever: the inner loop processes all its notifications before it runs
jobs, so none is passed over for ever, and its stages alternate. The runner is
also assumed to come back after an exception (its outer loop, or whoever
restarts the process). Nothing is assumed about users. `served` and `contention`
exclude the death of a worker: the job then stays started, as the README of
queue_job says under "Known issues", and its slot with it. `contention` also
excludes users who requeue for ever.

`FairDelayedJobsSpec`: pending jobs are sent and started; strong fairness for
the outcomes that count, as a job that conflicts with others, or asks not to
count the try, does not do so for ever (each such try makes the outcome possible
again). `ProcessFairness`: the server's thread configures, the runner's thread,
the thread or handler that runs stop(), and the parent's loop go on; a `select()` ends if something has come (its
timeout is 60 hours); nothing makes exceptions, signals, notifications or
kills happen. The request for the session, in the runner's own thread, is
assumed to end; its timeout is about a year (runner.py:212).

### 3.3 Finding

`set_job_enqueued` (runner.py:320) has no guard on the state, unlike
`set_job_pending`: a job set done by a user between `process_notifications` and
that statement is enqueued and run, although "the final state is done"
(job.py:160). Run `done_final`.

### 3.4 Disagreements met while modelling

Places where the code differs from what its text says or its callers expect, met
with the models; no run is kept for them. The properties that hold are stated
with these cases excluded by name.

queue_job:

1. The throttle is recorded after the `yield`. If the runner raises between, the
   root channel has no pause and yields again right after the recovery delay,
   against get_jobs_to_run's docstring (channels.py:535-537). Subchannels are not
   affected: their parent resumes them before anything can raise.
2. `ChannelQueue.pop` compares the first job without an eta with the job of the
   *earliest* eta only. A sequential channel holding j1 (eta 2), j2 (no eta), j3
   (eta 1) runs j2 before j1, against its comment (channels.py:342-344).
3. autovacuum selects by `date_done` without looking at the state
   (models/queue_job.py:243). After the finding above a job has a `date_done` and
   is enqueued, started or failed; it can be deleted in that state.
4. The search for an identity key and the store are not atomic and the index is
   not unique: two transactions add two jobs (job.py:240-242, 327).
5. The search reads a snapshot: the job it finds may be executed before the
   caller commits, and what the caller wrote is never processed
   (models/base.py:62-64, job.py:336).
6. max_retries is tested in `perform()` only; a conflict of transactions is made
   retryable later, in `runjob` (models/queue_job.py:72-75, main.py:93).
7. With `{1: 10 min, 5: 20 min}` four retries wait 10 minutes, not five (job.py:747:
   "5 first retries postponed 10 minutes later"; the next line has "retries 5 to 10"
   wait 20). `WaitsByPattern` leaves out the try that an entry after the first names.
8. A channel that is renamed in one transaction while another creates one below
   it leaves that one with the old path (models/queue_job.py:398-408); two moves
   in two transactions can close a cycle.
9. A channel named root below the root makes the search for the root return two,
   and the registration of new methods fail (models/queue_job.py:466-467).
10. autovacuum never finds the done jobs of channels that were renamed, removed, or
    given by a name nobody has defined (models/queue_job.py:237, 247).
11. `root : 0` and a root:0 that is not first start a runner that runs nothing
    (jobrunner/__init__.py:75).
12. An error of requests is an OSError, which is select.error in Python 3; the
    handler's `e[0]` raises and the thread ends (runner.py:496). A prefork server
    starts another, a threaded one does not.

The other addons:

13. The dialog of the serials opens and saves in every state
    (transfer_over_locations_lot_lines.py:66, view lines 36 and 95-100): serials that
    are replaced after the check have no cost or that of others, and ones that are
    replaced after the return are received though others left.
14. A serial that came, went and came back has several moves into the source; the
    UPDATE takes any of them, so it may leave at an old price
    (transfer_over_locations.py:64).
15. The check may be pressed on a stale form and sets a confirmed record back, which
    is then returned again (transfer_over_locations.py:116).
16. A serial on two lines passes the check of each (transfer_over_locations.py:104).
17. The check reserves nothing and is not repeated (transfer_over_locations.py:129).
18. The lines an import creates reserve nothing, but when they are removed they free
    what is reserved there, for whomever (inventory_serial_import.py:61, 130). With
    fewer serials than asked for the move is assigned (line 64).
19. What done siblings took is overwritten by what others have reserved
    (stock_move.py:117 of stock_optimization).
20. Because of that the share of a chained move can be below 0. Three pieces of a lot
    were brought; one sibling takes 1 and is done, the move takes 2, the other
    sibling takes 1, as the first one's is not counted, and is done; now the move,
    which asked for 3, is assigned again, with a share of 3 - 2 - 2 = -1: a piece is
    unreserved, out of what anybody has reserved, and the move counts as partially
    available whatever is left to it (stock_move.py:124-145).
21. `do_transfer` returns inside its loop: of several records one is transferred
    (transfer_over_locations.py:413-426).
22. Deliveries of one lot empty the buckets of another (stock_aging_report.py:66).
23. The search of the aging report looks neither at states nor at dates: lines with a
    `qty_done` are counted before they are done (the import of serials creates such
    lines, inventory_serial_import.py:40-49) and in the order of their ids. A
    delivery that has a smaller id than the receipt it takes from is counted
    before it, on empty buckets (stock_aging_report.py:50-54).
24. Moves on and after the end date are counted, as 0 days old, if the lot's quant was
    there before; a lot whose quant came later is left out, also when the stock
    that was there before it is meant (stock_aging_report.py:36-38, 58-60).
25. The cost report adds up values by location, and Odoo values deliveries by product:
    with several locations, whose moves among each other have the value 0, the
    average of a location is not that of the pieces that are there
    (product_avco_report.py:142-161).

## 4. The proofs

TLC checks small trees and few jobs; the theorems hold for every value of the
constants that satisfies the named assumptions (`TreeAssumption`: a finite or
infinite tree given by `Parent` and `Up`; `ConfigAssumption`; `NoJobAssumption`;
`HeapAssumption`; `ConfigStringAssumption`; `ProcessAssumption`;
`DelayedJobsAssumption`; `TransferAssumption`; `ReservationAssumption`;
`ReportsAssumption`; `ChannelRegistryAssumption`), which
TLC evaluates on every run. An inductive invariant was checked by TLC before it
was proved.

**ChannelsProofs**, the lazy heap. The inductive invariant `HeapInv` is
`HeapTypeOK`, `Consistent`
(the heap contains an object once iff it is in `_known`; `_removed` is a subset),
`NothingLost` (the contents are what the calls have left in it) and the
finiteness of `_known`, needed for `__len__`. From it: `HeapConsistent`,
`LenCounts`, and the refinement: `TopIsSmallest` shows that a live object at the
top is a smallest one of the abstract queue, `StepRefines` that each step maps to
an abstract step or a stutter (`LazyHeapRefines`). `NothingIsLost` is the same
contents seen from the callers.

**ChannelsProofs**, the channels. The four invariants of `Channels` hold only together: that a
waiting job is absent from the channels between it and the root (`AbsentAbove`)
is what makes a yield to the parent safe (`Exclusive`, `BackedBelow`), and that a
job is confined to its path (`Confined`) is what makes its removal complete. The
inductive invariant `PlacedInv` is their conjunction with the types, written for
any value of `chan` and `job` (`Placed`) so that the operators of `Channels` are
treated one by one: a lemma for each (`SetPendingPlaced`, `SetRunningPlaced`,
`YieldToParentPlaced`, ...), `UntouchedPlaced` for the jobs an operation does not
name, `StepPlaced` to collect them, and `PlacedMeans` to read the invariants of
`Channels` off it: theorems `JobsConfined`, `InOneSet`, `NoSlotWhileWaiting` and
`SlotsBacked`. The types follow (`ChannelsTypes`).

**ChannelTimingProofs.** The runner's loop over time, for every tree, capacity,
throttle and eta. Every step of the loop is a step of the channels
(`LoopUsesChannels`), so `PlacedInv` is at hand. `VisitInv` follows one visit of
`get_jobs_to_run`: channels are visited children first, and one that has been
visited is exhausted and stays so, because a yield of an ancestor takes a slot
below and gives none back; at the end of the visit that is `NoStrandedJob`
(`NobodyStranded`). `SpacingInv` ties `_pause_until` to the history `lastYield`: a
pause that is over, or none, means that the throttle has elapsed (`ThrottleHolds`, for
every channel but the root, see 3.4, 1). `QuietInv` follows the time after a
visit: until something is notified or the wakeup time is reached, each channel
from which `get_wakeup_time` took a time is held back at least until then, and
each one it skipped (full or paused) cannot pass anything on. From it
`NoWakeupMissed`; `LoopInvariant` says that the wakeup time is ahead.

**JobQueueProofs.** The table and the channels disagree most of the time, so
`RootCapacityInTable` is not inductive. The half of their agreement that always
holds carries it: a busy row runs in the root channel of a runner that has loaded
the table (`BusyRuns`); a runner that has not loaded it knows no job
(`Unloaded`); the job the runner is about to mark enqueued is not busy and has
its slot (`Taken`, from `Exclusive`: it waited in the root channel, so it did not
run there). `RunnerInv` is these and `PlacedInv`. Users, client threads and workers make no row
busy that was not (`NoNewBusy`) and keep it trivially; the runner's steps are
treated one by one, and `RootStep` says what each may do to the root's slots,
from which `RootCapacity` follows by counting, without any condition on what
users requeue. `SingleExecutor` and `StartedStays` are conditional: neither users
nor the cron may touch started jobs (the wizards can; by default the buttons
and the cron do not). Their invariant is `Executor`: an
executed job is started, or deleted, and has one executor; `Kept` says which
steps take a job out of these states, `OneStarts` that the only step which adds
an executor found the row enqueued. `JobQueueTypes` is the type invariant.

`Mirror`, the last theorem of the module: `MirrorsTable` speaks of jobs whose notifications are processed
and says nothing of the others, so its induction needs what happens in between:
a write the runner is not told of (the deletion of a done row) makes no difference
to the channels (`Told`), a ChannelJob is in the channel its row names
(`OwnChannel`), and the job in the runner's hands has a pending row or a
notification on its way (`InHand`), which is why it may be let out of sight
between the yield and the mark. `SettersMirror` is the heart: each of the four setters,
called on the channel of a placed job, makes the channels show the state it
stands for; for `set_running`, which stops climbing where the job runs already,
this needs that a busy row runs in the root (`BusyRuns`) and that a job runs in
every channel below one it is in (`BackedBelow`).

**ChannelTreeProofs**, the runner. Two inductive invariants of one specification.
`ServerInv` is about the runners: that any two live ones are the same and the
server knows of it unless it has stopped (`Single`; this, as a fact about pairs,
is what a step keeps, and `OneRunner` counts it), and what is left of a visit
(`Visiting`: a job is about to be sent only by a runner that was not asked to stop
when it looked). From it `OnlyRunner` and `StopsSending`, for any number of pids
and of jobs in a visit, with one case for each action. `TextInv` is about the
channels: what is left to configure was readable, the settings have their types,
and the domain of `conf` is closed under parents, which autocreation keeps
(`AboveIsClosed`): theorem `ConfiguredTree`, so the tree that `Channels` assumes
is the tree the code builds, from any text. `ProgressInv` adds how far the text is
applied and that every channel has the settings of the last entry so far that
names it (`ByLast`); when nothing is left that is `ConfiguredAsWritten`
(`ParsedFields`: what an entry was parsed to is what it says).

**ChannelTreeProofs**, the table of channels. `TreeStays` and `NamesStay` hold while
no two transactions are open at once (`NoOverlap`, a hypothesis on the behaviour,
not on the constants): two that overlap can close a cycle (3.4, 8). The inductive
invariant `RegistrySound` says that the tables are `Sound` (a tree, names that are
its paths, functions in channels) and that a transaction sees them as they are.
First come lemmas about chains of parents: what ends for a channel ended for its
parent a step earlier (`ChainOfParent`); without a cycle a chain has no channel
twice, so |Chan| steps are enough for a new channel as well (`ChainShort`,
`ChainOfChild`); a chain that avoids a channel does not notice its change
(`ChainSame`). Then one lemma for each change of the tree: `Added`, `Rewritten`,
`Removed`, and `SecondRoot`, for which the constraint is needed: a channel that
loses its parent has to be named "root" and collides with the root's name.
`Recomputed` says what is left to the recomputation below a changed channel, and
`FoundSearches` follows `_find_or_create_channel` along the parts of a name.

**DelayedJobsProofs.** `TriesBounded` and `OneJobPerKey` for every number of
jobs, callers and keys, every maximum and every retry pattern. One lemma,
`JobSteps`, goes through all that may happen to a committed job and says what of
its row is left (`Follows`: it keeps its key, waits for its *first* try only if it
did before, and has a try left). For the tries this is already inductive
(`TriesInv`), once it is known that rows not yet committed count nothing. For the
keys the invariant has to speak of the transactions (`Owned`: rows belong to one
transaction, and one that is alone really is) and of what each sees (`KeysInv`:
an open transaction sees every waiting job unless the two overlapped, so what it
has stored has a key of its own among those). `PatternWaits`: the recursive
function of `RetrySeconds` exists and is the only one (`RetrySecondsValue`; the
counts up to a first one where it would differ lead back to an earlier one), so a
postponed job waits as the last entry it has reached says (`Waits`). The theorem
leaves out the try that an entry after the first names, as the property does (3.4, 7).

**TotalsProofs.** `Total` is a fold over a set, which takes the elements in an
order that nothing fixes. The lemmas show that the order does not matter
(`TotalIsSum`, from the uniqueness and existence of a sum for all subsets of a
finite set) and give the laws the others use: an element taken out
(`TotalRemove`), one value changed (`TotalExcept`), rows against columns
(`TotalSwap`), a set split in two (`TotalSplit`), the last of a sequence
(`TotalLast`), bounds. `StepsExist` and `StepsUnique` do the same for what is
computed by going along the numbers up to n, the form of every loop in the
stock modules.

**StockProofs**, the transfer. `ReceivedOnce` and `CostReturned` hold of every
behaviour, with edits, checks and transfers in any state: where the code does go
wrong (3.4, 13 and 15) the properties themselves say so, by the history of what was
edited and set back. The inductive invariant is `CostInv`: what is at a location
came there at a price (`Priced`); a record that was checked and not edited since
has found its prices where its goods were, and prices once known stay known
(`Checked`, `PricesKept`), whoever ships the goods meanwhile; and the pickings of a
record are as many as its state and its set-backs say, the last return, unless
edited since, computed from fields that have not changed (`Pickings`). Which of
several prices a serial leaves at is not said (3.4, 14).

**StockProofs**, the reservation, for any number of moves, lots, groups and imports,
until `overdrawn` (3.4, 20): a move whose siblings have taken more than was brought
gives back what may not be its own, and from then on lines may be below 0 and
states wrong. That is a condition in each of the four properties, and the case is
part of the model. `StatesAgree` and `KeepsLedger` also leave out plans with
imports (3.4, 18).
`StockInv` is `ReservationsBacked` together with: every move's lines and what went
out are within its demand (`Within`); a run of `_action_assign` has sorted each
move it looked at once (`Sorted`); and the lines agree with the state a move
*will* have when the run ends (`Coming`), as the states are written after the
loop. What `_update_reserved_quantity` takes is at most what is asked for and
free (`TakenModest`, by the numbers of the quants); the shares of a chained move
chain the same argument over lots (`ChainedModest`). One lemma goes through the three
branches (`BranchesAdd`: each adds modest lines and sorts the move), one through
each of the other steps. From `StockInv`: `ReservedOnLines`, `WithinDemand`,
`StatesAgree`; and, step by step, the refinement of `StockLedger` (`KeepsLedger`):
a quant's free quantity is the ledger's unclaimed one because its reserved
quantity is what the lines say.

**ReportsProofs.** Both reports are loops over the moves, and the stock is changed
by the same moves one at a time; `HistoryInv` says that the two agree after each.
It counts the done moves in the order in which they were done; the report counts the
lines, which are the same when the property's condition on ids holds. It is stronger
than the properties in two ways. The report starts each lot with
the buckets as the lots before have left them, so `CountInv` speaks of *any*
buckets: a lot counted on top of them adds as many pieces as it has. And it speaks
of any end date, because the end date moves with the days; for one at a time it is
not inductive. Counted by itself a lot gives its ages: deliveries take the oldest
pieces and the report empties the oldest buckets, which is the same because the
pieces from some bucket on are a prefix of those in order (`OlderFirst`,
`AgesOlder`, `AgesShipped`), and the period of an age is the bucket it falls in
(`Periods`, `AgesReceived`). `ReportsHold` needs no such hypothesis.
`ReportAges` and `ReportTotal` go along the lots (`AgingAlong`), for every end date:
before, on and after the days of the moves. What they say is what the report counts
by then, the stock of now of the lots that were there before the end date, with
what came after it as new (3.4, 24). The conditions are in the properties: one lot in
`AgesOfStock` (3.4, 22), lines done in the order of their ids in both (3.4, 23).
`ReportsHold` is about one location and costing first in, first out (3.4, 25).

Only model-checked: the temporal properties (`LoopEnds`, `PendingIsServed`,
`EnqueuedIsLeft`, `PendingEnds`, `StopEnds`, `Replaced`; fairness and ENABLED are
outside the prover's reach). Every invariant and every other action property that a
run finds to hold is proved. The library's theorems for induction take an
operator, which the provers cannot instantiate; where a proof here needs
induction (over finite sets, along numbers, for a recursive function to exist) it
takes a smallest counterexample instead. `DoneIsFinal` does not hold (section 3.3).

## 5. Plan

1. What is left of `RegistryInv` when transactions overlap (3.4, 8).
2. Several locations, average costing and the end date of the cost report; changes of a job's row by users in `JobQueue`
   together with those of its channel in `ChannelRegistry`.

# sql-admin: TLA+ models, model checking and proofs

sql-admin is a web console through which developers submit SQL against MySQL
servers, an administrator (or an automatic approver) has it executed through
Inception, and background processes execute large orders, archive tables, watch
Inception and keep the inventory of servers up to date.  The program is Python
(web.py) over one MySQL schema; it opens no transaction, takes no lock, and its
processes communicate through table rows, HTTP calls to each other and a ZeroMQ
socket.  What can go wrong is therefore almost always an interleaving of
statements, or a step of several that fails.

Paths below are relative to `src/`; `ui/` is `src/ui/`.

## 1. Inventory

### The processes

`ui/sql-admin-ui.py` forks the background processes that its settings enable and
then serves HTTP with a pool of threads.

| process | code | loop |
|---|---|---|
| web server, several threads | `ui/controller/*` | one request per thread at a time |
| `async_exec_sql` | `ui/task/async_sql_exec.py` | every few seconds: take one `sql_task` row, run it |
| `auto_verify` | `ui/task/auto_verify.py` | every few seconds: pick one waiting order, POST it to `/sql_order/api_execute` |
| `cron_judger`, `cron_executor` | `ui/task/cron_*.py` | every second: is an archive task due; receive the message and fork a run |
| `check_defunct` | `ui/task/check_defunct.py` | restart Inception when its backup process is a zombie |
| `collect_department`, `session_clean`, `index_cal` | `ui/task/*.py` | periodic upkeep |
| puller, proxy | `puller/`, `proxy/` | on other hosts: report databases, forward calls |

### The components

| component | state | operations | how it interacts | hard behaviour | what makes it correct |
|---|---|---|---|---|---|
| Order editing: `mysql_change.py`, `sql_order.py` (cancel, deletes), `model/order.py` | `sql_order` | save, commit, cancel, delete, my_order_delete | threads share the row with the executors | status tested, read and written in separate statements around a remote check | a waiting order carries a checked text |
| Execution in the request: `sql_order.py` (execute, api_execute) | `sql_order`, the target | check, queue or run, report, save the result set | Inception, `sql_task` | never looks at the status; exceptions with unknown effect | success means an effect |
| Background execution: `async_sql_exec.py`, `sql_task_model.py` | `sql_task`, `sql_order` | addTask, getOneTask, take, run, report, finish | consumer of rows inserted by threads | crash between take and finish; reset while running | one run at a time, one run per arming, no queued task forgotten |
| Manual repair: `api.py` (reset_async, reset_succed) | both tables | one and two statements, unconditional | any moment of the worker | overwritten or doubled runs | as above |
| Rollback: `rollback.py` | `roll_back_times`, `run_result_set`, the target | test, run the backup statements, count | two administrators at once | test and increment far apart, lost updates | undoes a run that happened; the count is honest |
| Automatic approval: `auto_verify.py`, `auto_verify_model.py` | the row of settings, time ranges of instances | pick, look at switch and range, POST; update, set_time_range | loads the row twice, in two processes; settings read once per round | time of check / time of use; head-of-line blocking; edge of the range | runs are paid for by commits; switch and ranges are obeyed; waiting orders are served |
| Database layer: `db/mysql.py`, `common_model.py` | one connection object | save, delete, lastrowid | shared by all threads | `lastrowid` of another thread | |
| Inception client: `sql_checker/inception.py`, `parse.py` | none | check, execute | MySQL protocol to Inception | an exception hides what was done | errors are never taken for success |
| Archiving: `cron_judger.py`, `cron_executor.py`, `archive.py`, `archive_task.py` | `archive_task`, one message, `archive_log`, source, destinations and dumps | due test, advance, send, receive, fork; dump, create, move, log | ZeroMQ request/reply; mysqldump and pt-archiver as child programs | lost message after the advance, overlapping runs, run-once tasks; a failure between tables | a run-once task runs once; no row is lost |
| Puller: `puller/*`, `api.py` | `mysql_ins_db` | diff the detected databases against the stored | HTTP, each call may fail, or its answer be lost | partial detection; a handler that outlives its call; rows read early in a round | what is stored was found on that instance; nothing goes unseen; the store becomes accurate |
| Inventory: `mysql.py`, `mysql_instance.py` | `mysql_server`, `mysql_instance` | add, edit (replaces all instances), delete | the puller and orders keep instance ids | partial edit; `lastrowid` of another thread | ids stay meaningful; a deletion is complete |
| Grants: `grant.py`, `model/grant.py` | `grant_apply`, privileges and passwords of the target | apply, delete, grant: one statement per address, flush, account, status | target server; the inventory for its address | stops half way; overlapping grants set one status; shared user names | a success is complete; what is shown works; a failure is reported |
| Department permissions: `permission.py`, `collect_department.py` | `department`, `dept_server` | collect the groups; compare a selection, insert, delete | LDAP; overlapping collectors; two administrators | duplicate rows, mixtures of two selections | a department sees what was last selected; every group gets a department |
| Users, login, sessions: `user.py`, `user_model.py` | `user_info`, session files | login: look, read the role and write it back, or insert | LDAP, operators by hand | check then insert, role read early | a role given is kept; a user has one row |
| Notification, JIRA, MQ | none here | best effort | mail, chat, JIRA | issue key stored for the wrong id | |
| Zombie check: `check_defunct.py` | none | count zombies, read tasks, restart Inception | races with the worker and threads | stale decision; calls in flight break | no run it could see is broken; zombies go |
| Query/export, proxy, RPC, statistics, routing, pages | none relevant | | | | |

`PROJECT.json` lists them with their status, and under "hazards" the places in
the code where a mistake would be hard to reach by a test.

## 2. Modules

| module | models |
|---|---|
| `OrderTables` | the tables `sql_order` and `sql_task` and every statement sent to them (`model/order.py`, `model/sql_task_model.py`, `model/common_model.py`) |
| `SqlOrder` | the handlers and processes that use those tables: save, commit, cancel, delete, execute, api_execute, rollback, the two resets, `auto_verify`, the worker |
| `SqlOrderProperties` | type invariant, guarantees, and the claims of the repository that fail |
| `JobQueue` | the abstract specification of `sql_task` and its consumer |
| `MCSqlOrder` | texts and symmetry for TLC |
| `SqlOrderProofs` | proofs: types, evidence behind every status |
| `SqlOrderHistoryProofs` | proofs about the rollback counter, that the detailed specification implements `JobQueue`, the causes of the two violated claims, where tasks go |
| `ArchiveDispatch` | how an archive task comes to be run: `cron_judger`, the message, `cron_executor`, and the administrators' add, delete, reverse and start (`task/cron_*.py`, `controller/archive.py`, `controller/api.py`) |
| `ArchiveDispatchProperties` | type invariant and guarantees |
| `Occurrences` | the abstract specification of a scheduler that skips rather than repeats |
| `MCArchiveDispatch` | tasks and schedules for TLC |
| `ArchiveDispatchProofs` | proofs: types, refinement of `Occurrences`, run-once tasks, the waits |
| `ArchiveRun` | what a forked run does: dump, create the destinations, move, log, with other runs and the application at work (`task/cron_executor.py`, `model/archive_task.py`) |
| `ArchiveRunProperties` | type invariant and guarantees |
| `MCArchiveRun` | tables and rows for TLC |
| `ArchiveRunProofs` | proofs: types and the three safety guarantees |
| `Inventory` | servers, instances and databases: the administrators' add, edit and delete, a round of the puller, and the handlers of its calls (`controller/mysql.py`, `controller/api.py`, the three models, `puller/*`) |
| `InventoryProperties` | type invariant, guarantees, convergence, and the claim about delete that fails |
| `MCInventory` | the instance for TLC |
| `InventoryProofs` | proofs: types, the three safety guarantees, what a deletion takes, convergence |
| `ExecTimeRange` | the test of a time of day against a range (`task/auto_verify.py`, isInExecTimeRange), and what the range means |
| `Unattended` | what happens to orders by itself: `SqlOrder` with the round of `auto_verify` in detail, settings, instances that go, and `check_defunct` (`task/auto_verify.py`, `task/check_defunct.py`, `controller/auto_verify.py`, `controller/mysql_instance.py`) |
| `UnattendedProperties` | types, guarantees, liveness, and the claim about the range that fails |
| `MCUnattended` | orders, texts and times for TLC |
| `UnattendedProofs` | proofs: the refinement of `SqlOrder` and what it carries over, types, the five guarantees, two facts about the range, what it takes for zombies to go |
| `Grant` | applications for privileges and their grants (`controller/grant.py`, `model/grant.py`) |
| `GrantProperties`, `MCGrant`, `GrantProofs` | types and guarantees, the instance for TLC, proofs |
| `Access` | departments, the servers they may see, and users' rows: collectors, commits, logins (`task/collect_department.py`, `controller/permission.py`, `controller/user.py`, their models) |
| `AccessProperties`, `MCAccess`, `AccessProofs` | types and guarantees, the instance for TLC, proofs |

`ArchiveDispatch` ends where `ArchiveRun` begins, at the fork; nothing flows back
(a run does not touch `archive_task`, and the dispatch never reads `archive_log`),
so the two are checked apart: what `ArchiveRun` assumes of the dispatch is only that
any number of runs of a task may be forked at any time.

`Unattended` EXTENDS `SqlOrder` and narrows it: each of its steps is a step of `SqlOrder`,
or leaves the variables of `SqlOrder` alone.  That is the property `ImplementsSqlOrder`,
checked by TLC and proved, so that what is proved of the order workflow holds under the
policy, too.

The order workflow, the archive tasks, the inventory, the grants and the access tables
share little that one of them writes and another depends on.  Where they do, the other
side appears as an event: an instance that is deleted (`InstanceDeleted` in `Unattended`),
a database that is gone (`DbGone` in `Grant`), a server that is gone (`ServerDeleted` in
`Access`).  All are used by threads of the same server and all are hit by the same
restart script.

### State

* `OrderTables` has one variable per column that a property depends on; a column
  is a function over the AUTO_INCREMENT ids, `rows` the ids present and `used` the
  ids ever handed out.  Ids are never reused, so a request from an old page can
  name a deleted order but never a different one.
* `thr` holds, per thread, the program point and the local variables that survive
  from one statement to the next: the order id, the text, and a number read from
  the row (the status in save, the counter in the rollback).  `Verifier` is one
  of these threads: the process blocks in its POST, so it and the thread that
  serves the POST are never active together.
* `wrk` is the same for the worker.
* `vetted`, `applied`, `reverted`, `repaired`, `rearmed`, `arms`, `starts` and
  `dropped` record what happened outside the two tables (at Inception, at the
  target server, by an operator's hand).  No action reads them; properties do.

### Steps

An action ends at every statement sent to the database and at every call to
Inception that changes the target; between two actions anything else can happen.
That is exactly what the code allows: `ui/db/mysql.py` commits each statement by
itself.  A handler is a chain of actions named after it (`SaveBegin`, `SaveRead`,
`SaveWrite`; `ExecuteBegin`, `ExecuteCheck`, then either `ExecuteRun`,
`ExecuteReport`, `ExecuteSave` or `ExecuteAddTask`, `ExecuteSetAsync`;
`RollbackBegin`, `RollbackRun`, `RollbackLoad`, `RollbackWrite`; ...).  Reads of
the row on entry are folded into the `...Begin` action, guards in it are the early
returns of the handler.  Requests are accepted for any id ever handed out,
because the pages that offer the buttons were rendered at an earlier time.

* save reads the status twice; the second reading is kept unless it is 0, which
  Python treats as "no status" (`ui/controller/mysql_change.py:129-147`):
  `SavedStatus`.
* commit writes `ORDER_STATUS_NO_VIEW` into an existing row without having read
  it again: a new model object carries 0.
* Inception is external and appears through its answers.  A check is clean or
  not; a run that returns a result set without errors took effect; errors or an
  exception say nothing about the effect (`Apply`: the connection may be lost after the
  statements were done, and `ui/sql_checker/inception.py:287` swallows the
  exception of `execute` and lets the following fetch raise).
* A restart (`ui/online_restart.sh` is a `kill -9` of all processes) and any
  exception of the database are `Abort` of a thread and `WorkerAbort`: the locals
  are gone, the tables stay.  A restart that kills several actors at once is
  several of these steps in a row.  An exception of the worker is caught by its
  loop (`ui/task/async_sql_exec.py:120`), which drops the task it held.

### Archive tasks

* The clock `now` counts instants; `Schedule[k]` is the set of instants that the
  cron rule of task `k` matches, and `After(t, k)` is what `croniter` iterates.
  An *occurrence* is a task and one of its instants.  `Due` is the set of
  occurrences that one round of the judger finds: for each enabled row the first
  match after `latest_exec_time`, if it is not in the future.
* A round is `JudgerBegin` (the one SELECT), then for each due task
  `JudgerAdvance` (the UPDATE of `latest_exec_time`), `JudgerSend`, `JudgerAck`
  and, for a run-once task, `JudgerDisable`, then `JudgerEnd`.  The round works on
  the rows it read, whatever administrators do meanwhile.  Each step has the
  error outcome of its `try` block; an UPDATE that raised may have been done.
* `mail` holds messages sent and not received, `acked` the senders that were
  answered and have not read the answer.  The executor answers before it forks
  (`ExecutorReceive`, `ExecutorFork`); a failing fork ends its loop, which catches
  nothing, and the senders wait for ever (their sockets have no timeout).
* start_now is `StartNowBegin`, `StartNowSend`, `StartNowAck`; reversing the
  status is `ReverseBegin` (the read) and `ReverseWrite`.
* `Restart` kills server, judger and executor at once and with them the messages;
  a forked run has renamed its process and survives.
* `claims`, `starts`, `reenabled` and `undisabled` record what happened; only
  properties read them.

### A run of an archive task

* `run[p]` is the program point of the forked process `p`, the tables its present stage
  has left, and whether it succeeded.  `task` holds the settings that decide the
  path: backup, creation of destinations, deletion, and whether the destination's name
  has the present second in it (`stamped`: `dst_table_type` 1 and 5; the names of the
  other types change at most once a day and are one fixed name here).
* The stages follow `safe_archive`: `Load`, `Dump` per table, `Ensure` per table,
  `Archive` per table, `Log`.  Any error ends the stage and goes to the log as a failure
  (`GiveUp`); `Die` is a killed process or an exception outside the `try` blocks.
  The code visits tables in three orders (a set's, the stored, the sorted); the model
  in any.
* mysqldump, pt-archiver and the servers are external.  The shell creates the file of a dump
  anew (`Write`); a dump that fails or is killed leaves any part of the rows in it
  (`WritePart`, by `Dump` or `Die`).  pt-archiver inserts rows and deletes, if told to purge,
  only rows it inserted; it may stop anywhere in between, and does when the destination
  is missing (nothing happens) or a row is already there.  That it deletes nothing it
  did not insert is pt-archiver's contract and assumed here.
* `src` and `copied` are the rows that the condition selects, `file` the dumps by name.
  `atStart`, `dumped` and `purged` record, per run, what was there when it loaded the
  task, what its complete dumps saw and the files they wrote it to, and what it deleted;
  `overwritten` the files that had rows when they were created anew.  Only properties read
  them.
* The pages let a task with a destination table of its own name have one table only
  (`ui/controller/api.py:361`); names of different tables are therefore different.

### Inventory and puller

* `server` and `instance` are the rows of `mysql_server` and `mysql_instance`; `stored`
  counts the rows of `mysql_ins_db` for an instance and a name, because the table has
  no unique key.  Ids are handed out in order and never again.
* `add`, `edit` and `delete` are chains of actions, one per statement.  `AddBegin` and
  `EditBegin` hold the checks on the address; the one on the host name has the same
  form and is left out.  edit keeps the row of the server and replaces its instances;
  the databases of the old ids stay in the table, and nothing ever looks at them again.
* `lastrowid()` after the INSERT of a server is read from an object that all threads
  share (`AddServer`): any id may come back, and a wrong one counts as a fault.
* delete reads the instances of the *object's* id, which is 0 (`DeleteBegin`).
* A round of the puller is `PullServers`, then for each server `PullInstances`, for each
  instance `Detect` and `Compare`, then `DelDbs` and for each new name `AddCheck` and
  `AddInsert`.  `Onward` says what comes next; the order within each list is any.  The
  locals of the round (`pul`) hold the address and the instances read earlier.
* A detection may fail.  With `IS_DETECT_TABLE` it looks into one database after the
  other and keeps those before the failure; without, it has none or all.  The branch on
  the status compares a failed detection, too, if it has a database (`Comparable`).
* Every call may go unanswered (`LoseAnswer`): `del_dbs` and `add_dbs` write a log line
  and go on, while the handler, now in `late`, may still do its work, at any time.
  `RoundCut` is an exception outside those two, or a restart of the puller: the lists of
  servers, instances and databases are requested without a `try`, and any failure there
  ends the round or skips to the next server, which is a shorter round.
* `actual` is the world: the databases behind each address.  There is always one
  (`information_schema`), which is why an empty list means a failure.
* `seen`, `missed` and `raced` record what detections found and missed and which rows
  two handlers were about to insert together; only properties read them.
* Left out: `puller_status` and `puller_errmsg`, written and only shown, and `doc`, the
  structure of the tables, which is stored with the row and not compared.

### The verifier's policy and the zombie check

* `setting` is the one row of `auto_verify`, `allow` the two columns of an instance,
  `round` the locals of `verify()` next to those in `thr[Verifier]`.  `VerifyBegin` reads
  the settings and the list of waiting orders and picks the first; `VerifyInstance(t)`
  loads its instance, chooses the range and looks at the clock, which shows any time;
  `VerifyCall` is the POST, and `api_execute` loads the row again.  The two reads at the
  start are one step: between them nothing is decided, and settings that change between
  them are settings that changed before or after both.
* `instance` is the set of rows of `mysql_instance`; without its row the handlers raise
  before they do anything, and the worker forgets the task it took.
* `zombies` is what `ps` shows; `CheckTasks` is the SELECT, `RestartInception` the restart.
  The restart breaks every call that Inception is serving (`cut`, `wrkCut`); the caller sees
  an exception, whatever the call had done by then (`BrokenCallsFail`).
* `Observed` and `Recorded` keep the history: `credit` counts commits of an order, plus
  launches whose report was cut short, minus automatic launches; `late` the automatic
  launches since the switch was turned off; `hidden` says that the restart's decision could
  not see the run (the SELECT came first, or a reset put the task back); `edited` that the
  order's text changed since the verifier picked it.  No action reads them.
* Requests, edits and mishaps draw on one budget, `MaxEvents`: any three of them, rather
  than so many of each.

### Grants

* `rows`, `request`, `status` and `account` are `grant_apply`; `granted` and `passwd` are
  the target server: which order was granted at which address, and the password that
  `identified by` last set for a user at an address.
* `GrantBegin` loads order and database; a database that is gone makes `grant` raise.
  Then `GrantOne` per address, in any order, or `GrantOneFails` (the exception may hide
  the effect of the statement), `FlushPrivileges`, `SetAccountInfo`, and `SetSucced` or
  `SetFailed`.  Nothing looks at the status: a grant may begin in any, and any number
  overlap.  `UserOf` and `GenPass` are the generated account, the database's name in
  lower case and an md5 over order and database.
* `cut` records the orders of which a grant was ended by a restart.

### Departments and users

* `deptRows` counts the rows of `department` for each name, `selected` those of
  `dept_server`, `userRows` and `roles` are `user_info`: none of the three has a unique key.
* A run of the collector is `CollectRead` (LDAP's answer, the SELECT and the comparison) and
  one `CollectInsert` per new name, in any order; the runs overlap because the loop forks one
  every minute, ended or not.  A process of `Collector` goes through many runs.  Before it compares, a run takes the first
  `all-user` out of the list of names it has read (`list.remove`), and keeps any others: with
  one such row the name is new once more, with two it is not (`Removed`, `ListedNames`).
* A commit is `CommitBegin` (the selected servers that exist; the id of the department is only
  checked to be a number, so any is accepted), `CommitDiff` (the rows of
  the department joined with the servers, and the comparison), `CommitAdd`, `CommitDel`.
  The two SELECTs behind the join are one step, which hides only a server deleted between
  them.
* A login, after LDAP has let the user in, is `LoginCheck`, then `LoginLoadRole` and
  `LoginUpdate`, or `LoginAdd`.  Roles other than the empty one are given by hand
  (`Promote`).
* `double` and `raced` record who was about to insert the same name, row or user at once;
  `batch` the selections of the commits for a department that overlapped last, `torn` that
  one of them was cut short; `promoted` and `stale` the users that were promoted, and those
  for whom a login held the old role then.

### What is abstracted

Who may call what, the target's address, mail and chat
messages, the JIRA issue, message texts and the rendering of results are left
out: no property of this part depends on them and none of them changes the two
tables (the calls are wrapped or made after the last statement).  A text is a model
value; a keyword search over it is membership in `FlaggedSql`.

## 3. Runs

| run | instance | shows |
|---|---|---|
| `race` | 2 threads, verifier, worker; 1 order, 2 tasks, 2 texts (one flagged), 4 requests | the type invariant, the five safety invariants, and the action properties `RollbackRecordSticks` and `RunsAreArmedAndExclusive` (the refinement of `JobQueue`) hold in every interleaving |
| `live` | 1 thread, verifier, worker; 1 order, 2 tasks, one text, 3 requests, 1 abort at any point, `SQL_CHECK` off | every queued task is finished unless the worker lost it, although requests and worker rounds are cut short |
| `double_rollback`, `async_lost` | 2 threads, 1 order, 1 task | what the repository says and its interleavings break (section 5) |
| `archive_live` | 1 administrator, judger, executor; a run-once task due at instants 1 and 2 and a task due at 1; 2 requests, 1 fault at any point | no occurrence is run twice or out of order (refinement of `Occurrences`), the schedule runs the run-once task once, a due task does not stay due, start_now answers |
| `run_faults` | 2 runs of one task, every combination of settings, 2 tables with a row each, 1 tick, 1 fault at any point | no row is lost, nothing of the start is purged without standing in a dump file, a logged success is whole |
| `inventory` | 2 administrators, the puller; 2 addresses, 1 port, 2 databases; 1 server, 2 instances; 2 requests, 1 change of the databases, 1 fault at any point | what is stored was detected, a duplicate needs two handlers at once, nothing is dropped unseen, and the store becomes accurate |
| `delete_leaves_dbs` | 1 administrator, no change, no fault | what the deletion of a server leaves behind (section 5) |
| `unattended` | 1 thread, the verifier, the worker, check_defunct; 2 orders on 2 instances, one task, two texts (one flagged), a range over midnight; 3 events (requests, changes of settings, aborts, zombies) | automatic runs are paid for, the switch and the range are obeyed, flagged texts need an edit, a restart breaks only hidden runs, the refinement of `SqlOrder`, and the two liveness properties |
| `window` | the same, 1 order, a range inside one day | what the test of the range lets pass (section 5) |
| `grant` | 2 threads, 2 orders for one database, 2 addresses, generated and chosen accounts; 5 requests, 1 fault at any point | a success is complete, the account shown works, nothing given is left waiting |
| `access` | 2 collectors, 2 threads, 3 groups, 1 id of a department, 1 server, 1 user; 4 events (requests, changes in LDAP, promotions, aborts) | selections are kept, duplicates need a race, promotions stick, every group gets its department |

Sizes: `run_faults` about three and a half million distinct states; `race` about one million,
`live` and `inventory` eight hundred thousand each, `access` five hundred and fifty thousand,
`grant` three hundred thousand,
`unattended` two hundred and thirty thousand, `archive_live` one hundred and fifty thousand;
each takes one to two and a half minutes.

**Why the bounds are enough.**  The longest scenarios the invariants exclude need
one request to create the order, one to bring it to a state, and two that overlap
in it: four requests, two threads.  Two tasks are needed for "one at a time" and
for an order with a finished and a pending task.  Two texts distinguish "checked"
from "not checked" and "run" from "not run"; one of them is flagged so that the
verifier has something to refuse.  The theorems of section 6 remove the
bounds for every safety property, and for the liveness properties under the premises
they name.

For the verifier's policy, two orders on two instances are what one order needs to hold
back another; each scenario the properties exclude takes at most three events (save, commit
and one more: an edit, a cut report, a switch, zombies, a reset), and the theorems remove the
bound.  For the grants, two orders of one database share a user name; five requests are two
applications and three grants, of which two overlap in the same order; one fault is the one
address that fails.  For the access tables, two of each actor overlap; four events are two
commits, a deleted server and a restart, or two logins and a promotion and one more; one server,
one department id and one user suffice, since the properties speak of one of each at a time and no
statement relates two.  The rows of `department` need no bound: they stop growing by themselves.

For the archive tasks, two instants of one task let an occurrence be skipped or be
followed by a later one that finds the task disabled or not; two due tasks make a round
whose second half works on stale rows; two requests let the administrator undo between
two rounds what a round began with, and one fault can be put into any step of all that.
That several administrators overlap is covered by the theorems.

For the inventory, one server with two ids for instances is what an edit needs to
replace an instance under the puller; two databases make a detection partial; one
change makes the store stale once; the one fault is either the partial detection, or the
lost answer (whose handler then runs, or dies, in a later round), or the cut round, or
the misread id.  Two requests let an edit or a deletion overlap with another.

For a run, two tables make "one done, the next fails"; two runs overlap in every pair
of stages; one tick suffices for two different names; one fault can be put at every call.

Bounds: `MaxTime` stops the clock, `MaxFaults` caps failures, `MaxRequests` caps accepted requests, `MaxAborts` the exceptions and
restarts; `MaxEvents` the events of `Unattended` and `Access`;
ids are the finite sets `OrderId` and `TaskId`.  An INSERT when no id is left is not
enabled.  `CHECK_DEADLOCK FALSE` is there because the system may really stop:
users owe nobody a request, and the bound on requests stops them.

Symmetry is used over threads and tasks in `race` and over runs in `run_faults` (the
values are only compared for equality), there also over the two tables, each taken with its row, and not in the runs with liveness properties.

**Fairness.**  Only `WF_vars(WorkerStep)`: the worker is a loop that sleeps a few
seconds, catches every exception and starts over, and each of its calls returns
or raises.  Nothing is assumed of users, nor of the verifier, which may be switched
off or outside its window, nor of aborts.

For the archive tasks: `WF_vars(JudgerStep)` and `WF_vars(ExecutorStep)`, two endless
loops (the judger's catches everything; the executor's catches nothing, and the
properties except a dead executor), and weak fairness for the rest of a request that
has begun, which is straight-line code.  Nothing is assumed of the clock, of the
start of requests, or of faults.

For the inventory: `WF_vars(PullerStep)`, the endless loop of the puller, which catches
everything, and weak fairness for the rest of a request that has begun and for handlers
that outlived their call, both straight-line code.  Nothing is assumed of administrators,
of the databases, or of faults; they come to rest because they are bounded, and that they
do is the premise of `Converges`.

For the policy: weak fairness of the verifier's round, of handlers that have begun, of the
worker and of check_defunct, all loops that catch everything or straight-line code; and strong
fairness of `InTime`, a round that falls into the range of its order.  The verifier polls every
few seconds and a range lasts longer than that, so rounds fall into it day after day; without
the assumption the clock could avoid the range for ever.  Nothing is assumed of settings,
users, zombies or restarts.

For the access tables:
weak fairness of each collector, whose loop forks a run every minute; nothing is assumed of
administrators, users or LDAP, except that it answers in the end.

Every property of every passing run is shown to be falsifiable by a mutant of the
model that corresponds to a plausible mistake in the code; the mutated operators stand
in the modules as "a variant for mutation" and no action uses them.

## 4. Properties

* `PendingWasChecked`: an order in the state that the approver acts on carries a
  text that a commit's check found clean.  It relates two handlers that both
  write text and status around a remote call.
* `SuccessIsBacked`, `RollbackUndoesARun`: statuses and result sets are never a
  fiction, although they travel through save's re-read, two executors, an
  operator's repair and a worker that runs seconds later.
* `AsyncHasTask`: "in the background" always has a row in `sql_task` behind it.
* `RollbackCountIsHonest`, `RollbackRecordSticks`: increments may be lost, but
  never invented, and the counter never returns to zero while the row exists,
  whatever concurrent increments overwrite: so a counted rollback bars all later ones.
* `RunsAreArmedAndExclusive`: the table and the worker implement `JobQueue`; the
  abstract credit of a task is `arms - starts`, the abstract active job is what
  the worker runs from the load of the order on.
* `QueuedTaskRetires`: liveness of the queue.  The exception it makes, a task
  lost by the worker, is real: nothing in the code takes a task back from
  EXEC_ING but an operator's `reset_async`.

* `OccurrencesRunAtMostOnce`: judger, message and executor implement `Occurrences`;
  what makes it hold is that `latest_exec_time` is advanced before the message is
  sent and that it is advanced to the present, past everything skipped.
* `ScheduleRunsOnce`: a run-once task is run by its schedule at most once although
  it is disabled only after the message.  Its two exceptions are real: a failure
  between message and UPDATE, and an administrator's request that enables the task.
* `WaitsEnd`, of `DueIsClaimed` and `StartNowAnswers`: the two waits of the design come to an
  end, but for the dead executor, which nothing restarts.

* `NothingLost`: two overlapping runs, each stopped anywhere, that insert under names
  computed at different seconds, still lose no row.
* `PurgedIsBackedUp`: a row of the start is gone from the source only with the row in a file
  that the run's own dump wrote, whatever other dumps fail, are killed half way or write to
  their files.  The exception is a file that had rows and was created anew by a dump of the
  same second (section 5).
* `SuccessIsWhole`: the one status in `archive_log` covers all tables; it stays true
  although other runs move rows from under this one.

* `StoredWasDetected`: between detection and INSERT lie an HTTP call that may be
  abandoned, and edits that replace the ids; still no database is stored under an id for
  which it was not detected.
* `DuplicatesNeedARace`: a second row for a name takes two handlers between check and
  insert, which takes an abandoned call: one puller alone does not duplicate.
* `NothingDroppedUnseen`: an instance that cannot be reached keeps its databases; those
  dropped were missed by a detection that found others.
* `Converges`: partial detections, lost calls, late deletions and stale addresses all
  leave errors in the store; every one is repaired by later rounds.

* `AutoRunsArePaid`: the verifier acts on a status read long before and `execute` never
  looks at it; still an order is executed automatically no more often than it was committed,
  but for reports that were cut short.
* `SwitchOffStops`: one order may still go, the one whose round has read the switch.
* `MidnightRangeKept`: the odd test of the hours is right for every range over midnight.
* `FlaggedNeedsAnEdit`: the POST names the order and not the text; between judging and
  running lies an edit, or the text is the judged one.
* `CutRunsWereHidden`: the decision to restart Inception is stale when it is carried out; the
  runs it breaks are those it could not have seen.
* `WaitingIsServed`, `DefunctIsCleared`: liveness, with the exceptions that the code makes:
  the first order may be stuck (its instance gone, or without any range), and an orphaned task
  stops restarts for ever.

* `SuccessIsComplete`: the status is written without looking, by grants that overlap and
  stop anywhere; still it says success only of an order granted at every address.
* `ShownAccountOpens`: orders of one database share a user name, not a password.
* `WaitingGaveNothing`: a grant that stops half way says so.

* `SelectionsAreKept`: two commits that overlap may leave a mixture of their selections,
  never a server that none selected nor one missing that both did.
* `DuplicatesNeedARace`: what stands twice in tables without unique keys was raced for; of
  `all-user`, one row of which each run overlooks, it is what stands three times.
* `PromotionSticks`: login writes the role back that it has read.
* `GroupGetsDepartment`: overlapping and dying runs of the collector still add every group,
  all but the name of the company.

## 5. What the model showed about the code

Four statements of the repository fail, each with a short counterexample that a
`violation` run produces; `PROJECT.json` quotes the lines.

1. *An order cannot be rolled back a second time* (`ui/sql_checker/rollback.py:29`).
   Two overlapping requests both read 0.  The theorem `RolledBackOnce` names all the causes:
   a request let in while another rolls the same order back, or a rollback that took effect
   and is never counted (its run reports an error all the same, or its request dies before
   the count).  Where neither happens, the claim holds.
2. *A queued order will show its result* (`ui/controller/sql_order.py:360`).
   The task is inserted before ASYNC_EXEC is written, so a fast worker's result
   is overwritten.  `AsyncReports` shows that nothing else breaks the claim: either execute
   or a save that had read ASYNC_EXEC writes that status after the last result.
3. *Deleting a server deletes the databases of its instances*
   (`ui/model/mysql_server_model.py:45`).  The instances are looked up by the id of the
   model object, which is 0, so the rows of `mysql_ins_db` stay.  What it does delete are
   the databases of instances that belong to no server (`DeletionsTakeStrays`).
4. *The range of an instance is the time in which automatic execution is allowed*
   (`ui/sql/sql-admin-ui.sql:30`).  The test joins two conditions on the hours by `or`, which
   is right over midnight only; for a range inside one day nearly every time passes
   (`DayRangeIsOpen`).

Behaviour met while modelling that is worth knowing, without a run of its own; the
properties are stated so as to make an exception of it.

* A text without flagged keywords is judged in one process and loaded again in another: an
  edit in between is executed unjudged (`FlaggedNeedsAnEdit`).
* A save that re-reads the status stores a new, never executed text under status 1.
* Rows that arrive between the dump and pt-archiver are purged without being in the backup
  (`PurgedIsBackedUp` speaks of the rows of the start).
* The name of a dump file holds the task and the second.  When two runs of one task dump a table in
  the same second, the later dump creates the file of the other anew; if it fails, or if the rows
  have been purged by then, the backup of the other run is gone (`overwritten` in
  `PurgedIsBackedUp`; without this exception TLC finds it).
* A destination name with a time in it is computed once for the creation of the table and
  once for the move, and may differ; the run then fails and loses nothing.
* The password shown with a granted order stops working when another order for the same user
  and address is granted (`ShownAccountOpens`).
* The collector gives `all-user` a second row, because it takes one such name out of the list it
  compares with; a third needs overlapping runs (`DuplicatesNeedARace`).
* A commit accepts the id of a department that does not exist, and fills `dept_server` for it.
* Overlapping commits may leave the union of two selections (`SelectionsAreKept`).
* A login that overlaps a promotion writes the old role back (`PromotionSticks`).
* One order whose instance is gone holds back all automatic approval (`WaitingIsServed`), and
  one orphaned task all restarts of Inception (`DefunctIsCleared`).

## 6. Proofs

All are checked by TLAPS for every value of the constants, under the named
assumptions:

* `NullsAssumption` (`OrderTables`): the NULL values are not ids or texts.
* `OrderAssumption` (`SqlOrder`): the verifier is not one of the server's
  threads, of which there are finitely many; flagged texts are texts; the switch
  is a boolean; the bounds are natural numbers.
* `ArchiveAssumption` (`ArchiveDispatch`): schedules are sets of positive instants, finite
  or not; run-once tasks are tasks; the judger is not an administrator.
* `RunAssumption` (`ArchiveRun`): every row belongs to a table, there is a table, the bounds are
  natural numbers.
* `TimeAssumption` (`ExecTimeRange`), `UnattendedAssumption` (`Unattended`): hours, minutes,
  seconds and order ids are natural numbers, ranges are pairs of times, each order has an instance.
* `GrantAssumption` (`Grant`): generated user names and passwords are such, the null values are
  not values; `AccessAssumption` (`Access`): the two special groups are groups and differ, the null values are not ids
  of departments or users, the bounds are natural numbers.
* `InventoryAssumption` (`Inventory`): the missing address is not an address, the switch is a
  boolean, the bounds are natural numbers.

| theorem | argument |
|---|---|
| `TypeSafe`, through `TypeCorrect` | `TypeOK` is not inductive: a write puts a thread's locals into a table.  `TypeInv` adds `LocalsOK`, which says what each actor holds at each program point. |
| `PendingSafe`, `RollbackSafe`, `SuccessSafe`, `AsyncSafe`, through `EvidenceCorrect` | `EvidenceInv` says of every program point what its locals are evidence of: a thread about to commit holds a vetted text, one about to save never writes status 0 and has a reason for 1 and 4, one about to report success or to save a result set has an effect behind it, one about to set ASYNC_EXEC has its task inserted; likewise for the worker.  Four step lemmas, one per conjunct, with the actions that cannot disturb a conjunct grouped. |
| `QueueImplemented` of `SqlOrderHistoryProofs` | `JobInv`: armings are never fewer than starts, strictly more for a task that is TO_EXEC or in the worker's hands before the load, and more by two when both (it was reset in between).  `QueueStep` then maps each step to an arming, a start, a stop or a stutter of `JobQueue`. |
| `CountSafe` of `SqlOrderHistoryProofs` | `CountInv`: for each order, the counter plus the number of threads that have rolled back and not yet counted never exceeds the rollbacks, and the same holds with the value any thread read and is about to write back.  The second half is what makes a lost update harmless.  It counts threads, hence the finiteness assumption and the library's facts on cardinality. |
| `RecordSticks` | an action property: the only action that writes the counter writes a successor. |
| `RolledBackOnce` | the claim of finding 1, for behaviours in which no rollback overlaps another of the same order and none takes effect uncounted.  `OnceInv`: at most one thread rolls an order back; what it has not yet run has not happened; what happened is counted, or about to be. |
| `TasksAccounted` | `AccountInv`: a task in EXEC_ING is in the worker's hands or was lost by it, a finished one was begun. |
| `AsyncReports` | the claim of finding 2, for behaviours in which ASYNC_EXEC is not written after the last result.  `ReportInv`: an order in ASYNC_EXEC that no reset put there has a task not yet reported, which is more than not yet finished, because the worker reports before it finishes; `ResetInv` follows reset_async between its two statements.  `WhoSetsAsync` and `WhoReports` name the steps that can disturb it. |
| `GuaranteesCarryOver`, `HistoryCarriesOver`, `OrphansHaveACause` of `UnattendedProofs` | through `PolicyRefines`: what is proved of `SqlOrder` holds of the composition without a second proof; with `TasksAccounted`, an orphan that blocks restarts was lost by the worker. |
| `DeletionsTakeStrays` | the other side of finding 3.  `StrayInv`: the ids that a deletion will take the databases of are those of instances that belong to no server, now as when they were read, because an instance never changes its server and only instances of a server are deleted. |
| `WaitsAreAnswerable` | `TalkInv`: a sender waits if and only if its one message is in the socket or its answer is there, never both; so judger, administrators and executor never wait for each other. |
| `TargetTraced` | `TargetIsTraced` is inductive over `Inv`: the target changes only by a statement of a grant (`TargetFrame`), for an address that its order asked for and with the order's account, and requests never change (`RequestsStay`). |
| `ArchiveTypeSafe`, `OccurrencesImplemented`, `OnceSafe`, through `InvCorrect` | `Inv` has four parts.  `TypeInv`: types and locals.  `ClaimInv`: a claim is not later than `latest_exec_time` while the row exists, and what a round still has to do is later than every claim, so a claim is never repeated.  `FlightInv`: a claimed occurrence on its way is in exactly one place, the judger's hands, the one message it waits for, or the executor's hands, so it is forked once.  `OnceInv`: while an occurrence of a run-once task is live the judger still holds it or the task is disabled, and the round has nothing more to do with it. |
| `RunTypeSafe`, `NothingLostSafe`, `PurgedSafe`, `SuccessSafe` of `ArchiveRunProofs`, through its `InvCorrect` | `Inv` is `TypeOK`, `NothingLost` and, for each run, `Own`.  None of the guarantees but `NothingLost` is inductive: `DumpInv` says which rows of the start are `Backed` while tables are left (all, once the stage is over); `WriteKeeps` that a row stays so, since a file loses rows only by being created anew; `MoveInv` that the tables no longer left are whole and that `ok` means all are.  `RunGrow` and `OtherGrow` collect what no step takes back (destinations, copies, dumps grow; a row that left does not return), so `Frame` carries `Own` of a run over the steps of all others; each stage then has one lemma for its own run. |
| `InventoryTypeSafe`, `StoredSafe`, `DropSafe`, `DuplicateSafe`, one invariant each | `TypeInv` adds to `TypeOK` that a round with instances left to detect holds an address.  `DetectedInv`: what the puller has found, is about to add or insert, and what abandoned handlers insert, was detected for that id.  `MissedInv`: what the puller is about to delete, and what abandoned deletions delete, was missed by a detection of that id that found something.  `RaceInv`: unless a row was raced for, at most one handler is between its check and its insert, and then none is stored. |
| `PolicyRefines` of `UnattendedProofs` | initial states are initial states, and each of the policy's actions is an action of `SqlOrder` with more guards, or leaves its variables alone.  `WorkflowCorrect` then brings the invariants of `SqlOrderProofs` over. |
| `UTypeSafe`, `SwitchSafe`, `MidnightSafe`, `FlaggedSafe`, `CutSafe`, `PaidSafe` | one invariant each over `UTypeInv`, which adds that the round and the verifier's thread move together: `SwitchInv` allows one launch to a round that has begun, none otherwise; `JudgedInv` says that the text to run is the judged one unless edited; `HiddenInv` that a run the checker is about to break was hidden; `PaidInv` that a verifier which may still launch holds a credit.  The frame lemmas say what steps of the workflow may do to the verifier's call. |
| `MidnightExact`, `DayRangeIsOpen` | pure facts about the test of times, for all hours, minutes and seconds: exact over midnight; inside a day only the part of the first hour before the begin is kept out. |
| `GrantTypeSafe`, `CompleteSafe`, `ShownSafe`, `WaitingSafe` of `GrantProofs`, through its `InvCorrect` | `Work` says what each thread knows of its order at each point: addresses no longer left are granted, and the account is written before the status.  Privileges are not taken back and requests do not change, so other threads keep it true (`OthersKnow`).  `Passwords`: the password of a granted account is that of an order granted there. |
| `AccessTypeSafe`, `SelectionsSafe`, `DuplicatesSafe`, `PromotionSafe` of `AccessProofs`, through its `InvCorrect` | `SelInv` is the heart: for a department whose batch of overlapping commits was not cut short, a server that every commit of the batch selected is allowed or about to be, and nobody is about to delete it (`Wanted`); one that none selected is gone or about to be, and nobody is about to insert it (`Unwanted`).  It covers commits that compare before, between or after the writes of the others, which is why the result does not depend on the order.  `DeptInv`, `PermInv` and `UserInv` say that a name, a permission or a user nobody raced for is about to be inserted by one actor at most, and only while there is none (of a name: while there are no more rows than the run overlooks, one of `all-user` and none of any other); `PromInv` that every copy of a promoted user's role held by a login is the new one.  Lemmas named `...Effect` say once what a step does to its thread. |

### Liveness

ENABLED is out of the prover's reach, and with it what weak or strong fairness of an action
means.  The theorems below therefore start one step later: in the place of fairness they have
premises that say which rounds go on, in terms of states (`[]<>`), and which events cease.  What they prove, for every value of the constants,
is the part in which the interleavings matter: that what a round achieves is not undone, and
that nothing but the named exceptions stands in its way.

| theorem | premises beside the specification | argument |
|---|---|---|
| `RoundsConverge` (`Converges`) | rounds end, and begin again unless there is no server; from some time on only the puller acts and nothing fails | the errors that the past has left may be any.  `Repairing`: what the round took from the tables is up to date, and each instance is still to be looked at or will be exact after the posts that are planned.  It holds when a round begins (`RoundBegins`), no step ends it (`RepairStep`), and at the end of a round it is `Settled`: accurate, with nothing to post, which later rounds keep (`SettledStep`). |
| `RoundsClaimTheDue` | rounds of the judger end, and begin again while something is due, unless the executor is dead; faults cease | a task that is due is on the list of the round that begins next, and stays due until `JudgerAdvance`, the only step that takes it from the list. |
| `StartsAreAnswered` | the socket becomes empty again and again, answers are read, unless the executor is dead | by `TalkInv`, a message that is gone was answered; an answer waits for its reader (`AnswerStays`). |
| `WaitsCease` (`WaitsEnd`) | both | both. |
| `GroupsGetDepartments` (`GroupGetsDepartment`) | one collector's runs end, and begin again while there is something to add; from some time on they are not cut short | the run that begins next takes the group (`RunTakes`) and keeps it until it is inserted, by itself or by another (`RunKeeps`). |
| `ZombiesAreCleared` (`DefunctIsCleared`) | the worker's runs end; `check_defunct` comes back to looking, and looks again if it time and again could decide | a restart decided upon is carried out before the next look (`DecidedStays`); while the worker is idle it has no task in its hands (`IdleHandsEmpty`), so what hinders is an orphan (`OnlyOrphansHinder`). |
| `QueueDrains` | the worker's runs end, and one begins again while something is queued; from some time on nothing is queued or reset, and no round is cut short | no step then adds to the tasks that are queued or in hand (`OpenStep`), and one leaves them only by being finished or lost (`QueueShrinks`: the worker keeps a task until then, `HeldUntilSettled`, and a queued one waits for it, `QueuedUntilHeld`).  The round that begins next takes some task (`RestStep`), whichever it is, and this one is out of the queue for good when the round ends (`CleanStep`).  So the set becomes strictly smaller, again and again while it is not empty, in whatever order the SELECT returns the rows. |

That the fairness of section 3 implies the premises is not proved.  TLC finds it to hold: with
the premises as the PROPERTY, the instances of `live`, `archive_live`, `inventory`, `unattended`
and `access` pass under the fairness that these runs state.  The premises of `QueueDrains`
and its conclusion hold on the instance of `live`.

`QueueDrains` is not said to establish `QueuedTaskRetires`, for two reasons.  That a finite set can
become smaller only finitely often is an induction over data, which is out of the provers' reach.
And getOneTask's SELECT states no order, so where tasks keep coming nothing in the code excludes
that one is passed over for ever; in the theorem the arrivals cease, in the run the bound on
requests makes them cease.

Only model-checked remain:

* that fairness implies the premises above (ENABLED);
* `QueuedTaskRetires`: `QueueDrains` leaves the counting to TLC;
* `WaitingIsServed`: an order waits for all those with smaller ids, so a proof is an induction
  over them, and each step of it rests on strong fairness of `InTime`.  The first is out of reach of
  the provers (the induction theorems have an operator as parameter), the second of the method above:
  a premise that rounds fall into the range of the first order would be the conclusion.

The violated claims have counterexamples; `RolledBackOnce`, `AsyncReports` and
`DayRangeIsOpen` say how far they fail.

## 7. Not modelled, and the plan

Left for later:

* the JIRA issue that commit opens: `lastrowid()` of the connection object that all threads
  share may name another order (`ui/controller/mysql_change.py:294`); the same hazard is
  modelled for the instances of a new server;
* `archive.commit`, which names columns that the schema no longer has and always raises;
* `set_slave_info`, `puller_status` and the documents of tables, which nothing compares.

Left out for good: query and export pages, proxy and RPC, index and slow-query
statistics, logging, routing, static pages: they keep no state that two actors share, or
none that anything depends on.  The program itself is Python.  All the JavaScript of the
repository (Highcharts, the ace editor, jQuery plugins under `ui/static`) is vendored and runs
in the browser; none of it is modelled, and a measure that counts the lines of the JavaScript
files alone finds none covered.

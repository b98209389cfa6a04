# Verification of daily_record

`daily_record` is a collection of working notes with a few programs and
clusters in it. Three of its parts have logic of their own that is worth a
model: a Go tool that renames a whole source tree (`src/RenameProject`), the
control scripts of a Spark cluster in containers (`src/spark/spark-cluster`),
and the script bundle that the notes patch into elasticsearch-head
(`src/elasticSearch/*/vendor.js`, which holds jQuery 1.6.1, Sizzle, Raphael
1.5.2, its charts and some helpers). This directory holds TLA+ models of the first two and
of those parts of the third that keep state or compute something intricate,
what TLC checks of them and what TLAPS proves about them.

There are two copies of the bundle, for v6.8.13 and v7.12.1, with the same
text. Line numbers from 394 to 14499 without a file name refer to either.

## The system's parts

| Part | State | Operations | Interacts with | Hard because |
|---|---|---|---|---|
| RenameProject (`main.go`) | the files' names and contents; the stack of directory loops, each over a list read beforehand | walk, rename an entry, rewrite a file | the file system, the person who runs it again | it changes the tree it walks over; kills and errors halfway; repeated runs; colliding names |
| Spark control scripts (`spark_sbin`) | the daemons per machine and number (pid files of `spark-daemon.sh`), the host list, `SPARK_WORKER_INSTANCES` per machine | start-all, stop-all, stop-all `--wait`, and the scripts they send to the hosts | ssh, `spark-daemon.sh`, the containers | parallel sessions, failing ssh, two operators, daemons that exit late |
| Spark entry points (`entyrpoint-*.sh`) | what runs in a container | start ssh, Hadoop, the master or the workers | the control scripts | containers start and stop while scripts run |
| Spark history server scripts | one daemon | start, stop | `spark-daemon.sh` | `stop-all.sh` does not know it |
| MySQL replication (`mysql/master-slave`) | binlog position per replica, read-only flags | the procedure of the README | master, two replicas | a fixed start position, skipped errors |
| Redis replication (`redis/master-slave`) | the role of each server | one delayed REPLICAOF | two servers | the delay races with the server's start |
| Ansible example | packages and processes of the hosts | two tasks | ssh | not idempotent |
| Hadoop images, MySQL monitoring, Jenkins image | configuration | none in the repository | - | - |
| deferreds of jQuery (`vendor.js` 944-1135) | two lists of callbacks and three flags each; the count of `when` | done, fail, resolve, reject, pipe, when | callbacks that call the deferred again | callbacks add, settle and throw while a list fires |
| ready of jQuery (394-480, 898-931) | a counter, isReady, a list of functions | ready, holdReady, bindReady | the browser's events and timers | events gone by, holds, a document without a body |
| data of nodes in jQuery (1385-1580, 5566-5832, 5981-6026, 6142-6183) | `jQuery.cache`, a number per node, the browser's listeners | data, removeData, bind, unbind, remove, detach, empty, replaceWith, clone, append | the document, events, queues | seven places keep five things in step; clones begin with references |
| queues of jQuery (1706-1872) | an array per element and type, marks, promises about them | queue, dequeue, clearQueue, promise | the functions queued, timers | functions that queue, clear and dequeue; stale arrays |
| animations of jQuery (7964-8213, 8335-8482) | `jQuery.timers`, `timerId`; an element's inline styles and `olddisplay` | show, hide, toggle, animate, stop, tick | frames, callbacks, queues, stylesheets | the array changes while it is gone through; what an animation keeps is put back after other calls |
| events of jQuery (2515-2941, 3395-3475) | handlers per element and type, `triggered` | bind, one, unbind, trigger, handle | the browser's listeners | handlers that bind, unbind, trigger and throw |
| ajax of jQuery (6679-7720) | the state of each request, `jQuery.active`, properties of `window` | ajax, abort, done, prefilters, conversions, JSONP | transports, timers, callbacks | aborts, timeouts and throws anywhere; late scripts |
| elements of Raphael (10127-10782, 10897, 11240-11514, 12635-12680) | a doubly linked list per paper, beside the nodes | the constructor, clear, remove, toFront, toBack, insertAfter, insertBefore, of elements and sets | the document | two structures kept alike by hand |
| animations of Raphael (12216-12321, 12432-12595, 12657-12673) | `animationElements`, a timer per element | animate, stop, remove, the frames | timers, attributes, callbacks | the array changes while it is gone through |
| Sizzle (3725-4145, 4988-5076) | the candidates and what was reached from each; marks on nodes | select | the document | shared walks; right to left |
| date-range-parser (14298-14499) | none | parse, print | - | calendar arithmetic out of range |
| the rest of `vendor.js` | styles, texts into nodes, charts, formatting | one result per call | the browser | - |
| notes, pictures | none | - | - | - |

What makes them correct:

- **RenameProject**: no path is stale although the tool renames what it has
  listed; every entry that is not in a skipped directory is renamed and
  rewritten in full by a run that ends; nothing is lost unless two siblings come
  to one name; a run that is cut short does bounded damage; running it again
  does not make it worse where the rules allow that; it ends.
- **Spark scripts**: the master goes last; `--wait` announces what is true of the
  machines it could ask; after a start all instances run; scripts end.
- **Deferreds**: a deferred is settled once; every callback is called once, in
  order, whatever callbacks do; what depends on settled promises is settled.
- **Ready**: the functions are called once the document is there and nothing
  holds it, never before, and not forgotten.
- **Data**: a node with a number has its entry, an entry its node; the browser calls
  a node's own handle for what it has handlers for; nothing is shared with a clone,
  and a clone has it all; nodes lose what they have only with a tree that is removed.
- **Queues and animations**: what waits has someone who will attend to it;
  nothing is lost; complete is called once; an element ends shown or hidden as was asked,
  with its own display and styles; all of it ends.
- **Events**: the browser calls jQuery for exactly what has handlers.
- **Ajax**: what was aborted neither succeeds nor is sent; nothing of a finished
  request is left; the counter counts; success is given what was asked for;
  JSONP requests do not mix.
- **Raphael**: the list is the drawing; frames come while there is something to
  animate, and nobody ends the animation of another.
- **Sizzle**: what is found is meant, and nothing is missed where the engine need
  not turn back.
- **date-range-parser**: a range is the whole of the period that was written.
- **MySQL, Redis, Ansible**: a replica converges to its master; a replica becomes
  one; a playbook may be played again. These are promises of external programs.

## Modules

| Module | What it is |
|---|---|
| `RenameTree` | the walk of `main.go`: state, actions, mutants |
| `RenamePromise` | the abstract specification of the tool: one node at a time is renamed or rewritten as a whole |
| `RenameProperties` | properties of the walk; the refinement mapping to `RenamePromise` |
| `RenameProofs` | theorems about the walk, about what whole runs leave behind, and the refinement |
| `MCRename` | the trees and rules that TLC uses |
| `SparkControl` | the control scripts, the machines and what may go wrong |
| `SparkProperties` | properties of the scripts |
| `SparkProofs` | theorems about the scripts |
| `MCSpark` | host lists that TLC uses |
| `Promise` | the abstract specification of a deferred |
| `Deferred`, `DeferredProperties` | the callback lists; properties and the refinement to `Promise` |
| `When`, `Pipe` | the promise of `jQuery.when`; a chain made with `pipe` |
| `Promises`, `PromisesProofs` | these two beside the deferred, with the data of nodes and the showing of an element; theorems about all five |
| `DomReady` | when the document is ready, with its properties |
| `NodeStore` | the abstract specification of what nodes have: data and handlers of their own |
| `NodeData`, `NodeDataProofs` | the data cache and what moves, removes and clones nodes, with its properties and the refinement to `NodeStore`; theorems |
| `FxQueue`, `FxQueueProperties` | queues, marks and the promise of a queue |
| `FxTimers`, `FxTimersProperties` | jQuery's timers, their loop, `stop` |
| `ShowHide` | the display of an element, and what its animations put back, with its properties |
| `Events` | handlers, listeners, dispatch, with its properties |
| `Page`, `DomReadyProofs` | what happens in a page (`DomReady`, `Events`, `FxQueue`, `FxTimers`); theorems about it |
| `AjaxRequest`, `AjaxProperties` | the life of requests; properties |
| `AjaxTypes` | prefilters, transports and conversions of data types |
| `Jsonp` | the callbacks of JSONP requests |
| `Requests`, `AjaxProofs` | requests, those of JSONP and the way to a value; theorems |
| `ElementList` | the list of Raphael's elements, with its properties |
| `ElementFrames` | the animations of Raphael, with their properties |
| `Libraries`, `ElementListProofs` | both parts of Raphael; theorems |
| `Sieve`, `SieveProofs` | what is left of an array when a loop takes things out of it; lemmas |
| `Sizzle` | the selector engine, with its properties |
| `DateRange` | the parser of date ranges, with its properties |
| `MCPromises`, `MCRequests`, `MCPage`, `MCLibraries` | each puts several of these modules into one instance for TLC |

A definition whose comment begins with "Mutant" changes the one after it (or the
one named in its place) as a plausible bug would. No specification uses it. For
each property there is one under which TLC finds the property violated
(`PROJECT.json`, "mutants").

### RenameTree and main.go

A node is a file or directory as it was found. Its identity survives a rename,
which is what lets the properties speak of files that are lost. `Parent` is
constant, since a rename stays in its directory; `name`, `text` and `live` are
the disk. Names and contents are one set `Text`: all the code asks of a text is
whether a rule occurs in it (`Has`, `strings.Index`) and what a rule makes of it
(`Sub`, `strings.ReplaceAll`).

| Code | Model |
|---|---|
| `main` 15-24 | `Init`, `Rerun` |
| `doReplace` 57-65, `renameFileName` 82-90: `ioutil.ReadDir` | `ReadBase`, `OpenDir`, `Listing`; the call stack is `open`, its loops are `todo` |
| the loops 67, 92 over a sorted list | `NextEntry` (by `Rank`), `Take` |
| 68-70, `continue` for `.git`, `.github` at the top | `Skips`, `Skip` |
| `replaceFileName` 103-117 | `KeepName`, `Rename`, `RenameFails` |
| `os.Rename` (replaces a file, refuses a directory) | `Refused`, and `live'` in `Rename` |
| `replaceContent` 119-138 | `ReadFile`, `Rewrite` |
| `ioutil.WriteFile` 140 | `Truncate`, then `Flush` |
| end of a loop | `Return` |
| every `panic(err)` | `RenameFails`, `SystemError` |
| the process killed between two system calls | `Kill` |

The paths of the code are strings; `at` is the last part, below `cur`, and is
looked up on the disk again by each action that uses it, as the system calls do.
A path that named nothing would show as `err = "missing"`.

A file whose writing was cut short has the content `Torn`, in which no rule
occurs: that is the empty file left by the truncation, and stands for a partly
written one too, of which the model does not say what a later run would make.
`os.Rename` is Go's: a file of the new name is replaced, on Unix as on Windows,
and a directory of that name is an error.

Of the rule tables, `MCRename` takes three rules of `main_turingchain` (lines
32, 34, 35). The names are the real ones: `chain33` and `bty` as they are
replaced, `bty_33cn` and `chain33cn` that two rules match, `trc` and
`turingchain` that exist before and collide, and `btyhain33`, a content in
which the last rule produces a match of the first. The table of `main` has one
rule, which contains a `/` and so never matches a name: that is a case of
`KeepName` only. The rule that is commented out (line 43) is not in the model.

### SparkControl and spark_sbin

A shell runs a script as a list of phases (`Plan`); `Phase(s)` is the one at
work. A phase that goes through `workers.sh` opens a session per line of the
host list (`Spawn`), does not look at what becomes of each, and ends when all
have ended (`Wait`). The sessions work at the same time, one instance per step.

| Code | Model |
|---|---|
| `start-all.sh`, `stop-all.sh`, and the other scripts run on their own | `Run`, `Plan`, `Proceed` |
| `start-master.sh`, `stop-master.sh`; `start-history-server.sh`, `stop-history-server.sh` | `StartMaster`, `StopMaster`; `StartHistory`, `StopHistory` |
| `start-workers.sh`, `stop-workers.sh`, `workers.sh` 45-94 | `FanOut`, `Sends`, `HostList` |
| `workers.sh` 103-118 | `Spawn`; with `SPARK_SSH_FOREGROUND` one session at a time |
| `workers.sh` 120 | `Wait` |
| `start-worker.sh` 86-92, `stop-worker.sh` 39-45 | `StartWorker`, `StopWorker`, one round of the loop a step (`Round`) |
| `stop-all.sh` 36-51 | phase "poll": `ListWorkers`, and `Wait` or `Again` |
| ssh to a machine that does not answer, or a connection that breaks | `Drop`: the remote script goes no further, and the caller does not notice |
| `entyrpoint-master.sh`, `entyrpoint-work.sh` | `Init`, `Boot` |
| `start-worker.sh`, `stop-worker.sh` run by an operator on the machine itself | `RunHere`, one at a time on a machine |
| `spark-daemon.sh` (external) | `Launch`, `Signal`; a signalled daemon is there until `Exit` |
| containers, network, the operator's editor (external) | `Off`, `Sever`, `Heal`, `Edit` |

`old` and `cut` are history: the daemons there when the script, or its present
listing, began, and the lines of the host list whose session failed. No action
is guarded by them.

Abstractions: a start or stop by `spark-daemon.sh` is one step, so two starts of
one number at the same moment give one daemon (the script is not in the
repository; how it guards its pid file is not modelled), and the ports are left
out; a daemon is its class, machine and number, so two processes of
one number that have both been signalled (one started while the other was
exiting) are one record; `spark-env.sh` is edited only between scripts; a
broken connection always stops the remote script; the pauses
(`SPARK_WORKER_SLEEP`, `sleep 10`) are the time that other actions take.

### The modules of vendor.js

JavaScript runs one function at a time, so the concurrency is that of callbacks:
at certain points the code calls functions of the page, which call the same
object again before they return, or throw. Where that is so, the calls on the
stack are part of the state; an action goes from one such point to the next, and
the actions of the page are enabled whenever its code has control. Timers, frames,
transports, scripts and the document are actions of their own.

| Code | Model |
|---|---|
| `done` 959-985; `resolveWith` 988-1002 | `Deferred`: `Add`; `Settle`, `Fire`, `CallNext`, `Return`, `Throw`, `EndLoop`, `Leave` |
| `cancel` 1018-1022, 1087 | the callback `Cancel`, first of each list; `CancelOther` |
| `when` 1098-1132 | `When`: `When`, `Tell`, `Conclude` |
| `pipe` 1046-1069 | `Pipe`: `Pass`, `Follow` |
| `ready`, `holdReady` 402-435; `bindReady` 437-480; `doScrollCheck` 915-931 | `DomReady`: `SetReady`, `Hold`, `Release`; `BindReady`; `ScrollCheck`, and the browser's `Parse`, `ContentLoaded`, `Loaded`, `Timer` |
| `data`, `_data` 1409-1490, 1578; `removeData` 1492-1576; `event.add` 2540-2617, `event.remove` 2651-2762 | `NodeData`: `Entry`, `data`, `PrivateData`; `Leave`, `LeavePrivate`; `Bind`, `Unbind` |
| `cleanData` 6142-6183; `remove`, `empty`, `replaceWith`, `detach` 5607-5726; `domManip` 5728-5795; `clone` 5981-6026, `cloneCopyEvent` 5805-5832 | `cleanData`; the actions of the same names; `append`, `CloneNext`, `Insert`; `clone`, `CopyNext`, `cloneCopyEvent` |
| `queue`, `dequeue` 1754-1818; `clearQueue` 1837; marks 1728-1752; `promise` 1842-1872 | `FxQueue`: `Queue`, `Dequeue`, `CallNext`, `Return`, `ClearQueue`, `Mark`, `Unmark`, `Promise`, `Check` |
| `custom` 8335-8369; `tick` 8464-8482; `step` 8404-8442; `stop` 8191-8213 | `FxTimers`: `Animate`; `Begin`, `Tick`, `TickEnds`; `LastStep`; `Stop`, `StopAtEnd`, `StopSteps`, `StopEnds`; `Return` takes the timer out |
| `show`, `hide`, `toggle` 7964-8088; `animate` 8090-8189; `stop` 8191-8213; `step` 8404-8442; `complete` 8288-8300 | `ShowHide`: `Show`, `Hide`, `Directly`; `Animate`, `Begin`, `Prepared`; `Stop`, `StopAtEnd`; `Finished`, `LastStep`; `Complete`, `Dequeue`, `Go` |
| `add` 2515-2635; `remove` 2640-2761; `trigger` 2771-2901; `handle` 2903-2941 | `Events`: `Add`; `Remove`, `Unbind`; `Trigger`, `Bubble`, `Act`, `Acted`, `End`; `Snapshot`, `CallNext`, `Return` |
| `ajax` 7160-7320; `abort` 7031-7039; `done` 7045-7152 | `AjaxRequest`: `Ajax`, `Begin`, `Started`, `Veto`, `Passed`, `GetTransport`, `Send`, `Sent`; `Abort`; `Finish`, `Told`, `Complete`, `Completed`, `Uncount`, `Stopped` |
| prefilters 6679-6716, 7571-7663; responses and conversions 7407-7554 | `AjaxTypes`: `Prefilter`, `Transport`, `Answer`, `HandleResponses`, `Convert` |
| JSONP 7559-7651; the script transport 7689-7719 | `Jsonp`: `Ajax`, `CleanUp`, `Load`, `Fetched`, `Abort`; scripts `Run` at any time |
| `tear` to `insertbefore` 10127-10168, the methods that call them | `ElementList`: `TornNext`, `TornPrev`, `TornTop`, `TornBottom`; `Create`, `Clear`, `Remove`, `ToFront`, `ToBack`, `InsertAfter`, `InsertBefore`; a set's `Call` goes on member by member |
| `animation` 12217-12321; `animate` 12432-12583; `stop` 12584-12595; `Set.animate` 12657-12673 | `ElementFrames`: `FrameBegins`, `FrameGoesOn`, `AttrReturns`, `RunReturns`, `FrameEnds`; `Animate`, `LateAtOnce`; `Stop`; `AnimateSet`, `CallBack` |
| `Sizzle` 3725-3870; relations 4058-4145; `dirNodeCheck`, `dirCheck` 4988-5060 | `Sizzle`: `Find`, `Relate`, `Pruned`; `Related`, `RelatedTo`; `Walked` |
| `_parse` 14392-14499; `parse`, `print` 14331-14349 | `DateRange`: the operators of the same names, `procTerm`, `FromTo`, `Around`, `Alone` |

Abstractions. A callback, handler or function is a number or a model value, and
what it does is any sequence of the page's actions. Arguments and contexts are
left out where no property is about them: a deferred's values in `Deferred`, not
in `When` and `Pipe`. `NodeData` names the object that jQuery keeps about a node,
and the handle, by the number of the node they are made for, keeps of an object the
types with handlers, the handle and whether there is anything else, and of the page's
data the names. `FxQueue` has one element and one type, since the data of
others are apart. `FxTimers` and `ElementFrames` do not compute attributes: an
animation is running or its time is up, which for one that is started within a frame may be at once
(`LateAtOnce`). `AjaxTypes` models a value by the data
type it is of. `ElementList` keeps the order of the nodes beside the links, as
the document does. `Sizzle` numbers the nodes in document order, and parts of a
selector are compared as a whole. `DateRange` takes the lengths of a day, an
hour, a minute and a second as constants, and years from 1901 to 2099; what the
regular expressions cut out of a text is given as parts.

Some variables are history and guard no action: `added`, `called`, `thrown` in
`Deferred`; `pairs` in `NodeData`; `asked`, `orderly`, `whole` in `ShowHide`; `ran`,
`cleared`, `early` in `FxQueue`; `undone` in `Events`; `meddled` in `FxTimers` and `ElementFrames`; `aborted`,
`runs`, `rude` in `AjaxRequest`; `fate`, `called` in `ElementFrames`. `early`, `undone`,
`meddled`, `orderly`, `whole`, `rude` and `thrown` record that the page did what the
code does not withstand (below), and the properties say what holds until then. `astray`
in `ElementList` ends the behaviour, once a wrong link is in the list: nothing more is
claimed of it.

## Runs

| Run | Bounds | States | Shows |
|---|---|---|---|
| `rename` | 9 nodes in 3 levels, 3 rules, 144 trees, 2 runs of the tool | 71 thousand | all safety properties, that the walk implements `RenamePromise`, and that every run ends |
| `spark` | 3 machines, a host list of 3 lines naming one twice, 2 scripts, 2 instances, 1 fault, 1 edit, an operator on a worker's machine | 2.6 million | `TypeOK`, `WorkersFirst`, `AnnouncedGone` |
| `spark_two` | 2 machines, 2 shells at a time, one in the foreground; a container may stop and boot; also `stop-master.sh` alone | 1.7 million | `Orderly`: the same with two operators |
| `spark_start` | 4 of the nine scripts one after another, no faults | 762 thousand | `StartComplete` |
| `spark_live` | 2 machines, 2 scripts, 1 fault, fairness | 179 thousand | `ScriptsEnd` |
| `promises` | a deferred with 5 callbacks; `when` of 4 arguments, one of them plain; 3 calls of `pipe` with 4 kinds of filters and 2 promises of their own; 2 nodes, one in the other, and 3 clones, 4 calls; 3 animations of one element | 173 thousand | `PromiseTypes`, `NothingLost`, `Outcomes`, `NodesRight`, `IsPromise`, `IsStore`, `Follows` |
| `requests` | 2 requests of 4 kinds with 5 calls on the stack; one request of every data type or pair of them; 4 JSONP requests | 127 thousand | `RequestTypes`, `Counter`, `EndIsFinal`, `RightValue`, `JsonpApart`, `TwoCourses` |
| `page` | 3 holds and 3 timers in both event models; 2 nested elements with 3 handlers of an event with a default action, or 2 handlers of 2 events and 3 dispatches in each other; a queue of 3 functions and a promise, or 2 and 2; 2 animations of 2 properties | 151 thousand | `PageTypes`, `Counted`, `Listening`, `AttendedOnce`, `AllRun` |
| `libraries` | 4 elements and a set of 3; 2 animations over 2 elements; documents of 5 elements, 68 selectors of up to 3 parts, 2 contexts; 60 instants, 10 dates, all words and units | 300 thousand | `LibraryTypes`, `Linked`, `Together`, `Animated`, `RightAnswers`, `AnimationsEnd` |
| `spark_unlisted`, `spark_lowered`, `spark_severed` | small | | three comments that the scripts do not keep (below) |

The bounds are enough for what each run asks. In the trees there are colliding
siblings of both kinds (two names that become one, and a name that becomes one
already there), a directory whose new name is taken, a name and a content that
rules match more than once, a `.git` at the top and one in a subdirectory, and
two levels of loops below the root, so that a rename happens above, beside and
below a running loop. Two runs suffice for repetition, since a run keeps no
state but the disk. Two instances and two sessions on one machine let a sweep be
halfway on either; one fault breaks one session of several. The properties that
are theorems hold for all bounds. Deadlock is not checked: the tool and the
scripts do stop.

The last four runs before the counterexamples each put several modules into one
instance. The modules share no state in the code, so a behaviour is one of a page
that uses one of them while the others stay as they began, and a property of such
a run is the conjunction of those of its modules (`Promises`, `MCPromises`,
`MCRequests`, `MCPage`, `MCLibraries` and what they extend say which). Nothing is lost
by that: no step of one could disturb another.

Their bounds let the interesting cases happen. Five callbacks let one callback add
to the list that fires, throw with others behind it, and settle the other way.
Four calls bind to a node, clone it with the one in it, and take data and handlers
away from either, in any order; two names are one for `camelCase`, of which only the
second can be removed. Three animations let a second wait or overlap and a third come
from a callback, after an element was shown and hidden.
Two requests are enough for one to abort or begin the other in any of its calls,
and a depth of five for both to be in each other's callbacks. The JSONP requests
are two with generated names and two with the page's own, one in the page's own
domain; all four may overlap. Two handlers and two nested elements let one unbind
the other, itself, and those of the element that the event bubbles to; three dispatches let
a handler of one event, called in the default action of another, trigger a third. Three
functions in a queue let one clear the other and queue a third; two promises about it let a
timer of the first be late enough to meet the second. Two animations
of two properties, on one element or two, let a completion stop a timer behind,
before and at its own place. In `libraries` two animations are checked, with
liveness; `ElementFrames` with three has 5.7 million states and no violation of
its safety properties. Five elements are the fewest with two walks that meet
below the document element. The instants are the first and the last of days
about the ends of years and of Februaries from 1968 to 1972, on either side of
the epoch, a leap year at each end.

### What the scripts' comments claim

- `StopsAllDaemons`: "Stop all spark daemons." (`stop-all.sh` 22). The image has
  no `conf/workers`, so `workers.sh` 83 takes `localhost` for the host list, and
  the workers that `entyrpoint-work.sh` started in the containers go on. The history
  server is not stopped by `stop-all.sh` either.
- `StopsAllOnMachine`: "Stops all workers on this worker machine"
  (`stop-worker.sh` 29). Workers numbered above the present
  `SPARK_WORKER_INSTANCES` are not stopped.
- `AnnouncedTrue`: "All workers successfully shut down." (`stop-all.sh` 44). A
  machine that ssh does not reach lists no worker. `AnnouncedGone` is what does
  hold.

### What the code does not keep

Met while modelling, and written into the properties as the condition under which
they hold; the lines are of `vendor.js`.

- "Called once" of `done` (7047): a request that is aborted in its own `ajaxSend`
  and whose sending then throws runs `done` twice (7306). "Cancel the request"
  (7031): one that is aborted in its own `ajaxStart` or `ajaxSend` is sent all the
  same, since nobody looks after 7219. "Simply rethrow otherwise" (7312): the
  code assigns `window.status` instead (7310).
- "Counter for holding the number of active queries" (7393): a callback that
  throws between 7133 and 7146 leaves `jQuery.active` too high for good.
- "Set callback back to previous value" (7611): of two overlapping requests with
  one callback name the second puts back the function of the first.
- A data type of JSON and a body with `=?` or `??`: with the content type that
  the install notes patch in (`elasticSearch-install.md` 162-164), the prefilter of JSONP (7574)
  takes the body for one with a callback.
- `removeData` does not put its name into camel case as `data` does (1479, 1515), so
  what was set under a name with a dash stays. "Remove the expando if it's no longer
  used" (2747): `unbind` on a node that has data but no handlers makes an empty object
  for it (2651), which keeps the entry when the last datum is removed. A clone with
  data shares the arrays of the node's queues (5819), so what is queued for one is
  queued for both. A node that is to replace itself is removed (5702-5709).
- `clearQueue` within a queued function takes the sentinel (1783) out as well;
  the next `queue` starts a second function, and `dequeue` then removes an array
  that functions wait in (1794).
- "Get a promise resolved when queues of a certain type are emptied" (1840): where two timers
  were set for one promise, the second takes the data of the next promise away (1719). That
  one is not resolved any more when its own timer finds something queued (`Deprived` in
  `FxQueueProperties`).
- "When timerId gets set to null at any point, this stops" (8358): a frame that
  was requested still comes, so with `requestAnimationFrame` two loops may run.
  "force the next step to be the last" (8206): a callback that stops its own
  element to the end completes twice.
- An animation that shows an element and has no duration calls `complete`, which begins the
  next in the queue, before its own last `show` (8380-8383): a `hide` behind it finds
  the element hidden already, and the element ends up visible. A callback of one that ends
  at once may queue others, which the `dequeue` that called it then removes (1794). Styles
  are not put back after `stop` on the way, or when two animations of a property overlap.
- "Discard the second event of a jQuery.event.trigger()" (2557): another trigger
  within the default action resets `triggered` (2896), also one that has no default action,
  and the second is handled (`undone` in `Events`).
- SVG's `insertAfter` and `insertBefore` next to a set link the set into the list
  (10770, 10779); VML takes the member. An element put next to itself, or removed
  after `clear`, breaks the list too.
- Raphael's frames: `stop` and `animate` between two frames make a second loop
  (12580); entries of removed elements stay and keep the loop going (12221); what
  throws in a frame ends the loop for all elements for good (12320); an element
  keeps the timer of its last callback only (12577), so `stop` does not silence
  the others; the callback of a set never comes when members were removed, except
  the last (12670); a callback may come before the last frame.
- Sizzle does not turn back: once the nearest ancestor or sibling was taken, no
  other is tried, so `p > q p` may miss elements. `> p` in a document finds
  nothing, and `+ p q` in an element neither.
- The end of a date range that is the epoch itself keeps its instant (14334);
  `0d` and unknown units give no start; what `print` writes with milliseconds is
  not understood by `parse`.

## Fairness

`RenameTree` assumes weak fairness of `Step`, the tool's own next step: a process
that is not killed goes on, and the system calls return. Kills, errors and
reruns have none. `SparkControl` assumes weak fairness, per shell, of the shell's
own step (`Local`), and of the sessions it waits for (`Answer`): an ssh session
either does its round or ends, since a machine that does not answer makes ssh
fail in time. A daemon that was signalled exits (`Stopping`). Nothing makes a
machine come back or an operator run a script. `WaitEnds` is a property of the
script, so it assumes that the workers on listed machines are all signalled from
some time on; `--wait` rightly goes on while one is not. `OthersEnd` is about the
other scripts, and `ScriptsEnd` is both.

In `vendor.js`, code that has control gives it back, since user code that loops
for ever stops the page; beyond that:

- `When`, `Pipe`: a settled promise calls its callbacks, and a promise that a
  filter returned is settled. A filter that throws ends its chain: `Follows`
  excepts it.
- `AjaxRequest`: `ajax` and `done` go on; a timer fires; an `XMLHttpRequest` answers,
  with an error at worst. A script element need not, since it has no handler for
  errors: such a request ends by its timer, if it has one.
- `DomReady`: the document is parsed, its events are fired, timers too, and holds
  are released. `Fires` (in `AllRun`) says what follows; without the release
  nothing would.
- `FxQueue`: queued functions return and call `next`, marks are taken off, and
  the timers of promises fire. An element that is marked again and again keeps its
  promises waiting: `AllResolved` (in `AllRun`) excepts it.
- `ShowHide`: frames come, and calls return.
- `FxTimers`, `ElementFrames`: frames come and time passes, also when other code
  keeps running in between, hence strong fairness of frames, time and callbacks
  where the page can disable them for a while.

## Proofs

`tlapm` checks `RenameProofs`, `SparkProofs`, `PromisesProofs`, `DomReadyProofs`,
`AjaxProofs`, `ElementListProofs` and `NodeDataProofs`, and `SieveProofs` with lemmas for
two of them. The theorems hold for every tree, rule table and number of runs; for
every cluster, host list, set of shells and number of faults; for any number of
callbacks, of arguments of `when` and of links of a chain; for any number of holds,
handlers, elements, queued functions, timers and animations; for any number of requests,
of both kinds, calls on the stack and data types asked for; for any elements and sets of them; for any
nodes, in any tree, names, types and calls; and for any calls that show and hide an element.

**Assumptions.** `TreeAssumption` says that `Parent` makes a tree, `Above` is
its ancestor relation, and entries lead from the root, and from a directory, to all
that is below it; `TreesAssumption` that siblings differ in name at first;
`RuleAssumption` that texts are closed under each rule, that no rule occurs in
the torn (empty) content, and that no rule makes the name `.git` or `.github`;
`TornAssumption` that no file is torn at first and no rule makes a content empty:
each of these is so of the tables in `main.go`. `OrbitAssumption` defines the names that
a name can become. `ControlAssumption` gives types, and says that the entry
points' machines are not the hub and that names of shells are not machines.
`ElementAssumption` says that sets are not elements and have members, and
`FrameAssumption` the same of those that are animated, and that animations are numbered.
`EventAssumption`, `QueueAssumption`, `TimerAssumption`, `ArgumentAssumption`,
`LinkAssumption` and `ScriptsAssumption` give types, and keep the marks of the models
(`None`, "none") apart from what they mark; `when` has more than one argument, as the
part of its code that is modelled is for. `AskedAssumption` says that what is asked for
is not empty, may begin with any data type, and goes on with those that jQuery has
converters to (and that `Cors` is a Boolean).
`DataAssumption` (`NodeAssumption` in `Promises`) gives types, and says that its
`None` is no node; that the parents make a tree is not needed. `ShowAssumption` gives
types, and says that the mark for what is not set (`Unset`) is no display and no overflow.
TLC evaluates all of them in the runs.

**RenameProofs.** `TypeCorrect` is inductive as it stands. `PathsResolve` is the
core: a pending entry names an existing node of its kind. It is not inductive
alone, because a rename could give one entry the listed name of another;
`WalkSound` adds (`WalkInv`) that siblings always differ in name, that the open
directories are exactly the current one and its ancestors, and that an entry
taken is not pending again. A rename then
touches only an entry of `cur`, and what it replaces is a file that bears the new
name; a pending entry of that name is now the renamed file, of the same kind
(`RenameResolves`). `NoPathStale`, `OpenStaysStable` follow. `LostExplained`
needs that a node's name never leaves its `Orbit`; `SkippedStayUntouched` that
the walk is never inside a shielded directory and that shielded entries keep the
names by which they are skipped, which is where the last part of
`RuleAssumption` is used. `Rewrite`, the loop over the table, is a fold, about which
the library has no fact that the provers could use; the lemmas about it
(`RewriteTyped`, `RewriteIdle`) take the first rule at which the claim would fail,
a least number, and show that it does not.

`AllReplaced` speaks of a run that has ended, of which the walk
has long forgotten what it did. The invariant needs to know, in the middle of a run,
whose turn has been: `Ahead(n)` says that the entry by which the walk will come to
`n` is still pending (or that the walk is at an entry above `n`), and is the same for all
that is below that entry. `NameInv` and `ContentInv` say what is so of a node ahead,
and of one that is not; each step moves one node from the one to the other
(`Taken`), or none. Where a run begins after another that was cut short,
nothing is known of what is ahead but that it is as it was found or as it should
be, and a rule table that does not change its own results makes that enough
(`NameKept`, `ContentKept`; they are what `NamesDone` and `ContentsDone` ask of later runs).
`TornBounded` counts: between truncating and writing there is one torn file more than
runs that were cut. `RefinesPromise` maps the walk to `RenamePromise` and shows
of each action that it is one step there or none; `WriteInv` says what the buffer
holds when a file is truncated, so that this is seen as its rewriting.

**SparkProofs.** A script knows after `wait` only that its sessions are gone.
`FanOutInv` says, at every moment and of every line of the host list, where the
work for it stands: still to be sent, in the hands of a session that has not
come to that number yet, done, or cut. `ScriptInv` restricts what is left of a
script to the tails of its plan, `SessionInv` ties a session to the phase and
line it belongs to. `WorkersStopFirst` and `AnnouncementSound` are what remains
of `SweepInv` and `ListInv` when no session is left, `OrderlyAlways` is both.
`StartsComplete` is about one operator whom nothing disturbs (`Alone`: no faults, no containers that boot meanwhile,
no operators at the machines, one shell), as `StartComplete` is meant, and as the run
`spark_start` has it. `StartInv` says of each instance of each line that
`start-all.sh` has sent for that it runs or that its session has not come to it yet.

**PromisesProofs.** The invariant of a deferred (`Inv`) follows `cancel`: as long as a list has
not been touched, `cancel` is its first callback (`Pristine`), so that it is called
before any other, and from then on the other list is dead. With it, that firing
never nests (`Stacked`) and that never both lists have fired (`Tied`) are
inductive. `NothingLostHolds` needs lemmas about what is left of a sequence
when its head is moved to another (`MoveHead`, `UsersConcat`).
`DeferredIsPromise` maps the deferred to `Promise`: the outcome is the list that
fires or has fired, and the callbacks of the other list, which `cancel` is still to
take, count as dropped. Every step is one of `Promise` or a stutter
(`AbstractStep`), and so the whole of `Deferred` implements it.

`WhenInv` counts the arguments that `when` waits for: a call of an argument's callback is told
apart from what it is about by `told`, and `count` is the number of those still to come
(`OpenIs`), so that it is zero only when all were resolved and their values are there.
`ChainInv` says that a promise of a chain is settled after those before it, with the
outcome of its source, the nearest before it that settled of itself; the source of a
promise never changes once it is settled.

`ShowInv` is about an element that is shown and hidden by any calls. `Displayed` says which
displays it may have, and which may be kept for it, so that an element that is seen has the one
of its kind. What code has still to do are tasks: a call that dequeues is the innermost
(`Early`), and those of `stop` that force an end go down the running animations (`Forces`);
with these, whatever waits in the queue has an animation or a task before it that will
take it from there (`QueueOK`), until the queue is empty. `StyleOK` holds as long as animations
do not overlap and are not stopped on their way (`whole`): each keeps what the page wrote, and
what is moved is moved by one that runs. `Leads` holds as long as each call comes when those
before it are done with, or waits in the queue (`orderly`): from what is under way (`Ahead`),
the calls that wait lead one after another to what was asked last. `ShownAsAsked` is read off
all of this. `NodesAreRight` adds the data of nodes by the theorems of `NodeDataProofs`; that
module is an instance of its own (`DP`), so the `Same` lemmas say that it defines what
`Promises` does. `PromisesAreTyped` is about all five.

**SieveProofs.** Loops of jQuery and Raphael that splice an array leave what is not in a
set, in its order (`Sifted`). That is a function defined by going through the array.
`SiftsExists` shows that there is such a function, and each lemma about it follows it from
index to index (`UpTo`): what is left is in the array and in the set, keeps its order,
and is less than the array only if something was taken out.

**DomReadyProofs.** `IInv` is the conjunction of `TypeOK`, `Counted`,
`NotForgotten`, `NotEarly`, `Backed` and `Awaited`. `Counted` (the counter is the
holds and the document) lets a release come to zero only after the document was found
ready, and that is never without a body (`Backed`): together they keep functions
from being called early. `Awaited` says who will call `ready` as long as nobody
did. That functions are not called while a hold is left, `OnlyUnheldHolds`, is then a
matter of single steps. The rest of the page has an invariant for each component, for no
step of one touches the state of another. `EventInv`: lists, listeners and data belong
together (`ListsOK`), and user code runs only where a dispatch calls it (`StackOK`); besides,
as long as no other trigger interfered (`undone`), `triggered` is the type of the one default
action under way, so that nothing of that type above it has handlers to call (`DiscardOK`).
`QueueInv`: who dequeues looks at the array that it took from (`OwnArray`), unless a
function clears or dequeues while it is being called, so that no function is left waiting
behind nobody. `AnimInv`: the loop that goes through the timers and the array that its
callbacks change stay in step (`Followed`), as long as no callback meddles with the array
from within: only the timer whose callback runs has made its last step.

**AjaxProofs.** Calls of one request may be on the stack several times, with
those of others between, and callbacks may abort whatever they like, so what a return
finds is what the proof is about. `Loose` holds whatever user code does: a request is asked for
(`Asking`) by one call at most, it has no call on the stack before it begins, it does not succeed
before it is done, and never once it was aborted. `Polite` holds as long as user code neither
throws nor aborts a request that is too early for it (`rude`): done and what it
calls (`settle` to `eventComplete`) are on the stack once at most, and each place on the stack
fits the request's state (`Standing`), which makes `runs` one exactly when the request is done.
`Waits` is about `beforeSend`, which only a request that has one waits for. For `Counter`
each step either leaves who is pending (`Calm`) or changes it together with
`active`, by one. `FramesAlways` is the invariant; `CounterHolds`, `EndIsFinalAlways`
(from `EndsProperly` and `EndsOnce`) and `NotSent` are read off it. `JsonpInv` ties each name
in `window` to the one request that uses it, from the moment when its function is put there
until what was there before is put back. `JsonpIsApart` supposes that no two requests
are given the same name (`OwnNames`), which is what jQuery leaves to the page.
`ValueIsRight` is about the way from the data types asked for to the value. `WayInv` says
that the types ahead always end in what is wanted and that jQuery has converters to all
but the first (`Leading`), which the prefilters (`Inspected`) and the answer's handling
(`TypesAre`, `Handled`) keep so while they put types in front; and that the value at hand is
what the last converter gave, or a response (`Comes`). Then there always is a conversion, a
direct one or one by way of a text (`StepsAre`), and the converters fit (`StepFits`).
`RequestsAreTyped` needs for JSONP that a request under way has a name (`HasName`).

**ElementListProofs.** Torn from its place, an element is put into another, four
pointers at a time. `Lies` says what a list of a sequence is; `TearDrawn` that
tearing leaves the list of the sequence without the element, `PutLies` that
linking it in makes that of the sequence with it, so `MoveSound` covers all five
methods. This is not inductive alone, because elements that `clear` took off the
paper still have links and may be inserted again, which tears at what was beside
them: `Old` says that such links lead to cleared elements only, and back, so that
tearing there leaves the drawing alone (`TearOther`, `TearOld`). `ListSound` is the
invariant, `LinkedHolds` what remains of it. `Together` is about a set once all of its members
were moved. While they are, those that were stand in line (`Gathered`), in the order in
which the call goes through them, and nothing but members is between a member and the place
where they are moved to; `MoveGathers` says that a member that is put
between the line and that place keeps this so, and `PrecPut` and `PrecWithout` what a move does
to what is before what. `TogetherHolds` supposes that no set has an element twice
(`NoDoubles`): Raphael does not prevent it, and such an element can only lie where
its last move has put it. `FramesOK` is about the animations: a frame comes as long as there
are some (`LoopRuns`); while a frame sets attributes it is at the place of its animation,
unless a callback meddled (`Placed`); the timer of each callback that is still to come
is the one in the element's `_ac`, or a later animation of the element, or its removal, took
it (`Timed`); and the collector of a set waits for no fewer calls than there are members
that have not called (`Collecting`). `AnimationsAreKept` is read off it.

**NodeDataProofs.** The properties are not inductive alone: that numbers are given
once needs that no entry has one above `uuid`, and that a node's object is its own
needs that it is named by the node's number (`Refs`), which also lets the handle be
traced to its node; that a clone's entry is filled only once needs that clones that
are still to be copied have no number (`Pending`). `IInv` is all of this with `Owned`
and `Heard`. `EntryEffect` and `LeaveEffect` say what making and leaving an entry does
to what is found by way of any node's number, `ObjectEffect` what a change of one
object does to all nodes; each call about data is then one instance of `EntryKeeps`,
`LeaveKeeps` or `ObjectKeeps`, and what removes nodes one of `CleanKeeps`. For
`DataIsStore`, `SubtreeUp` and `SubtreeDown` show that what `remove`, `empty` and
`replaceWith` clean is taken out of the document whole: of a tree less what replaces
it, no node is left in another that stays. `DataSound` is the invariant; `OwnedHolds`,
`HeardHolds` and `ApartHolds` are read off it. `AlikeHolds`, that clones have all, needs
besides that the clones of a call differ and are none of the nodes that it clones, and that
of two targets only the first is given clones (`Cloned`).

**Only model-checked.** Liveness (`Terminates`, `ScriptsEnd`, `Follows`,
`TwoCourses`, `AllRun`, `AnimationsEnd`), which is out of the prover's reach; and what
`Sizzle` and `DateRange` answer (`RightAnswers`, and with them `LibraryTypes`). These two are
functions of what is asked, checked against what it means (`Meant`, the periods by number)
for all inputs within the bounds; a proof would be an induction over data. The runs `promises`, `requests`,
`page` and `libraries` put several modules side by side; what they check under one name
(`Outcomes`, `NodesRight`, `PageTypes` and others) is proved of the specifications of those modules
together, since the instance that interleaves them is no part of the system.

## Not modelled

In RenameProject: symbolic links, file modes, texts that are not names (the
closure of `Text` stands for them), the messages printed, and a second tree. In
the scripts: host names, ports, `--help` and `--config`. Hadoop's scripts and
`spark-daemon.sh` are not in the repository; the latter is modelled from its
use. MySQL, Redis and Ansible are settings, one-line commands and
procedures: what happens after them is decided by programs that are not in the
repository. The images, the dashboard and the notes have no behaviour.

In `vendor.js`: the copy of v7.12.1, which is the same text; in jQuery how
texts become nodes, `wrap`, data of plain objects and from attributes, styles,
offsets and what `animate` makes of them but for displays, `live`
and `delegate`, special and global events, headers, caching and serialisation of
requests, and the shorthands; in Raphael what is drawn, the attributes, easing and
key frames, and the charts; in Sizzle parts other than tags and classes,
positions, lists with commas, and the browser's own `querySelectorAll`; the helpers
`nohtml` and JSON. These compute one result per call from what they are given, or
work on what a browser draws, and but for key frames keep no state
between calls. Together they are most of the file's lines: the models cover about
a quarter of one copy.

## Further work

1. An abstract specification of the Spark cluster (which daemons are wanted).
2. `ElementFrames`: key frames, whose timers `stop` clears as well.

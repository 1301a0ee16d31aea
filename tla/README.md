# Verification of the heat installation

The repository is a simulated district-heating installation spread over
programs that talk by TCP and UDP: an energy provider, a heat exchanger, its
regulator, four building models, a time server, a logging station and a local
visualization. This directory holds TLA+ modules of the parts whose correctness
depends on the order in which things happen, the TLC configurations that check
them on small instances, and proofs checked by TLAPS for every instance.

## 1. Inventory

| Part | State it keeps | Operations | Talks to |
|---|---|---|---|
| Regulator, main loop (`heat_exchange_regulator/main.cpp`, `Network`) | one `Json` and one `Result` per client, `timeData`, `prevTime`, the control law's sums | one round: reconnect the logger, request, join, reconnect, compute, log, sleep, join | its clients' threads through the shared `Json`s and `Result`s |
| Regulator, clients (`Client`, `Socket`, `ClientSocket`) | `clientThread`, the socket | connect, reconnect, request, receive, request time, log, join | energy provider, heat exchanger, buildings, logging station (TCP), time server (UDP) |
| Regulator, data server (`Server`, `ServerSocket`) | `data` under a mutex, one detached thread per client | bind, accept, answer | heat exchanger, building KS |
| Regulator, control law (`Simulation`, `RegulatorPID`) | two sums, two previous values | step | main loop |
| Heat exchanger (`heat_exchange_model`) | the two temperatures, the clock, the state its server publishes | simulation loop; `MultiServer` answers; `Client`, `LogClient` ask and log | time server, regulator, energy provider, logging station |
| Energy provider (`energy_provider`) | the model's temperatures, period and failure flag; the relay's last message | the model pushes a message a second, the relay passes the last one on | regulator, buildings |
| Time server (`sntp_server`) | the packet, the timer | answer a request, or broadcast periodically | everybody |
| Logging station (`logging_station`) | TinyDB file under `db_lock` | PUT, GET, TRUNCATE, one thread per client | everybody |
| Buildings RS, JP, KS, Simulink | the room's and the radiator's temperatures, the data they publish | start, data server; a simulation loop that is never reached | energy provider, heat exchanger, time server, logging station, regulator |
| Local visualization | a window of samples per variable | search the logging station, plot | logging station |

What is hard: the threads of the regulator share data without locks and are kept
apart by joins only; every TCP client takes one `recv` for one message; answers
arrive after the timeout of the request they answer; the connections break and
are repaired by threads of their own; the logging station's handlers share a
file that is read and written back as a whole; some clients never read what
they are sent. `PROJECT.json` lists each hazard with its line and the
properties aimed at it.

What makes each part correct:

* regulator: data is used only when nobody else can be writing it; a failed
  request contributes nothing; readings are fresh; a socket is used only when it
  is connected; rounds end; failed connections are repaired; nothing aborts;
* data servers: every answer is one published state, and never an older one than
  before;
* logging station: acknowledged records are stored and stay, searches are
  complete, every client that waits gets its own answer;
* visualization: a curve shows its own variable, forwards in time;
* clocks: the regulator integrates over the time that has passed, the heat exchanger
  simulates no step without a change of the time shown; energy provider and relay: a
  failure ends, and a client that had data is not forgotten.

## 2. Plan

| Step | Modules | State |
|---|---|---|
| 1 | `Regulator`, `RegulatorProofs`: main loop and workers | done |
| 2 | `LogStore` (abstract), `LoggingStation`, `LoggingStationProofs` | done |
| 3 | `RegulatorClock`, `RegulatorClockProofs`: time server, network, time client, the interval of a round | done |
| 4 | `Snapshot` (abstract), `RegulatorServer`, `RegulatorServerProofs`: the server with a mutex | done |
| 5 | `HeatExchanger`, `HeatExchangerProofs`: simulation loop and `MultiServer`, the server without a mutex | done |
| 6 | `EnergyProvider`, `EnergyRelay`, `EnergyRelayProofs`: the provider's loop and the relay in front of it | done |
| 7 | `Visualization`, `VisualizationProofs`: the curves of the display | done |
| 8 | `Buildings`, `BuildingsProofs`: the start of RS, JP and KS and their data servers | done |
| 9 | operators: `sendAll`, the clamp and the order of the sums of the control law | open |

`Regulator` composes the main loop with its workers, the connections and the
peers; `EnergyRelay` extends `EnergyProvider`, whose messages it stores;
`RegulatorServer`, `HeatExchanger` and `Buildings` instantiate `Snapshot`,
`LoggingStation` instantiates `LogStore`.

## 3. The regulator

`Regulator.tla` is the main thread, one worker per client and the peers at the
other end of the connections.

| TLA+ | Code |
|---|---|
| `pc` | where `main` is in its round |
| `thread[c]` | `Client::clientThread`: empty, running one of the functions it is created with, or finished and not joined |
| `result[c]` | the `Result` that `main` passes by reference to the worker |
| `data[c]` | the `Json`: empty, or the age of the reading in it |
| `conn`, `pend`, `inbox`, `torn` | the TCP connection: its state, requests not read by the peer, answers not read by the regulator, and whether the last `recv` stopped inside one |
| `late[c]` | the worker's elapsed time has passed its 500 ms |
| `items` | values `logData` still has to send |

Every statement of the loop that launches, joins or decides is an action
(`RelinkLogger`, `Request`, `JoinRequests`, `Relink`, `Compute`, `Log`,
`JoinRelinks`), and so is every call of a worker that may end differently
(`Send`, `Recv`, `RecvTorn`, `RecvError`, `RecvTimeout`, `LogItem`, ...). The
worker that has finished keeps its `thread` until `join` resets it, which is what
`assert(!clientThread)` looks at; an assertion that fails is `pc = "aborted"`, an
exception that leaves a thread `"terminated"`, one that reaches `main`
`"exited"`.

A reading is represented by its age in rounds: nothing that is checked depends
on its value, and everything depends on when it arrived. `recv` returns up to
256 bytes: `PerRecv` whole answers, and `CutMidAnswer` tells whether the 256th
byte falls inside one.

| Run | Instance | Shows |
|---|---|---|
| `reg_safety` | a data client that is greeted and whose answers may lack the expected members, the logger, the clock; 3 messages per connection, 2 per `recv`; fair threads | `TypeOK`; `FreshOrEmpty`: a used reading is of this round or the last; `ConnectedBeforeUse`; `NoSharedUse`: joins keep `main` and the workers apart; `FailedGivesNothing`; `AbortsOnlyOnLogger`; `RoundsEnd`; `FailedIsRelinked` |
| `reg_aborts` | one data client | the finding: the process aborts (below) |

Bounds: three messages per direction let a queue be longer than one `recv`
takes, with a cut and an uncut rest; ages are counted to `MaxAge`, one more than
the largest that `FreshOrEmpty` allows. Data clients meet only in `main`, which
treats them alike, so that one of them beside the logger and the clock shows what
a run can show of their interplay; the proofs cover any number.

Fairness: weak fairness of `main`, of each worker and of its clock, as the
operating system schedules threads; the connection phase (`Establish`) is left
out because it waits for its peer without a limit, and nothing is assumed of the
peers or the network.

## 4. The logging station

`LoggingStation.tla` has one handler per connection and its client. A handler
goes `recv -> lock -> db -> reply`; `Lock` copies the file and `Unlock` writes the
copy back with the new record, which is what an insertion does in TinyDB, so that
a lost update would show. `inq` and `outq` are the two directions of the
connection, and `Recv` takes any number of requests that have arrived: one is
handled, several glued together are refused, as `eval` refuses them. Requests are
numbered per client and the number stands for the timestamp. `Patient` clients
wait for each answer (`LogClient`, the buildings, the visualization); the
regulator does not, and never reads. Of the records an answer holds the model keeps
the set: their order is that of the table and no property is about it.

`LogStore.tla` is what the station promises: tables only grow, by one record that
is new, and what is acknowledged is stored. `StoreSpec` instantiates it with the
file as its store. That no two handlers are at the database at once is proved
(`LoggingStationProofs!MutualExclusion`) and needs no run.

| Run | Instance | Shows |
|---|---|---|
| `log_any` | a building that also searches and a client that sends anything, 2 requests each, both may leave; fair handlers, one answer fits in a connection | `TypeOK`; `StoreSpec`; `SearchIsComplete`: a search misses no acknowledged record; `PatientAnswered`: a waiting client gets the answer to its own request; `PatientServed`, although the other client never reads |
| `log_range` | the same | the finding below |
| `log_glued` | a building, a viewer and a regulator that sends without waiting | the finding below |

Two requests per client let every order of two operations on a table occur;
handlers meet only in `db_lock` and the file, and that the station implements
`LogStore` is proved for any number of them. Weak fairness of a handler is
enough: the others take `db_lock` finitely often.

## 5. The clock

`RegulatorClock.tla` follows a reading from the time server's clock through
datagrams to the interval the control law integrates over. `now` is the host's
clock; `AccelerateTime`, `Post` and `Era` are the server's acceleration and the
seconds of its packet, which lose what does not fit; `mode` chooses between the
two ways the server is started. Requests and answers are lost (`LoseRequest`,
`Lose`), doubled and delivered in any order that the network allows, and wait in
the socket of the regulator until a round receives one. `timeData` starts as any
value, as it is not initialised; a round without an answer integrates its last
interval again; the difference of two readings is unsigned. The server may be
restarted (`Restart`), which sets its base anew.

The run `clock` checks `TypeOK`; `NoTimeInvented`: the sum of the intervals is no
more than the time the server has shown; `LagIsOwed`: answers that wait at the
start of a round are accounted for by rounds without an answer, doubled datagrams
and broadcasts; and `NoTimeLost`: what is integrated grows with the reading used.
`NoTimeInvented` and `NoTimeLost` hold while `calm` does, that is as long as no
datagram has overtaken another, no request has failed, no restart has taken the
time shown back and the first request was answered in time, and up to the end of
the era: the code compensates for none of these, and the module runs past each of
them. A server that does not accelerate may be restarted at any moment. An unanswered
request other than the first leaves a run calm. Three seconds after the start, an era of eight that the acceleration reaches, and two datagrams
in each direction let two rounds fall behind and the next recover; `MaxOwed`
bounds the count of rounds without an answer.

## 6. The data servers

`Snapshot.tla` is what a data server promises the clients that wait for their
answers: an answer is one published state, whole, that was in force between the
request and the answer; once the server is gone it promises nothing. A state is
its number; an answer put together from two of them is `Wreck`.

`RegulatorServer.tla` is the regulator's server. The main thread binds a new
state in two steps under the mutex (`BindLock`, `BindFirst`, `BindSecond`,
`BindUnlock`) and runs the destructor (`Stop`, `Destroy`); the listening thread
polls its flag and accepts (`Listen`, `Accept`); each detached worker receives,
locks, copies in two steps, unlocks and sends. A worker that is still running
after `Destroy` reads memory that is gone: it may copy anything (`Memory`). Some
clients wait for their answers (`Patient`: the heat exchanger), others send and
never read (building KS, which is `Deaf`): their answers fill the connection, and
what `Send` cannot write it drops, as the regulator's sockets do not block. In the
run the deaf client has one answer coming and room for two; that a full connection
loses nobody else's request or mutex is left to the proofs (`MutexIsReleased`,
`NeverForgotten`), which take any number of both.

`HeatExchanger.tla` is the other server and the loop that feeds it. The loop asks
for the time (`GetTime`; `GetTimeSwallows` when `get_time` catches the timeout
itself; `TimeLost` for `NTPException`, after which a new time object asks once
more; `TimeFails` for the second one and for every other error, which end the
loop), skips the step when there is no interval (`Check`), changes its
two temperatures in place (`SimulateTpm`, `SimulateTzco`) and replaces the
published dictionary (`Publish`). The threads of `MultiServer` answer with
whatever dictionary is published, without a lock: `SnapshotSpec` shows that none
is needed, because the dictionary is replaced and never changed. A thread ends
when its client leaves or is idle for its timeout (`RecvFails`, `Close`). The time
server of this module goes on (`Tick`) and back (`Restart`), since an accelerated
one takes its start for its base: an interval may be negative, which the loop
simulates like any other, because `simulate` is called without it
(`simulation.py` 78, `process_model.py` 26: one second a step). What can be asked of
the loop is therefore `NotAhead`: it has simulated no more steps than the time shown
has changed, in either direction (`changes`), but one for every round whose timeout
was swallowed while an interval was kept (`repeated`); that the published time
advances is not true of this code.

| Run | Instance | Shows |
|---|---|---|
| `server` | a client that waits, one that never reads, one more state bound | `TypeOK`; `SnapshotSpec`; `StopTerminates`: the destructor ends whatever the clients do; `PatientServed` |
| `exchanger` | a client with three requests, three published steps, a time server that goes on and back | `TypeOK`; `SnapshotSpec`; `NotAhead`: a step for every change of the time and swallowed timeout at most; `PatientServed` also across the idle timeout and after the loop has died; `ThreadsEnd` |

One more state bound is enough to mix two of them; three published steps let an
answer be late by two. The connections of a server meet only in the published
state (and the mutex), so that two connections, or one where there is no mutex,
show every interference. Fairness is
weak: the threads of the servers and the main thread's steps once it has decided to
bind or to stop, and clients that wait read their answers. It is enough for
`BindLock` and `Lock` because requests and states are bounded in the instance, so
that the mutex comes to be free for good; `std::mutex` itself promises no order.
Nothing is assumed of the simulation loop.

## 7. The energy provider

`EnergyProvider.tla` is the loop of the provider: one `Round` a second, `Within` a
period, or at its end `Compute` (new temperatures, and perhaps a failure) or
`Failing` (which ends the failure once it has lasted long enough). `real` counts
seconds; a round that cannot send raises before it comes to `sleep`, so that many
rounds may fall into one second. `date` is the local time the code reads, which
has no time zone and jumps once by `Jump` in either direction. `checked_at` and
`failed_at` are ghosts: the seconds in which a period ended and a failure began.

`EnergyRelay.tla` adds the server in front of it: the provider's thread stores the
last message it received (`Store`), a client's thread greets with it when there is
one (`Greet`) and answers requests with it (`Recv`, `Reply`). A request before
there is any message raises a `NameError` that ends the thread and leaves the
connection open (`"died"`). A client may leave: its thread then receives nothing
for ever (`"spin"`), or an error ends it. The relay may crash and be started again
(`Crash`): clients may connect anew, the provider does not, because its `except`
clause swallows the error, and its rounds no longer sleep. A message is the second
that sent it.

The run `energy` takes a provider with a period and a failure of two seconds each
and a jump of one, followed for eight seconds (a failure may begin in the second
and last until the seventh), and a client that sends three requests. It checks
`TypeOK`; `FailureLasts` and `OnTime`: a failure and a period have their length,
give or take the jump, however many rounds a second has; `OneBehind`: what a
client may read is no older than its previous request, although the greeting
nobody waits for puts it one answer behind; `OnlyTooEarlyIsForgotten`: a client that
waits has a live thread and something under way, unless it asked when there was no
data; and `ServedWithData`: a client that found data once is always answered, unless
the relay crashes. That a relay which was started again tells nobody anything is no
requirement but a defect; how far it goes is proved (section 10). `MaxLink` messages wait in
the provider's connection, so that the relay is that far behind at most and may
receive several at once. The clients meet only in `send_data`, which they do not
change: one is enough, and the proofs take any number. Fairness: the clients'
threads and their reading; a thread that spins takes steps that change nothing.

## 8. The visualization

`Visualization.tla` is the display and the tables it searches, which grow
meanwhile (`Put`). `animate` takes the curves in turn: `pobier_dane` sends the
search, `Answer` is what the station's `get_from_db` finds, `zapisz_dane` adds to
the curve and trims it. A curve is one sequence of points for `Tab_time` and
`Tab_val`; a point's value is the variable it was logged for, all that
`OwnRecordsInOrder` needs. The first answer must have a key `"1"`; as the station counts
from `"0"`, contrary to its readme (`logging_station/readme.md` 63-68), a table of
one record raises `KeyError` and ends the timer (`pc = "raised"`), and the first
record of a longer one is drawn only if it is newer than the second.

The run `display` takes two curves with a window of two points and tables of two
and four records with three times, in any order: enough for equal times, records
out of order, a trimmed curve, and one more record that could change it. It
checks `TypeOK`; `OwnRecordsInOrder`; and `TablesAreDrawn`. The run
`display_frozen` asks of the same display `CurvesKeepUp`: a curve never stays behind
the record logged last for it. It does once it has two points, as its search asks for
the position of the last point where the station expects a time: times are seconds
since 1970 and positions are below 1000 (`VisualizationAssumption`). With a search
for the whole table in every round the property holds in the same instance, so that
this is its only cause there. The station's loop over a table (`Between`) and the display's over an
answer (`Extend`) are recursive functions, about which can be proved what they
compute. Fairness: the timer fires and the station answers, which is
`PatientServed` of the station.

## 9. The buildings

`Buildings.tla` is one of the programs RS, JP and KS (`kind`) from its start.
None of their main threads reaches the loop that simulates:

* RS: `Client.connect` sets `connected` to `False` after a success and connects
  once more; a socket that is connected raises (`Client.py` 17-24);
* JP and KS: the first statement of the loop receives from the heat exchanger,
  which answers requests only; none was sent, so that it closes the idle
  connection after 30 seconds (`heat_exchange_model/server_multithread.py` 29) and
  `json.loads` of nothing raises (`functions.py` 17-20).

`main` follows each of them to `"dead"` (`Stamp`, `ConnectEnergy`, `GetTime`,
`Link`, `Raise`, which may come at each call that can fail). What remains are the
data servers. RS's has been listening from the start and answers with the
dictionary that `main` writes its timestamp into; a handler encodes and sends it
under a lock which `main` does not take (`Lock`, `Send`, `Release`). JP's answers 0
without a lock, and whether or not `recv` returned anything (`RecvNothing`). KS
constructs a server and never starts it. The interpreter that joins the remaining
threads when `main` ends decides whether RS's server goes on accepting
(`Shutdown`): up to Python 3.7 it calls the overridden `join`, which shuts it down,
later versions do not; handlers that exist go on either way.

The run `buildings` takes each kind, a client that waits and one that never reads,
three requests each and connections that hold two answers, so that the third fills
them and `sendall` blocks; clients may leave. It checks `TypeOK`; `SnapshotSpec`,
also while RS writes its timestamp; `PatientServed` and `ThreadsEnd`. The last two
assume `NobodyBlocksForEver`: a handler of RS that waits for a client which neither
reads nor leaves keeps the lock, and everybody else waits with it. Nothing in the
code prevents that. Fairness is weak: the handlers, accepting, and clients that
wait read; requests are bounded, so that the lock comes to be free for good.

## 10. Proofs

`RegulatorProofs` proves, for any set of clients and any bound:

* `TypeCorrect`;
* from `Discipline` (types, `NoSharedUse`, "a client with `wouldBlock` has no
  repair running", "the running job fits the result"): `NoSharedUseHolds`,
  `FailedGivesNothingHolds`, `AbortsOnlyOnLoggerHolds`, `WouldBlockIsFinalHolds`.
  `NoSharedUse` alone is not inductive: that no worker is requesting while a
  reconnection runs follows from which results launch which job;
* from `Linked` (a client whose result is `success` has a connected socket unless
  it is being connected): `ConnectedBeforeUseHolds`;
* `NoFailureIsPassedOver` (while a round computes, logs and sleeps, every failed client
  is being reconnected or has been given up once more) and `FailureStaysHolds` (only a
  reconnection turns a failure into a success): the safety half of `FailedIsRelinked`,
  which needs only `RoundsEnd` beside them;
* from `Fresh` (the ages in a queue are bounded by the request that has to come
  first): `FreshOrEmptyHolds`.

`WouldBlockIsFinal` (a client whose send buffer was full once is never used again)
is proved and not run.

`LoggingStationProofs` proves `TypeCorrect`, `MutualExclusion`, `Implements`
(`Spec => StoreSpec`), `PatientAnsweredHolds` and `SearchIsCompleteHolds`. The invariant `IInv` behind it says that a handler at the
database owns `db_lock` and its copy is the file, that requests are numbered in
the order of the queue and stored records are older than all that is still to
come (so an inserted record is new), and that an `OK` about to be sent is about a
stored record. `PatientAnswered` needs another one (`OneUnderWay`): between a client
that waits and its handler there is one thing, the request, the work on it or the
answer, so that `recv` never finds two requests and no old answer waits.
`SearchIsComplete` needs two more: what was acknowledged when a search was sent is in
the file (`Remembered`: records are acknowledged once stored and are never removed,
`TableGrows`), and is therefore in the copy the handler searches and in the answer it
makes (`Searched`); a record inserted after the search was sent was known to nobody
then (`KnownIsOld`). Further theorems say what no run asks:

* `LockIsReleased`: no request leaves `db_lock` taken, not even a search that raises;
* `NeverForgotten`: what a patient client waits for is in the connection, with its
  handler or answered;
* `OnlyGluedIsRefusedHolds`: a complete PUT is refused only if its client had sent the
  next request already, so that the cause shown by `log_glued` is the only one;
* `SpoiltForGoodHolds`: once a table holds a record without its timestamp, every
  search of it answers with an error, for good: the finding `log_range` is beyond
  repair by any request.

`RegulatorClockProofs` proves `TypeCorrect`, `LagIsOwedHolds`, `NoTimeInventedHolds`
and `NoTimeLostHolds` for every era, acceleration and width. Its invariant says
that datagrams carry readings in the order the server showed them, that the
regulator has read them in that order, and that the sum of the intervals is the
difference of the last and the first reading used, as long as nothing has
disturbed it: without the order of the datagrams still on their way, a later
interval could be negative.

`RegulatorServerProofs` proves `TypeCorrect`, `MutualExclusionHolds` and `Implements`
(`Spec => SnapshotSpec`). The invariant adds to mutual exclusion that a client that
waits has one request or one answer under way and not both (`OneOutstanding`),
that nothing is read by clients that do not read, that data is whole whenever the
mutex is free (`Bound`) and that what a worker has copied was in force after the
request (`Copied`). `MutexIsReleased` says that whoever owns the mutex is on the way to
the unlock, until the server is destroyed, and `NeverForgotten` that the request of a
client that waits is in the connection, with its worker or answered, also while the
server is stopped.

`HeatExchangerProofs` proves `TypeCorrect`, `NotAheadHolds` and `Implements`
(`Spec => SnapshotSpec`, here without a mutex). The temperatures are ahead of the
published state by what the round has computed, and the published ones are equal
(`Ahead`); every published step, the one in progress (`Pending`) and a reading still to
come that differs from the last (`Unread`) has a change of the time of its own, or a
swallowed timeout, also after a new time object forgot the last reading (`Counted`):
without the last two terms a change could be used twice; and a client that waits has
one thing under way (`OneUnderWay`). `NeverForgotten` adds that it has one unless the
connection is closed, and that the thread of an open connection has not ended.

`BuildingsProofs` proves `TypeCorrect` and `Implements` (`Spec => SnapshotSpec`)
with the same count of what is under way, which survives the death of the main
thread, the shutdown and RS's timestamp; `LockIsReleased` (RS's lock belongs to the
handler that answers, and to nobody else) and `NeverForgotten`.

`EnergyRelayProofs` proves of the provider `WaterFollows` (the water follows the heating curve,
which no run needs to check), `FailureIsLong` and `OnTimeHolds` for all
temperatures, periods, durations and jumps, behind the relay. The invariant ties
the local times the code keeps to the seconds the properties speak of: each is
that of its second, give or take the one jump.

Of the relay it proves `TypeCorrect`, `OneBehindHolds`, `OnlyTooEarlyIsForgottenHolds`
and `SilentAfterCrashHolds`. The invariant says that messages on their way to the relay
and answers on their way to a client are in the order of their seconds (`Order`,
`After`), that a client has one message to read or to be told unless it waits, and
two if it does (`Due`), and that only the first of two may have been due to its
last request but one: without that count, a second old message could hide behind
the first. After a crash nothing is on its way and nothing is stored (`Cut`), hence
`SilentAfterCrashHolds`, which describes a defect: a provider that connected again
would break the theorem, and rightly. `OnlyTooEarlyIsForgotten` needs who was told
what (`Unheard`): the thread of a client that is still there dies only of a missing
message, and then that client had been told nothing, so that one which was answered
once cannot be left behind.

`VisualizationProofs` proves `TypeCorrect`, `OwnRecordsInOrderHolds` and
`FrozenForGood` for all tables, windows and answers. The last is no requirement but
the extent of the finding `display_frozen`: a curve of two points never changes
again. The invariant says that curves rise and hold
records of their own variable, that a search by the positions of a curve is one whose
bounds lie before any time (`Asked`), and that such a search is answered with nothing
(`Given`). What the two loops compute is an induction over the records. The library
states induction with a predicate as parameter, which no prover here instantiates;
`SetInduction` derives it for a set of numbers from the minimum of a well-founded
relation (`WFMin`), `Loop` shows that a loop which carries a value through `n` rounds
has one at its end, and `LoopKeeps` that what every round keeps holds of it.

The assumptions are those the modules state (`ClientsAssumption`,
`BoundsAssumption`, `StationAssumption`, `ClockAssumption`, `ServerAssumption`,
`ProviderAssumption`, `RelayAssumption`, `ExchangerAssumption`,
`BuildingsAssumption`, `VisualizationAssumption`): constants are numbers where they
count, markers such as `Nothing` are no numbers, and for the visualization times are
larger than positions.

Every invariant and every action property that a run checks is a theorem, and so is
every refinement. Only model-checked: liveness (`RoundsEnd`, `FailedIsRelinked`,
`PatientServed`, `StopTerminates`, `ThreadsEnd`, `ServedWithData`, `TablesAreDrawn`),
which is beyond the prover because it rests on fairness and so on `ENABLED`. For most of
it the safety half is proved: no lock stays with somebody who cannot go on, and
nothing that is waited for is lost (`LockIsReleased`, `MutexIsReleased`,
`NeverForgotten`, `OnlyTooEarlyIsForgotten`, `NoFailureIsPassedOver`). What TLC adds is
that the steps they leave enabled are taken.

## 11. Findings

* `reg_aborts`: `main` relaunches the logger before it has joined its last worker;
  after a value could not be logged `assert(!clientThread)` fails.
* `log_glued`: complete PUTs that arrive together are refused and lost.
* `log_range`: a PUT without its timestamp is accepted and spoils its table.
* `display_frozen`: a curve of the display stops at its second point, because its next
  search gives positions where the station expects times.

## 12. Not modelled

* The loops of the buildings, which no program reaches (section 9). What reading
  them shows: KS and JP combine two sockets with `&` (`building_controller.py` 70,
  `main.py` 78), which raises; in RS a lost time server gives an interval of 0, by
  which the model divides (`main.py` 92-102); two programs beside them use names
  that are not defined (`t` in JP's `building_controller.py`, `tt` in KS's
  `simulation.py`). The Simulink building is generated and has no network.
* Floating-point models: the heat equations, the rooms, the control law's
  arithmetic (its integration time is in `RegulatorClock`). What reading shows: the
  filter of the derivative is integrated by one explicit step per round, so that it
  is stable only while `N * dt` is below 2 (`RegulatorPID.cpp` 12-14), which a
  round of 300 seconds is far beyond.
* TRUNCATE. `readme.md` 77 of the station promises that it deletes the database, and
  `main.py` 89 answers so; `db.truncate()` (10-12) empties TinyDB's default table,
  which nothing here uses. `Unlock` models that it leaves the tables alone; as no
  order of steps decides it, no run asks about it.
* Errors of creating, binding or closing a socket in the regulator, which are thrown
  (`Socket.cpp` 37-129).
* In the buildings' servers the encoding of an answer apart from its sending; the only
  write that could fall between, RS's timestamp, changes one entry.
* A `send` that takes part of a message: `Socket::sendAll` then passes the whole
  length again instead of `bytesRemaining`, from a pointer that has moved
  (`Socket.cpp` 149). In the models a message is sent as a whole or not at all.
* The broadcast time client of the heat exchanger (`sntp_client.py`), which only its
  mock starts.
* The crash of any server but the time server and the energy relay.
* The vendored `Json.h`, plots and console output, address formatting, start-up
  errors of Winsock, and the mocks run by hand. `PROJECT.json` gives the reason
  for each part.

# A TLA+ verification of Minitopo

Minitopo runs network experiments on an emulated topology: `runner.py` reads a
topology and an experiment description, starts a Mininet network, performs the
experiment (change the sysctls of the host, start captures and servers, run a
client, clean up) and takes the network down. `utils/` holds the traffic
generators some experiments start inside the network.

Paths below are relative to the repository's root.

## 1. Inventory

| part | state | operations | interacts with |
|---|---|---|---|
| `core/experiment.py`: `Experiment` | the three `sysctl_to_restore` dictionaries; outside Python: the sysctls of the host and of two namespaces, background processes, generated files | constructor, `classic_run` = `prepare`, `run`, `clean` | commands nodes through `mininet_builder.py`; subclasses override the phases |
| `experiments/*.py`: 23 classes and the registry | parameters read from a file | the overridden phases | call the parent's phases with `super()`, or explicitly where a class has two parents |
| `runner.py`: `Runner`, `__main__` | `_tmp_files`, the builder and its `net` | convert, parse, build, start, run, stop, run again, `__del__`, `cleanup()` | creates the experiment object and lets every exception through |
| `mininet_builder.py` | `net` | `start_network`, `stop_network`, `command_to`, `command_global` | Mininet (external) |
| `utils/SiriClient.java` | socket, `counter`, `sentTime`, `messageId`; two threads | sender loop, receiver loop | TCP to `siri_server.py` |
| `utils/siri_server.py` | per connection: `buffer_data`, `next_buffer_data`, `first_data`; shared: `threads`, `to_join` | connection thread, accept loop | TCP |
| `utils/msg_client.py`, `msg_server.py` | buffers; the same thread table | request loop, connection thread | TCP |
| `core/topo.py` | links, their characteristics and timed changes; outside Python: the `tc` configuration of four interfaces and four shells per link | parse, configure `tc`, start chains of `sleep && tc` | commands to the nodes |
| `topos/*.py` | hosts and links; outside Python: addresses, ARP entries, rules and routes | build, configure interfaces, configure routing | `core/topo.py`, Mininet's ports |
| `core/parameter.py` | dictionary of parameters | load, get | all of the above |

What is hard here, and what makes each part correct:

* **Experiment.** The sysctls outlive the program. They have to be read before
  the first is written, kept through the run, and written back whatever the
  kernel has, refuses or lost in between; exceptions and Ctrl-C can come at
  every point, and a subclass may call the parent's phases twice, too late or
  not at all.
* **Runner.** Everything happens in a constructor that may raise at every
  step, and the network, the temporary file and the sysctls have to survive that.
* **Siri.** Two threads share a counter, one of them reading it without the lock;
  requests are cut into packets at random, TCP cuts and joins them again,
  and the server has to find the borders.
* **Msg.** The same stream problem without any border but the size; both sides
  block in `sendall`, one of them may never read, and the server may be killed.
* **Connection threads.** A list and a table shared between the accepting thread and
  the threads it has to join, without a lock.
* **Parameter files.** What is logged and what raises depends on the order of lines
  and keys, and a repeated key changes the type of its value.
* **Bottleneck links.** Four chains of timed commands in the background, each as late as the
  shell makes it, that exchange the roles of two interfaces.
* **Topologies.** Names, addresses and gateways are computed from indices, and
  have to fit a network that the code builds elsewhere and never looks at.

`PROJECT.json` lists the parts (`components`) and the places where this bites
(`hazards`).

## 2. Modules

| module | what it is |
|---|---|
| `Experiment` | the life of one experiment object; a class is a record of operation sequences |
| `ExperimentClasses` | the 22 classes the registry can select, as such records |
| `ExperimentProofs` | theorems about `Experiment` |
| `Runner` | the program, composed with `Experiment` (it extends it and runs its `Step`) |
| `RunnerProofs` | theorems about the composition |
| `RequestReply` | abstract specification of a request and response connection |
| `Siri` | `SiriClient.java` and a connection of `siri_server.py`; refines `RequestReply` |
| `SiriProofs` | theorems about `Siri` |
| `Msg` | `msg_client.py` and a connection of `msg_server.py`; refines `RequestReply` with a window of one |
| `MsgProofs` | theorems about `Msg` |
| `ConnectionThreads` | the accept loop and the connection threads of both servers |
| `ConnectionThreadsProofs` | theorems about `ConnectionThreads` |
| `LinkCharacteristics` | the changes of a link over time, shared by the next two |
| `TopoParameter` | loading a topology's parameter file |
| `TopoParameterProofs` | theorems about `TopoParameter` |
| `Bottleneck` | one bottleneck link, its `tc` configuration and its changes over time |
| `BottleneckProofs` | theorems about `Bottleneck` |
| `MultiInterface` | both topologies: building, addresses, ARP entries, routes |
| `MultiInterfaceProofs` | theorems about `MultiInterface` |
| `MCExperiment`, `MCRunner`, `MCSiri`, `MCMsg`, `MCConnectionThreads`, `MCTopoParameter`, `MCBottleneck`, `MCMultiInterface` | instances for TLC |

Operators whose comment begins with "Mutant" are deliberately wrong versions
of the definition that follows; they show that a property can fail. No
specification uses them.

### Experiment

`phase` is where `classic_run` is, `ip` the next operation of the class's
method for that phase, `sub` the step inside the base class's `prepare` or
`clean`, and `key` the loop variable of the sysctl loops. `host` holds the
sysctls, `saved` the three dictionaries in one function (`NotSaved`: the key is
not in it), `artefacts` the background processes and generated files. The
inputs `class`, `file` and `kernel` never change.

One action is one operation of Python on the environment: a turn of a sysctl
loop (`SaveKey`, `WriteKey`, `RestoreKey`), a step of `prepare` or `clean`, or an
operation of the concrete class (`Command`, `Spawn`, `Kill`, `SetSysctl`,
`NeedMet`/`NeedFails`, `Try`, `RaiseOp`). `Raise` is an exception: it ends
`classic_run` at once, as in the code. `Interrupt` may come anywhere,
`ProcessExits` ends a background process by itself, and `NodeGone` is Mininet's
assertion when a node of a stopped network is commanded. The base class's
`put_priority_on_paths` raises whenever it has something to do, because it calls
`get_client_interface` without its second argument.

Reading a sysctl the kernel does not have differs between the host
(`command_global` returns "Error", the key is left out) and a namespace
(`command_to` returns the error message, which is cut and recorded):
`Recorded` models both. Writing it back is refused by the kernel.

`Disciplined(c)` is what the docstrings of `prepare` and `clean` ask of a class,
made precise: the parent's `prepare` is called once and first, the parent's
`clean` is called, and the class writes no sysctl outside `prepare` and `run`.
All classes but `VLC` and `SiriMsg` satisfy it. `Tidy(c)` is what it takes for the captures, the path
managers and the random data to be gone in the end: the class calls the parent's `clean`, starts no path
manager, and removes the random data it makes. All classes of the registry are tidy (`RegistryIsTidy`; `VLC`, whose `clean`
raises, because it never returns). The netem chains are another matter: `prepare` starts them in the background
(`core/topo.py:528-539`, `NetemChains`) and nobody stops them, so that `CleanedWhenDone` says that of all `prepare`
started they are what may be left.

Abstractions: sysctl values are members of a small set; command lines are
reduced to what they start, stop or write; consecutive foreground commands are
one `Command`; each namespace has one sysctl, as in the code.

### Runner

`pc` follows the constructor and the `__main__` block. `tmpFiles` is on disk,
`tracked` is `_tmp_files`. The conversion may raise before it has made its file (`LoadFails`) or
with the file made (`ConvertYaml`) and not yet written and closed (`WriteFails`); the name is remembered only when
it has returned (`TrackTmpFile`). `abandoned` is a history variable: the file whose writing raised.
Mininet may fail with part of the network made (`StartFails`), and so may taking it down (`StopFails`;
the files are removed all the same). `net` becomes "stopped" in `StopTopo`; the builder keeps the dead
`net`, so that a later command raises. After the first `StopTopo` the
constructor launches the experiment again (`runner.py:110`).

`InterruptRunner` may come at any point of the program, in the handler of an exception and in the `finally` clause
too. An interrupt is not an `Exception`: it bypasses the logging, and since the exception under way refers to the
Runner, `__del__` runs at the end of Python or not at all (`Cleanup`). Otherwise `__del__` runs as soon as
the constructor has returned or its exception was logged (`DeleteRunner`). An interrupt in the `finally`
clause ends the program with the cleanup not done (`pc = "aborted"`).
Processes of nodes are hung up when the network stops, unless they are in
`Detached`.

### RequestReply and Siri

`RequestReply` counts requests `issued`, `answered` and `delivered`, with at most
`Window` outstanding, and promises that on an open connection every request is
answered and every answer delivered.

`Siri` keeps the byte stream as the number of bytes written and the positions
of the newlines. The sender's steps are `BeginRequest` (the unlocked test of
`counter`, the time stamp, the number), `WritePacket`, `CountPacket` (the locked
increment) and `MissTurn`; the receiver's are `OpenStreams` and `Deliver`.
`CounterReads` gives the unlocked read every value since the sender last held
the lock. `sizeOfNextPacket` and the enlargement for the header are
sets of possible sizes, empty where the Java code throws. The server's
`Receive(n)` is one turn of its loop for a `recv` of any `n` bytes: the
split at a newline, the wait for the header's fields, the comparison with the
announced size. A second header in an unparsed buffer gives too many fields and
the server waits on; after the header has been parsed, too many bytes make it
close the connection.

The window is `BUFFER_SIZE + 1` because the test is `counter <= QUERY_SIZE *
BUFFER_SIZE`. `ImplementsRequestReply` maps `issued` to the requests written to
their last byte and leaves the other three variables as they are.

`SenderStep` and `StopClient` are the steps of the sender's thread: it calls `stopClient`
when it wakes up and `RUN_TIME` is over. `WriteTooEarly` is the race at the start: the
thread writes before the other one has set `outputStream`, and dies.

### Msg

Messages have one size, so a byte is only a number: `c2s` and `s2c` are the bytes on
their way, at most `room` in each direction, `buffered` and `got` what the two programs have
in their buffers. `sendall` writes as many bytes as there is room for, again and
again (`SendSome`, `AnswerSome`); `recv` returns any number up to `RECV_SIZE`. `bulk` and
`room` are inputs: the option of the client, and the kernel's buffers. Closing a socket with unread
data resets the connection (second case of `ServerEnds`). `KillServer` is the `pkill` of
`SiriMsg.run`, which comes while the client may still run.

### ConnectionThreads

`threads` is the set of ids in the table, `to_join` the list; `thread` is where each connection's
thread is. `PopFinished`, `JoinThread` and `NoneFinished` are the steps of
`join_finished_threads`, between which threads append; a missing id is the `KeyError` (`main = "dead"`).
Both servers have the same code, and `map` names that of `siri_server.py`.

### LinkCharacteristics, TopoParameter and Bottleneck

`WithChange` is `add_netem_at`: a change at or before the last one is dropped, and `delta` is
the sleep between the two.

`TopoParameter` reads a file line by line into `parameters` (each key with the sequence of its
values; more than one is a Python list), then goes through the sorted keys twice,
for links and for changes. Keys and values are model values; the constants say
what the parsing functions make of them. `raised` is the exception that leaves the
loader. Two changes of one link need two ways of writing its identifier (`netemAt_c2r_0` and
`netemAt_c2r_00`), because one key with two values is a list, on which `split` raises.
Two keys may name one link in the same way (`path_c2r_0`, `path_c2r_00`); the first gets the changes.
A file converted from YAML never has changes, and a value of `changeNetem` other than `yes` is as
none. Identifiers are natural numbers: `int` also reads negative ones, which this model leaves out.

`Bottleneck` is one link bs0 -- bs1 -- bs2 -- bs3. `qdisc` is what `tc` has set on the four interfaces that
matter: a kind, the number of the change that set it, and whether it has the link's delay.
`run_netem_at` starts the four chains one after the other; each has its position, the rest of its sleep
and the time since its start. `Tick` is a unit of time; it may not pass a chain that is late by
`MaxLate` already. A sleep with a negative argument and a wrong netem command fail, and what
follows the `&&` is skipped. Times are integers.

### MultiInterface

`nc` and `ns` are the numbers of links on both sides of the router, `multi` the second topology,
`dot` whether the subnets in the file end with a dot; all are inputs. A link with its switches is
a segment, and `ports` the segments of each host in the order they were connected, which is Mininet's
numbering of interfaces. Each action is a turn of one of the loops of the constructors, of
`configure_interfaces` or of `configure_routing`. `Address` and `IPAddress` are what `ifconfig` and
`ip` make of the string the code puts together: they differ for `10.01.1`, which the one reads as
10.1.0.1 and the other as 10.1.1.0 (this reading is exact for indices below 8 only, a condition of
`IndicesAgree`).

A turn of `configure_interfaces` makes its commands in the order of the code: flush, `ifconfig`, `arp -s`, and for
the connection of a server flush both ends, address of the router, entry on the server, address of the
server, entry on the router (`ConnectServer`). `arp -s` is refused when the host has no interface in the subnet
of the address (`WithArp`, `Connected`), which is the case wherever the code runs it before the host has its
own address. Mininet's own addresses, which it gives to port 0 of each host, are left out: an early `arp -s` may be accepted
because of one, but `ifconfig` and the flush take this address away afterwards, and with the last address of an interface the
kernel drops its ARP entries. The device an ARP entry is for is not modelled.

A route is a host, a table (0: the main one), a network or `Default`, a gateway and a device. `WithLink` is
`ip route add <subnet> dev <if> scope link table <n>`; `TableOf` adds it, the rule and the default route of the table. A
default route of a table or of a server names no device: the kernel looks up the gateway, in the networks of the table
and then in the subnets of the host (`Gateways`), and refuses the route when nothing is found. The default route of a
client names its device (`AddGlobalDefault`), and is refused when the gateway is not in the subnet there. A second route
to the same network of a table is refused.

## 3. Runs

| run | instance | shows |
|---|---|---|
| `experiment` | all classes, all 81 hosts of 4 sysctls with 3 behaviours each, 13 files (all that `prepare` may start, all but one thing, or next to nothing) | `RestoredWhenDone`, `RecordedBeforeChanged`, the inductive `SysctlInv`, `CleanedWhenDone` (all that `prepare` started is gone but the netem chains), types |
| `sirimsg_restore` | class SiriMsg, 10 hosts | **violated**: the second `prepare` overwrites the record |
| `runner` | 24 jobs, all classes, 2 files, 10 hosts | `RestoredAfterCompletion`, `TmpFilesRemoved` (no file is left but one whose own writing raised), the inductive `LaunchInv` and `ProgramInv`, with exceptions at every step and interrupts anywhere; `NetworkTornDown` (unless the `finally` clause itself is interrupted) and `CleanRestores` (liveness) |
| `siri_sound` | requests of 7 bytes in packets of 2 to 4, window 3, recv up to 7, 5 requests | `InSync`, `AlwaysAPacket`, the inductive `SiriInv`, refinement of `RequestReply` with its fairness, `ClientEnds` (liveness) |
| `siri_closed` | requests of 5 bytes, recv up to 6 | `CounterExact`, `WindowBound`, `OwnSendTime`: the client's accounting until the server closes on it |
| `msg` | 4 messages of 4 bytes, recv up to 5, room for 3 or 16 bytes, with and without `--bulk` | `CompleteUnlessKilled`, `BytesAccounted`, the inductive `MsgInv` (of a client that waits), refinement of `RequestReply`, `BothEnd` (liveness) |
| `msg_backlog` | 3 messages of 3 bytes, recv up to 6 | **violated**: the server waits with a complete message in its buffer |
| `threads` | 4 connections, at most 2 in the backlog | `JoinedOnce`, `JoinIsShort`, the inductive `ThreadsInv`; `AlwaysAcceptsAgain` and `FinishedAreJoined` (liveness) |
| `bottleneck` | up to 2 changes, 2 commands of which one is wrong, times with a negative one, late by up to 1 | `Settled`, the inductive `BottleneckInv`, the action property `ChangesOnTime`, `LimitedInTheEnd` (liveness) |
| `bottleneck_delay` | the same | **violated**: after a change the link has no delay |
| `topo_file` | all files of up to 4 lines out of 17 | `LoadInv`, `ChangesAreRecords`, `SoundFilesLoad` |
| `addresses` | both topologies, 0 to 3 links on each side, with and without the dot | `AddressingInv`, `SubnetsAreSegments`, `ArpIsRight` (no entry is wrong, and exactly which ones there are), `RoutesLeadToRouter` (gateways and devices) |

The bounds are enough for the interesting cases to happen. Two global
sysctls and one per namespace give every loop a first and a last turn, a boundary between
the dictionaries, and the two sysctls `IPerfScenario` writes. Five
requests with three identifiers let the numbers wrap around while the window
is full. Packets of 2 to 4 bytes of 7 reach all three cases of
`sizeOfNextPacket`; a recv as long as a request is the largest that is sound, and
`siri_closed` uses one byte more. `MaxRequests` is the only
bound in a guard of `Siri`; it stands for `RUN_TIME`.
For Msg, a room of 3 cuts every message of 4 bytes and blocks both programs, 16 holds all
responses, and a recv of 5 can span two messages. Four connections with a backlog of two let two
threads end while the list is being emptied. Two changes are enough for a chain that
is overtaken, fails at its first or its second command, or is late twice. Four lines hold
`changeNetem`, a link and two changes, or three links with a repeated key. Three links on a side have a first, a middle and
a last one, and none is the direct connection.

`CHECK_DEADLOCK FALSE`: an experiment, the program, the clients, the chains, loading and
configuring all end; of `threads` the connections are bounded.

**Fairness.** `FairRunnerSpec` assumes that Python goes on,
that is, that the commands it waits for end and the user leaves the command
line: the code waits in `communicate()` and `cmd()` without a timeout. Interrupts
and exits of processes are never forced. `FairSpec` of `Siri` assumes that
the server's thread and the receiver thread are scheduled, TCP delivers, and
`time.sleep` ends; nothing is assumed of the sender, except in `ClientEnds`, where
`SenderFairness` says that its thread is scheduled and that it finds `RUN_TIME` over at some turn
(strong fairness, because it may be busy with a request at other times). `FairSpec` of `Msg` assumes that neither
program stops while it could go on; the server need not be killed. `FairSpec` of
`ConnectionThreads` assumes that the accepting thread runs and that a thread past its
`finally` ends; no client has to close. `FairSpec` of `Bottleneck` assumes that Python
starts the chains, time passes, and a shell goes on after a sleep.

### Where the code and its words disagree

Three disagreements have a run and an entry in `findings`. Modelling showed others; each is
the reason for a condition in a property:

* `VLC.clean` passes `self` twice to its parent, whose `clean` then raises a `TypeError`: the class
  is not `Disciplined` (`experiments/vlc.py:71`).
* The servers that `run` starts in the background are left to the end of the network by most classes,
  while the docstring of `classic_run` has `clean` stop the traffic (`core/experiment.py:137`): `CleanedWhenDone` is about what `prepare` started.
* Of that, the netem chains sleep on after `clean` and still change the links
  (`core/topo.py:538`): `NetemChains` in `CleanedWhenDone`.
* When the write of the converted topology raises, the temporary file exists (`delete=False`) and nobody has its
  name (`runner.py:65`): `abandoned` in `TmpFilesRemoved`.
* An interrupt during `cleanup()` in the `finally` clause leaves the network (`runner.py:222`): `aborted` in
  `NetworkTornDown`.
* The constructor of `Runner` launches the experiment again on the stopped network, and every
  successful program ends in "A fatal error occurred" (`runner.py:111`): `RestoredAfterCompletion` and
  `Harmless` say how far the second launch gets.
* The server looks for a newline only in a recv that does not end in one: when requests are smaller than
  a recv, the end of one and all of the next are taken for one request, and the server closes, although the comment says
  "Manage the case where the client is very very quick" (`siri_server.py:57`): `RECV_SIZE <= QUERY_SIZE` in `SoundParameters`.
* A sender that writes before `outputStream` is set dies of a `NullPointerException`; nobody is left to call
  `stopClient`, and the client waits on an open socket (`SiriClient.java:293`): the exception in `ClientEnds`.
* A bulk client never reads; if the responses do not fit in the kernel's buffers both programs block in `sendall`
  for ever (`msg_client.py:48`): the exception in `BothEnd`.
* `configure_bottleneck` puts netem on bs1 and the bandwidth on bs2, the reverse of the docstring of
  `BottleneckLink` (`core/topo.py:267`) and of `configure_changing_bottleneck`; while the chains of a change
  swap them, a direction may be without a limit. `LimitedInTheEnd` is about the end.
* A change of a link that does not exist, or under a repeated key, or of a link whose identifier is
  not below the number of links raises, because `find_link_characteristic` returns its `ValueError`, a list has no
  `split`, and the logging call uses the identifier as an index (`core/topo.py:177`, `181`, `189`): the conditions of `SoundChange`.
* The docstring of `parse_link_id_and_type` says that link type and identifier are unique (`core/topo.py:196`), but
  nothing checks it: of two links with one name the first gets all changes (`IsFirst` in `ChangesAreRecords`).
* With several links between the router and the first server, the second topology uses the router's
  interfaces to the first server for the others (`topos/multi_interface.py:266`): `IndicesAgree`.
* `arp -s` is run before the host has an address on the link: the router never keeps an entry for the client, and
  the servers none for the router, except the first server of the second topology, which is configured twice
  (`topos/multi_interface.py:153`, `184`, `215`). `Learns` in `ArpIsRight` says who has an entry; the others ask by ARP as usual.
* The subnets in the README's example have no dot at the end, and give 10.1.0.1 to the client's second
  interface where the README says 10.0.1.1 (`topos/multi_interface.py:237`); routes are then refused: `dot` in `RoutesLeadToRouter`.

## 4. Proofs

All proofs hold for every value of the constants that satisfies the
assumptions named in the modules.

**ExperimentProofs.** From `KeysAssumption`, `SentinelAssumption`,
`ArtefactAssumption`, `ClassAssumption`, `ParamFileAssumption` and
`KernelAssumption` (the value a sysctl holds is one the kernel accepts again):

* `TypeCorrect`: `Spec => []TypeOK`.
* `SysctlInvariant`: `Spec => []SysctlInv`. `RestoredWhenDone` is not inductive: one
  has to know what `saved` holds for each key as soon as the loop has been
  past it (`SavingInv`, `SavedInv`), that nothing was written before that
  (`UntouchedInv`), that a missing sysctl stays missing (`AbsentInv`), which keys
  the restoring loop has done (`RestoringInv`), and in which phases the steps
  of the base class can be at all (`ControlInv`).
* `Restoration` and `NothingLost`: the two properties, from `SysctlInv`.

* `TidyInvariant`: `Spec => []TidyInv`, and from it `NothingRunning` (`CleanedWhenDone`). A capture may be
  started twice and may end by itself, so what is known is only an upper bound: the path managers are
  those the parameter file asks for (`ManagersInv`), random data exist only while the operation that removes
  them lies ahead (`RandomInv`), and once the base class's `clean` is past, nothing it stops comes back (`StoppedInv`).
  What remains of `Prepared` is `NetemChains`.

The argument for every class at once is that `Disciplined`, or `Tidy`, is the only thing the
proofs use of a class.

**RunnerProofs.** `LaunchInvariant`: `RunnerSpec => [](TypeOK /\ LaunchInv)`, and
`CompletionRestores` (`RestoredAfterCompletion`) from it. A launch starts from the restored host (`SysctlInv` again, for
the new object), and a launch on the stopped network stays within `Harmless`: the
first sysctl of a namespace is read before anything is written, and reading
it raises. `ProgramInvariant` (`ProgramInv`) says how many launches there can have been at each step, and that outside the
conversion every file of a program that was not interrupted is tracked or abandoned, and never both; `NoFileLeft` (`TmpFilesRemoved`) follows: the
only file left is the one whose writing raised.

**SiriProofs.** From `SizeAssumption` alone, that is for all sizes, windows,
numbers of identifiers and of requests. `SiriInvariant`: `Spec => [](TypeOK /\ SiriInv)`;
`PacketsExist`, `CounterIsExact`, `WindowIsKept`, `TimesAreOwn` and `ServerInSync` follow
from it. None of these properties is inductive. `SiriInv` adds what a request
has become between two of its packets (`SenderInv`, `RestInv`), that `counter` lacks
exactly the bytes not counted yet (`AccountInv`), that newlines stand at the multiples
of `QUERY_SIZE` in the stream and nowhere else (`StreamInv`), and that the server's two
buffers hold one request at most and the beginning of the next (`ServerInv`). The steps
worth reading:

* `PacketLeaves`: with sound sizes a packet takes all of the rest or leaves at least
  `MIN_PAYLOAD_SIZE`, also when it was enlarged for the header.
* `StaleTest`: a counter that is too large by some answers can only refuse a request, so
  that the test without the lock keeps the window.
* `DifferentIds`: two requests in a window of at most `MAX_ID` have different numbers.
* `StreamStep` and `UsedFits`: between two multiples of `QUERY_SIZE` there is no third, so
  a recv no longer than a request sees at most one newline, and cutting there leaves
  exactly one request in `buffer_data`.

`CounterIsExact`, `WindowIsKept` and `TimesAreOwn` do not need `SoundParameters`; the other two do,
and `siri_closed` is an instance without it. `SiriRefines`: under `SoundParameters`, `Spec => RR!Spec`, the safety part
of the refinement of `RequestReply`; each step of the two programs is a request, an answer, a delivery, the end or a
stutter. `CloseInv`, a part of `SiriInv`, says that the connection is closed between two requests only.

**MsgProofs.** From `MsgAssumption`, for all sizes, rooms and numbers of messages. `MsgInvariant`: `Spec => []MsgInv`.
`WaitingInv` says of a client that waits where the bytes of its one request are (in `sendall`, on their way,
in the server's buffer, on their way back), for each pair of places of the two programs; `GoneInv` what is
left once the server is closed; `LoopInv` is about the loops, with and without `--bulk`. `Complete` (`CompleteUnlessKilled`)
and `IssuesExplained` (the client prints "An issue occured" only if the server was killed) follow. `NoByteLost`
(`BytesAccounted`) holds with and without `--bulk`, by its own induction on top of `MsgInv`. `MsgRefines`: `Spec => RR!Spec`,
with a window of one.

**ConnectionThreadsProofs.** From `ConnectionAssumption`, for every backlog and number of
connections. `ThreadsInvariant`: `Spec => []ThreadsInv`; `NoKeyError` (`JoinedOnce`) and `JoinsAreShort`
follow. `JoinedOnce` alone is not inductive: an id is appended once only because a thread whose
id is in `to_join` or being joined is past its `finally` clause, it is in the table because
`NoneForgotten` holds until the thread has ended, and a new connection disturbs neither
because its id is no thread's yet and the thread that is started is the one just created.

**BottleneckProofs.** From `BottleneckAssumption`, for all times (negative and disordered ones
too), commands and numbers of changes. `BottleneckInvariant`: `Spec => []BottleneckInv`, with the parts `ChainsInv` and `CommandInv`. In the first, `SleepsAddUp`
says the sleeps of the accepted changes add up to their times, and `ChainInv` that what a chain
has slept and has still to sleep reach the time of the change it is at, and that its
interface is in the state of the change before. `OnTime` (`ChangesOnTime`) follows: the commands of a
chain take time, and `sleep` counts from when it starts, so a chain can only be late, and no other
chain changes its interface. `SettledInTheEnd` (`Settled`) needs `CommandInv`: what the last command of a chain
has set is still on its interface, and every chain has been started once `run_netem_at` returned.

**TopoParameterProofs.** From `TopoParameterAssumption`, for all files, sets of keys and parsing functions.
`TopoInvariant`: `Spec => []TopoInv`; `FileIsLoaded` (`LoadInv`), `RecordsRemain` (`ChangesAreRecords`) and `SoundFilesOnly`
(`SoundFilesLoad`) follow. Orders are stated by counting: the value of a line is in the dictionary at the place given by
the number of lines with its key up to it, and likewise for links, so that a step adds one to one
count (`CountedUpTo`, `PlaceOf`). `ChangesInv` adds to `ChangesAreRecords` that no change named so far is later than
the last one kept, which is why comparing with the last one only, as `add_netem_at` does, finds all records
(`RecordsStep`). `SoundSoFar` says that the keys passed without an exception are all right; that the
conditions of `SoundChange` are those of the code needs the number of links to be the number of
sound path keys (`LinksCounted`, a bijection) and the links to be those the keys name (`LoadedIsNamed`).

**MultiInterfaceProofs.** From `MultiInterfaceAssumption`, for all numbers of links and all pairs of different
subnets. `NetworkInvariant`: `Spec => []NetworkInv`. `Done` counts the turns made of each of the fifteen loops, and the state
is a function of it: which segment is at which port (`PortsInv`), which interfaces have their address
(`Given`, `Intended`, `AddressInv`), which ARP entries there are, that each is right and of a host that could reach the
address when it was made (`ArpSound`, `MayLearn`, `ArpComplete`), which rules and
routes there are, that the routes of a table are of one interface, and that none is there too early, which would make `ip route` refuse the
one to come (`RoutesInv`). Whether `arp -s` and `ip route` are accepted, and through which device, rests on `ConnectedTo`: a
host has at most one interface in a subnet, so `Connected` is that interface if it has its address and empty before (`Holds`).
`ControlInv` is the order of the loops. The properties follow: `NoAddressTwice` (`AddressingInv`: different interfaces are
meant to have different addresses, and each exists when it is its turn), `SubnetsMatchSegments`
(`SubnetsAreSegments`), `ArpEntriesRight` (`ArpIsRight`) and `EveryHostIsRouted` (`RoutesLeadToRouter`).

**Only model-checked.** Liveness (`CleanRestores`, `NetworkTornDown`, `ClientEnds`, `BothEnd`, `AlwaysAcceptsAgain`,
`FinishedAreJoined`, `LimitedInTheEnd`, and the fairness part of both refinements) is beyond the
prover. Every invariant and action property of the passing runs is proved.

## 5. Not modelled, and the plan

Not modelled: the class `QUIC` (shadowed in the registry), `https_server.py` (a
configuration of `http.server`), the text of command lines, logs and converted files, `getPoisson` and
`getIPAddress` of the client, bursts (they only change how long the sender
sleeps), queue and buffer sizes of links (floating point formulas that only appear in command
lines), the drawings made by `__str__` of the topologies, and the address 10.1.0.1 in `msg_client.py`, a constant.

Left: nothing of the plan for safety. What could still be added are theorems that join components, such as
that the changes `TopoParameter` loads are ones `Bottleneck` can start from.

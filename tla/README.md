# RSIM in TLA+

RSIM (Rice Simulator for ILP Multiprocessors) simulates a CC-NUMA
multiprocessor: out-of-order processors with two levels of cache, a directory
at every node, a bus inside each node and a wormhole mesh between nodes. This
directory holds TLA+ modules that model parts of the simulator, the TLC
configurations that check them on small machines, and proofs that the TLA+
proof system checks. `PROJECT.json` lists the parts of the system, the runs,
for every definition the lines of source it stands for, the hazards, the
findings and the theorems. Paths below are those of the repository, under
`src/`; `dir.c:123` is short for `src/src/MemSys/directory.c:123`.

1. [The system](#1-the-system)
2. [The modules](#2-the-modules)
3. [The runs](#3-the-runs)
4. [Where code and comments part](#4-where-code-and-comments-part)
5. [The proofs](#5-the-proofs)
6. [What is not modelled](#6-what-is-not-modelled)
7. [Plan](#7-plan)

## 1. The system

The simulator is one sequential program. An event list (`driver.c`) calls the
event function of one module at a time; an event runs until it delays itself
(`YS__ActivitySetState`, `schedule_event`) or sleeps for a queue or for a
buffer. "Concurrency" is therefore that of events: a module picks a message,
waits for its access delay, and works on it when other modules have run in
between. All messages are `REQ` records (`incl/MemSys/req.h`), handed from
port to port and rewritten on the way.

| Part | Source | State | Operations | Interacts with |
|---|---|---|---|---|
| Home directory | `directory.c`, `directory.h` | per line: state, sharer vector, `pend`, `extra` (saved request, counter of COHEs, who is waited for), `BufPend`; `ReadyReqs`, `OutboundReqs`, `req_partial`, `buftotsz`, `wait_cntsz` | `DirSim` (serve, delay, send), `Dir_Cohe` (decide), `DirCheckBuf`, `DirNackPendResend` | caches, by four ports |
| L2 cache | `l2cache.c`, `mshr.c`, `cachehelp.c`, `setup_cohe.c` | tags and their state, `cohe_pend`, MSHRs, write-back buffer, tag and data pipes | requests, REPLYs, RARs, COHEs, COHE_REPLYs, replacement | L1 cache, bus, directory |
| L1 cache | `l1cache.c`, `pipeline.c` | tags, MSHRs, pipes | the same for a write-through or write-back L1 | processor interface, write buffer, L2 |
| Write buffer | `wb.c`, `wbuffer.c` | queue of writes, coalescing counts | insert, coalesce, stall a matching read, drain | L1 and L2 |
| Processor interface | `cpu.c`, `capconf.cc` | L1 request port, completion callbacks | `addrinsert`, `MemDoneHeapInsert` | memory unit, L1 |
| Ports and routing | `route.c`, `module.c` | FIFO ports with a capacity, sleeping owners | `addQ`, `rmQ`, `add_req_head`, `checkQ` | all modules |
| Bus | `bus.c` | the winner of arbitration, the request in transit | arbitrate, transfer | L2, directory, network interface |
| Network interface | `smnet.c` | send and receive queues, semaphores, `EvntReq`, `EvntReply` | `SmnetSend`, `ReqSendSemaWait`, `ReqRcvSemaWait` and the reply versions | bus, network |
| Network | `net.c`, `mesh.c` | buffers, multiplexers, flits of a packet | wormhole switching, dimension order | network interface |
| Event kernel | `driver.c`, `act.c`, `evlst.c`, `userq.c`, `pool.c` | calendar queue, activities, semaphores, pools | schedule, signal, wait, allocate | all modules |
| Rename, active list | `active.cc`, `freelist.cc`, `tagcvt.cc`, `stallq.cc`, `graduate.cc` | mappers, free lists, busy bits, active list, tag converter, distributed stall queues, window counters | rename, wake up, graduate, flush | pipeline |
| Branches, exceptions | `branchresolve.cc`, `branchpred.cc`, `except.cc` | shadow mappers, sleeping branches, `stall_the_rest`, predictor | speculate, resolve, revive, recover, restart | rename, memory unit |
| Memory unit | `memunit.cc`, `memprocess.cc` | load and store queues, memory barriers | issue, forward, speculative loads and their rollback | processor interface |
| Pipeline | `pipestages.cc`, `exec.cc`, `units.cc` | decode queue, functional units | fetch, decode, issue, complete | all of the processor |
| Address map | `associate.c`, `shmalloc.cc` | pages and their homes | allocate, look up | caches, network interface |
| Applications library | `apps/utils/lib/sync` | locks, tree barrier | acquire, release, wait | simulated programs |

### How a miss goes

A processor's access misses in the L1 and the L2 cache. The L2 books an MSHR
and sends a REQUEST (`READ_SH`, `READ_OWN` or `UPGRADE`) to the line's home
directory. The directory either answers (`REPLY_SH`, `REPLY_EXCL`,
`REPLY_UPGRADE`), refuses it with `RAR` because it has no buffer, parks it
behind the line's transaction (`BufPend`), or opens a transaction: it sends
COHEs (`INVL`, `COPYBACK`, `COPYBACK_INVL`), counts down their
acknowledgments, and then answers. When one cache owns the line the request
itself becomes the COHE; the owner forwards it to the requester as the REPLY
(`REPLY_SH`, `REPLY_EXCL`, `REPLY_EXCLDY`) and sends the directory an
acknowledgment. Lines leave a cache silently (shared), with a replacement hint
(`REPL`, private clean) or with a write-back (`WRB`).

### What is hard

* **Interleaving.** A COHE races the write-back of its owner; a request
  overtakes the write-back of its own node; a COHE overtakes the REPLY that
  makes its target the owner; an invalidation meets an MSHR and can be for
  the copy before or after. Each is settled by a case of its own (`NACK`,
  `NACK_PEND`, the class 2 RAR, `WaitingFor`, merging into the MSHR).
* **Order.** The request network is first in, first out per sender; the
  reply network puts what it receives at the *head* of the next port
  (`route.c:810`), so REPLYs and COHE_REPLYs may arrive in any order.
* **Work interrupted.** `DirSim` peeks at a message, sleeps for its access
  time, and then decides; and it stops in the middle of a set of COHEs or of
  an answer when a port is full.
* **Limits.** Directory buffers (refuse and retry), ports (stall), MSHRs,
  write-back buffer entries.
* **Speculation.** A processor renames down a predicted path; a branch may
  resolve before its delay slot is fetched, while the slot is stalled in
  rename, or while it sleeps for a shadow mapper; a misprediction, a recalled
  load or a trap may flush the window in any of these states.
* **Progress.** A directory asleep must be woken by every event that gives it
  work; parked requests must be released by the end of every transaction;
  retries must not go round for ever. Decoding is stopped by one variable,
  `stall_the_rest`, that a dozen places set and clear.

What would make each part correct:

| Part | Properties |
|---|---|
| Protocol | one writer or many readers; no request lost or answered twice; no "unknown request" reached; every miss answered; the directory's vector covers every copy |
| Directory | transaction state and `extra` agree; counters equal what is in flight; buffers neither leak nor overrun; no parked request without a transaction to release it |
| L2 cache | a line being written back is neither cached nor requested; `cohe_pend` is not left behind; MSHR and line state agree |
| L1, write buffer | inclusion; a read never passes a buffered write to its word; the full buffer drains |
| Network interface | per-sender order; no wake-up lost; no message lost at a full queue |
| Rename | every physical register is free, mapped or an old mapping, exactly once; a source is never freed under its reader; who waits for a register is woken |
| Branches, exceptions | restoring a shadow mapper equals undoing the renamings one by one; every speculation can be undone; mappers are given back; decoding is stopped only for a reason that goes away |
| Memory unit | a processor sees its own stores, barriers order what they are to order; no completion delivered to a flushed instance |
| Event kernel | simulated time passes no event; events of one time occur in the order in which they were scheduled, whichever list implements it |
| Barrier | nobody leaves an episode before all have come; all leave |

`PROJECT.json` lists the hazards one by one, each at its line, with the
properties that watch it.

## 2. The modules

```
 Messages ──┬── Directory ──┬───────── DirectoryProofs (theorems)
            │               │    └──── MCDirectory          directory
            ├── L2Cache ────┼───────── L2Proofs (theorem)
            │               │
            │           Coherence ─┬── MCCoherence          protocol, three_nodes
            │               :      └── CoherenceProofs (theorems; with DirectoryProofs and L2Proofs)
            │               :             └── RequestProofs (theorems)
            │               :                    └── OwnerLemmas ── OwnerProofs (theorems)
            │               :
            └── Sharing ....:  (abstract protocol, refined by Coherence)

 Pipe ..... Network ────────────────── MCNetwork            network
   :....... Interconnect ──┬────────── MCInterconnect       interconnect
                           └────────── InterconnectProofs (theorems)
 FirstLevel ────────────────────────── MCFirstLevel         first_level

 Rename ────────────────────────────── MCRename             rename
 MemUnit ───────────────────────────── MCMemUnit ─────────  memory_unit
                                           └ MCMemUnitFindings  spec_store
 Predecode ─ Funcs ─ InstrSet ──────── MCInstrSet           semantics
 EventList .. Evlst ── Driver ─┬────── MCDriver             events
                               └────── DriverProofs (theorems)
 Barrier .. TreeBarrier ────────────── MCTreeBarrier        barrier

 lines: EXTENDS; dots: refinement, or the abstract form that stands in
```

The modules follow a request from the program to its home and back. `Predecode`,
`Funcs` and `InstrSet` say what the instructions compute; `Rename` in what order a processor keeps up
that they run one by one, `MemUnit` the same for loads and stores. `FirstLevel`
takes an access from the processor through L1, write buffer and L2;
`Interconnect` a message from there over bus and network interface to another
node; `Network` through the mesh; `Directory`, `L2Cache` and `Coherence` say
what the message does there. `Evlst` and `Driver` run the events that all of
these are made of. `TreeBarrier` is the one program that the library brings
along. Each abstracts its neighbours to what they may do to it.

**`Messages`** is the `REQ` record, reduced to the fields the protocol reads,
and the assumptions on the constants. The machine has one home directory and
any number of nodes; `node` is the cache at the other end of a message, so
that `src_node` and `dest_node` are one field. `isreq` says whether the object
is the processor's own request or one that directory or cache made.

**`Directory`** is `DirSim` and `Dir_Cohe`. `pc` says where the event stands:
scheduled (`SCHED`), running (`START`), delayed for the access to a message
(`SERV`) or for making a COHE packet (`SENDCOHE`), asleep until a message
arrives (`WAIT_INQ_EMPTY`) or also until a queue has room
(`WAIT_QUEUE_EVENT`), or at an error (`EXIT`). `sel` is what `dirptr->req`
points to, which survives a delay. A step is what the event does between two
points where it delays or jumps; while `pc = "START"` it is running and nothing
else moves. Picking a message and deciding on it are two steps, and messages
arrive in between. The four ports have capacities `InCap` and `OutCap`, and
an arrival or a removal wakes the directory when `addQ` or `rmQ` would. Every
`YS__errmsg` that a message could reach sets `fatal`, and so does following the
null pointer of `dir.c:833`. `DirSpec` closes the module with an environment
that sends any request, any acknowledgment and any write-back at any time.

| Code | TLA+ |
|---|---|
| `DIRSTART`, `DIROUTBOUND`: what to do next, going to sleep | `DirActivate`, `DirOutbound`, `DirPick`, `DirNextPort`; `Offer`, `Asleep`, `StartOver` |
| `DIRREQ`: bounced, refused and parked requests | `DirReqBounce`, `DirReqRAR`, `DirReqPend`; `HaveBuffer`, `CommitReq`, `LeaveReq` |
| `Dir_Cohe`: a request is decided | `DirReqGrant`, `DirReqWaitForWRB`, `DirReqInval`, `DirReqForward`; `CoheReqType`, `GrantType` |
| `DIRSENDCOHE` | `DirSendForward`, `DirSendInval`, `DirSendCoheNull` |
| `DIRCOHEREP`: acknowledgments and NACKs | `DirAck`, `DirAckReply`, `DirAckForward`, `DirNackRace` (class 2 RAR), `DirNackRetry`, `DirNackPendResend`; `AnswerClass` |
| `DIRWRB`: write-backs and replacement hints | `DirWrbRevive`, `DirWrbWasHere`, `DirWrbPlain`; `Uncache` |
| `DirCheckBuf`, end of a transaction | `DirCheckBuf`, `Settle`, `SendOrQueue` |
| `YS__errmsg` | `DirReqError`, `DirCoheRepError`, `DirWrbError` |
| `route.c` | `ArriveReq`, `ArriveRep`, `TakeCohe`, `TakeRep` |

`PROJECT.json`, "map", gives the lines of each definition.

**`L2Cache`** is `L2ProcessTagReq` and its helpers for all nodes, under a
write-through L1 (the default, `architecture.c:114`). A COHE passes the tags
twice: first it is classified and sent up, later it comes back from the L1 and
takes effect; in between the line may be replaced, replied to or requested.
`L2Miss`, `L2WriteHit` and `L2WriteCoalesce` are the processor's requests;
`L2Retry`, `L2Bounce` and `L2Install` the replies; `L2Evict` and `L2SendWRB`
the replacement through the write-back buffer; `L2Cohe` the first pass of a
COHE and `L2NackPend`, `L2Merge`, `L2NackInvl`, `L2NackMiss`, `L2Ack`,
`L2Forward`, `L2CoheError` its second. Which line a miss replaces is left to
choice, so a set of one line and a large set are both covered. `L2Spec` closes
the module with an environment in which any REPLY and any COHE may arrive at any
time and what the caches send leaves when it likes.

**`Coherence`** joins the two: requests keep the order of their port, COHEs
the order of the request network, REPLYs and COHE_REPLYs arrive in any order.
It states the safety properties of the protocol, its fairness, and the mapping
under which it implements **`Sharing`**: nodes with permissions on lines, a
request for a better one, a grant in one step.

**`Network`** is one network of the shape that `mesh.c` builds, flit by flit.
A packet is a head, a tail and the flits between; two events move it, and each
of their states is a state of the model. A head waits for the multiplexer
before a link, for a place in the buffer behind it, or for the place in an
output port; a tail follows through each buffer that the head has
passed, shifts flits (and the bubbles between them) and releases the
multiplexers. All waiting is on the semaphores of `userq.c`, which wake the
first waiter. **`Pipe`** is what it promises: between two nodes nothing is
lost, doubled or overtaken.

| Code | TLA+ |
|---|---|
| `mesh.c`, the wiring | `Components`, `Behind`, `MeshRoute`, `ModuleAfter` |
| `YS__PacketSend`, `YS__PacketReceive` and their callers | `Send`, `Receive`, `PacketSend`, `PacketReceive`, `MayStart` |
| `YS__HeadEvent` | `HeadEvent`: `HeadStart`, `HeadMove`, `PassMux`, `Enter` |
| `YS__TailEvent` | `TailEvent`: `TailStart`, `TailShift`, `TailMove`, `TailDone`; `ShiftBubbles` |
| `YS__BufHeadGet/Put`, `YS__BufTailGet/Put` | `HeadGet`, `HeadPut`, `TailGet`, `TailPut`; `NewSpace`, `WakeTail` |
| `WaitSema`, `SignalSema` | `Semaphore`, `SignalMux`, `SignalPort`, `SignalPortrdy`, `SignalNetrdy` |

**`Interconnect`** is bus and network interface of every node between caches
and directories that send and take messages. The two networks between the
nodes are each a `Pipe`. Every event that can sleep is here with the condition
it sleeps on and the calls that wake it.

| Code | TLA+ |
|---|---|
| `node_bus` | `BusStart`, `BusDeliver`; `routing_bus` |
| `add_req`, `rmQ`, the handshake of a bus with `SmnetRcv` | `AddReq`, `WakeBus`, `Handshake`, `Put`, `Take` |
| `SmnetSend`, `ReqSendSemaWait`, `ReplySendSemaWait` | `SmnetSend`, `SendSemaWait` |
| `ReqRcvSemaWait`, `ReplyRcvSemaWait` | `RcvSemaWait` |

**`FirstLevel`** is the L1 cache and the write buffer of a node, and of its L2
cache what they rest on: the MSHRs, with coalescing, and the REPLYs that go up.
`L2Cache` has the second level's coherence in full and only one request per
MSHR; here the requests are told apart.

| Code | TLA+ |
|---|---|
| `addrinsert`, `MemDoneHeapInsert` | `Issue`, `Perform` |
| `L1CacheInSim`, `L1ProcessTagReq` | `L1Pipe`: `L1Request` (`L1Hit`), `L1Resend`, `L1Leave`; `L1Above`: `L1Reply`, `L1Cohe` |
| `notpres_mshr`, the MSHR's answers | `L1Response`, `Merged`, `MarksWAR`, `Stalls`, `Merges`, `Settled`, `NewMSHR` |
| `WBSim` | `WBSim`: `WbRead`, `WbWrite`, `WbTrickle`, `SendOldest`; `WbMatch`, `Fits` |
| `L2ProcessTagReq`, `L2ProcessDataReq` | `L2Request` (`L2RequestHit`), `L2Reply`, `L2Data`, `L2Cohe`, `L2CoheReply`, `Invalidating`, `Below` |

**`Rename`** is one processor from decode to graduation, without what the
memory unit does. An action is one instruction's turn in a stage. `Decode` fetches any
instruction of `Codes` and renames it with `check_dependencies`, which can fail
in several places and leave the instruction in the stall queue for
`DecodeStalled`; `Complete` is `update_cycle` for one instruction, in any
order that the registers allow, and decides as the predictor's and the
program's choice whether a branch was predicted well (`GoodPrediction`) or not
(`BadPrediction`); `Graduate`, `FlagException`, `TakeException`,
`HoldException` and `TakeHeldException` are the end of an instruction.

| Code | TLA+ |
|---|---|
| `decode_cycle`, `decode_instruction`, `check_dependencies` | `Decode`, `DecodeStalled`; `First` (first destination), `RenameBoth` (second destination, shadow mapper, unpredicted jump, sources), `StallInRename` |
| `update_cycle` | `Complete`: `CompletePlain`, `CompleteJump`, `GoodPrediction`, `BadPrediction`, `ResolveEarly` (the delay slot is not there yet); `Finish`, `StallOver` |
| `RemoveFromBranchQ`, `AddBranchQ`, `CopyBranchQ`, `FlushBranchQ` | the same names; `HasMapper`, `TakesMapper`, `WaitsForMapper`, `GetElement`, `Asleep`, `ForgetSleeper` |
| `FlushStallQ`, `FlushActiveList` | `Younger`, `Given`, `UndoWindows`, `FlushRest` |
| `MiniStallQ::ClearAll` | `Woken`, `Marked` |
| `remove_from_active_list`, `PreExceptionHandler`, `ExceptionHandler`, `reset_lists` | `Graduate`, `Excepting`, `HoldException`, `TakeException`, `TakeHeldException`, `ExceptionHandler` |
| `exit()` in any of these | `rfatal` |

What is abstracted: which of the free registers is taken (a stack; nothing
depends on it), values, program counters and predictors, functional units
and latencies, the memory unit except that it may recall a completed load
(`SOFT`) and may hold a hard exception back, the privileged code of a window
trap, of which only the net change of the window counters is kept.
`STALL_ON_FULL` is off, as by default, and branches are not put in delay slots,
which `pipestages.cc:1073` excludes too.

**`MemUnit`** is the memory unit under release consistency, the default build,
for any program of loads, stores, read-modify-writes, barriers and branches. A
cycle is divided as in `RSIM_EVENT`; within it the order in which operations
are looked at is the code's, and between cycles the caches perform, answer and
invalidate in any order. It has the load and store queues; forwarding from an
older store, with partial overlaps; loads that bypass stores of unknown address,
in the three treatments `STALL`, `LIMBO` and `EXCEPT`; speculative loads across a
barrier with their rollback; and flushes, with what returns from the caches
after one.

| Code | TLA+ |
|---|---|
| `AddToMemorySystem`, `AddFullToMemorySystem`, address generation | `Decode`, `Enter`, `AddFull`, `Disambiguate` |
| `IssueMem`, `IssueStores`, `IssueLoads` | `IssueMem`, `IssueStore`, `IssueLoad`, `EndIssue`; `StoreIssuable`, `StoreHeld`, `MemIssueHeld`, `LoadIssuable`, `Forwards`, `Blocks`, `FromVSB` |
| `memory_latency`, `PerformMemOp`, `MemDoneHeapInsert` | `Request`, `Perform`, `Return`; `TagMatches` |
| `SpecLoadBufCohe` | `External`, `SpecLoadBufCohe`, `MinSpec` |
| `CompleteMemQueue`, `CompleteMemOp` | `CompleteMemOp`: `CompleteLoad`, `CompleteStore`, `FlushedOp` |
| `FlushMems`, `mark_stores_ready`, graduation | `FlushMems`, `ResolveBranch`, `GraduateCycle` |

**`Predecode`**, **`Funcs`** and **`InstrSet`** are the machine that a program
sees. `Predecode` has the opcode tables and the format functions: which fields
of the instruction word become which operands, whether they are single, double
or pairs, which address space makes what of an access, how wide it is. `Funcs`
has the functions of `funcs.cc`, each as the results and the bytes that the
code leaves for given operands, or the exception. `InstrSet` runs programs with
them, one instruction after the other: register windows that spill and fill through
the trap table, delay slots and annulled ones, the three predictors and the return
address stack, memory with its byte order, forwarding from the last store, a
stack and a heap that grow, and the traps to the simulator.

| Code | TLA+ |
|---|---|
| `predecode_table.cc`, `predecode_instr.cc` | `Predecode`: a `Decode...` for each format function; `Operands`, `Address`, `Unit`, `mem_length` |
| `funcs.cc` | `Funcs`: `IntFunction`, `FpFunction`, `MemFunction` and what they use; `Taken`, `Exc`, `Left` |
| register windows, `convert_to_logical`, the trap table | `convert_to_logical`, `WindowMissing`, `MoveWindow`, `WindowTrap`, `trapstable`, `TrapReturn` |
| `branchpred.cc` | `BPBPredict`, `BPBComplete`, `RASInsert`, `RASTop`, `Predicted`, `Resolved` |
| `except.cc`, `traps.cc`: what the program sees of them | `Raises`, `GrowStack`, `ProcessSerializedInstruction`, `SysTrapHandle`, `FatalException` |

A word is `W` bits instead of 32, a byte a quarter of a word. The arithmetic of
floating-point values is the host's, and stands in as a format of a few bits (an
external definition, with an infinity and a NaN). Not followed are: other fields of the
floating-point state register than the condition codes, stores that forward
other than the last one, `fork` and calls to the file system, and what a wrong
path computes.

**`Evlst`** is the event list in both its implementations, and **`EventList`**
what it promises: a bag from which the entry of the least time leaves first, and
among those of one time the one inserted first. Insertion, removal
and look-up are one action each. The calendar queue resizes itself in the middle of
an insertion or a removal, and that is one action per turn of its loops, because
it uses the queue's own removal and insertion while the queue is half moved:
samples are taken from the head to find a bin width, put back in front of
their equals, and the elements are copied bin by bin into a new array at the
other end of the same space. **`Driver`** is `DriverRun` with what bodies
and users call.

| Code | TLA+ |
|---|---|
| `YS__EventListInsert`, `-GetHead`, `-Headval`, `-Delete`, `-Init`, `-Select` | the same names without the prefix; `Place` (the position in a linear list), `Put`, `TakeHead` |
| `YS__CalQueFindHead` | `FindHead`: one round over the bins (`Slot`, `Hits`), then the direct search |
| `YS__CalQueResize`, `YS__CalQueNewWidth` | `Resizing` (the thresholds), `TakeSample`, `PutSample`, `NewWidth`, `NewArray`, `CopyElement` |
| `DriverRun` | `DriverRun`, `Occur`, `BodyReturns`, `Advance` |
| `ActivitySchedTime`, `EventReschedTime`, `DriverInterrupt`, `DriverReset` | the same names; `Schedule` |

`BodyReturns` leaves an event `LIMBO` even if its body has rescheduled it, so that
the check of `ActivitySchedTime` for a pending activity does not find it; what keeps
an activity from being on the list twice is that its users do not schedule it
twice, which is `Schedule`'s guard. Nothing calls `YS__EventListDelete`; it is
modelled with the rest of the list. Times are counted in a unit that is also the
least bin width, and times beyond what an `int` holds of them are
left out.

**`TreeBarrier`** is `TreeBar` of the library on a memory that reorders
stores; it implements **`Barrier`**, where all arrive before anyone leaves.

Conventions. Names are those of the source where TLA+ allows it. A definition
called `MutX` is `X` with a plausible slip; it is no part of the model and
exists so that each property can be seen to fail. Time, statistics, hit
levels, latencies and page homes are left out: a delay is a step of any
length.

### Bounds and choices

* `InCap`, `OutCap`: capacities of the directory's input and output ports
  (`portszdir`, 64 by default, 1 allowed).
* `BufMax`: directory buffers (`DIRBUF`, `dir.c:432`).
* `MaxMisses`: misses of all nodes in the runs that need a finite workload.
* `MaxWait`, `MaxOutbound`, `MaxCohe`: limits of runs with an open
  environment, which would send for ever; named in the `MC` modules.
* `Writer` (`MCDirectory`): the one node that sends write requests and
  invalidation acknowledgments; the others read. The directory compares the
  nodes of messages only with each other, see the module's comment.
* `MAX_ACTIVE_NUMBER`, `MAX_SPEC`, `NUM_WINS`: sizes of the active list (two
  entries per instruction), of the branch queue and of the register windows.
* `MaxTag`: instructions that a run of `Rename` fetches; tags are not reused,
  as in the code.
* `DataPipeFull`: whether a REPLY can find the L2's data pipe full after it
  has set the line. See section 4, item 5.
* `MeshSize`, `BufSize`, `BufThresh`, `PortSize`: nodes per dimension, flits
  per buffer, free flits that let a head in, packets per port; `MaxPackets`
  and `Cases` what the nodes send.
* `BusPort`, `NetPort`: messages in a port of the bus and in one of the network
  interface.
* `MaxAccess`, `FirstLines`, `MaxExternal` (`FirstLevel`): accesses of the
  processor, the line of the first, coherence messages from below. `MaxMshrs`,
  `MaxCoals`, `WbufSz`, `L1Ports`, `WbPort`, `L2Port`: the sizes that the code
  reads from its parameter file. `Recalls`: see section 4, item 10.
* `MaxMemOps`, `GraduateRate`, `MaxLength`, `MaxExternal`, `MaxMispredict`
  (`MemUnit`): size of the memory queues, graduations per cycle, length of
  a program, writes by others, mispredictions. `Cases` are programs and modes.
* `W`, `Globals`, `Programs`, `Inputs`, `NUM_WINS`, `SZ_BUF`, `RAS_STKSZ`,
  `ALLOC_SIZE`, `Heap`, `Stack`, `lowshared`, `Shared`, `MAXSTACKSIZE`
  (`Funcs`, `InstrSet`): width of a word, registers, programs and the
  values they start with, sizes of the register file, of the predictor and of memory.
  `Fresh` is what a fresh page holds.
* `Activities`, `Times`, `CALQSZ`, `Widths`, `InitBins` (`Evlst`): activities, the
  times they can be scheduled at, a third of the space for bins, the widths
  that sampling may find (its arithmetic is abstracted to them), the bins to start
  with. `Delays`, `Durations`, `MaxSerial` (`Driver`): arguments of the scheduling
  calls and of `DriverRun`, scheduling calls in all.
* `N`, `MaxRounds` (`TreeBarrier`): processors and barriers.
* `wait_cntsz` is only printed and checked against zero; the runs leave it
  out of the fingerprint (`View`), because it drifts (section 4).

## 3. The runs

| Run | Machine | States | What it shows |
|---|---|---|---|
| `directory` | 3 nodes (one sends everything, two read), 2 buffers, ports of 1 | 3.0 million | whatever the caches send, the directory's books agree: `NoStranded`, `VectorOK`, `CohesCounted`, `PickedThere`, and `Accounts`: types, `PendIffExtra`, `CounterOK`, `BufBound`, `BufAccounting` |
| `protocol` | 2 nodes, MESI, 1 buffer, 3 misses, fairness | 62,000 | no error, one request per MSHR, `L2Consistent` (tags, MSHRs, write-back buffer and `cohe_pend` agree), every step is one of `Sharing`; every MSHR is released and every transaction ends, though requests are refused and sent again |
| `three_nodes` | 3 nodes, MESI, 2 buffers, input port of 1, 4 misses | 465,000 | coherence with several sharers to invalidate, and forwards against a third node's request; a write-back that the directory waits for is on its way |
| `rename` | window of 3 instructions, 1 shadow mapper, 1 window to save, 5 instructions of 7 kinds | 722,000 | no `exit()`, no deadlock; registers, shadow mappers, wake-ups, stalls and windows are right on every path |
| `memory_unit` | 19 programs of 4 or 5 instructions, 1 write from outside, 1 misprediction | 129,000 | own stores are seen, barriers order what they are to order, no store that is flushed later reaches a cache, every program ends |
| `network` | mesh of 2 x 2, buffers of 2 flits, 3 packets of up to 4 | 19,000 | flits are conserved, no ring of packets that wait for each other, `Pipe` is implemented, all arrive |
| `interconnect` | 2 nodes, bus ports of 1, network ports of 2 | 62,000 | no event sleeps over work, every message arrives at the right module, requests in order |
| `first_level` | 3 accesses to 2 lines, one of everything | 195,000 | each access is performed once, none passes an older write to its line, inclusion, everything is answered |
| `barrier` | 4 processors, 4 barriers | 5,700 | `Barrier` is implemented, all leave |
| `semantics` | words of 8 bits, 75 kinds of program on chosen values | 55,000 | conditions decide the relation they are named for, in integers and floating point, by every predictor; multiply, divide and remainder sequences compute what they should; memory keeps bytes in order, and pages, locks and forwarding work; recursion through the windows comes back with its registers |
| `events` | 5 scheduling calls at 4 times, bins that grow from 2 to 4 or shrink from 8 to 4, 2 widths, or a linear list | 389,000 | time passes no event; both lists implement `EventList` through every resize |
| `spec_store` | one program | | a counterexample, section 4 |

Why these bounds. A race of this protocol involves at most three parties: a
requester, an owner or sharer, and a second requester; three nodes have them
all, and a third sharer adds only one more acknowledgment to count. One buffer makes every second request a refused one; two let one
request be parked and another served. Input ports of one message make every
arrival wait for the one before. The directory's own run has an environment
that is not restrained by any protocol, and therefore reaches states that no
composition does. Requests, replies and COHE_REPLYs are sets because no two
equal messages are ever in flight together: of the requests and of the COHEs with
their answers, `RequestsConserved` (section 5) proves it.

The window of `rename` holds a branch, its delay slot and one instruction of
the predicted path, or two speculations of which the second must sleep for the
only mapper; the system trap that turns the detailed simulation off and on
shrinks it to one instruction while others wait. With five instructions, the
window is flushed and filled again after every kind of flush. `Codes` has one
instruction for each path: with one destination, with two, with none, with a
floating-point destination and a value that may be recalled, with each kind of
branch, and with each window change.

Why `OutCap = 8` in the passing runs of the composition: a transaction of
three nodes never fills a port of eight, and items 2 and 3 of section 4 show
that a full output port breaks the protocol. The directory's own run has ports of
one message, and the proofs hold for any size but for `NoErrors`: that needs
room for more than one message per node and line (`EnoughRoom`), which a port of
eight has for the two or three messages of these runs.

The network's packets are longer than a buffer, so that a blocked one holds
several links, and some of them turn, so that a ring could close; ports of two
packets fill. The cases of `interconnect` send more requests than all queues
on the way hold together, so that every queue is full at some time. In
`first_level` there is one MSHR, one entry in the write buffer, one write to
coalesce with it and one place in each port, so that every stall happens with
three accesses. The programs of `memory_unit` are those for which a rule of
the code exists: store to load forwarding of equal and of different sizes,
acquire, release and full barriers, and a branch between a store and a load.
Eight bits are
enough for `semantics` because the functions treat sign, carry,
overflow and the value zero as cases, and the bits between alike; a byte of two
bits still tells the four bytes of a word apart. With four windows a
recursion of depth four spills and fills.

The calendar queue of `events` has two bins at first and grows when the fifth
activity comes; it starts with eight in other behaviours and shrinks when it
is read. Delays of 0 and 3 on times 0 to 4 put several elements of one time
and of one bin, of the same and of the next round, into one list.

Symmetry is over nodes and over activities, in runs of safety properties only. Deadlock is checked
in `rename`, where only a processor that is empty when the bound is reached may
stop (`Drained`); it is off where the workload is bounded and where the
environment of a module is, and there the liveness properties say that what was
begun ends.

### Fairness

Every event of the simulator is scheduled at a finite simulated time and events
of equal time run in turn, so a module that has work gets to it.

`Coherence`:

* weak fairness of the directory's steps;
* strong fairness of four kinds of work: requests and their answers under way
  (`RequestWork`), a cache's handling of REPLYs (`ReplyWork`), write-backs
  (`WriteBackWork`) and the rest of the coherence traffic (`CoherenceWork`).
  Strong, because the work of one is disabled again and again while the
  directory's event runs, or while a REPLY bounces. They are kept apart because
  each can go on for ever without another: a COHE that is refused with
  `NACK_PEND` goes round and round until the write-back it races arrives, and a
  bounced REPLY until the upgrades that lock its set end.

Nothing makes a processor access memory or a cache replace a line, so a
request must not depend on that; and nothing keeps them from interfering. The
misses of `protocol` and `three_nodes` are bounded, because an unbounded sequence of other
misses can starve a request that is refused for want of a buffer: the code
promises no fairness between requesters, and the property is that nothing is
lost, parked or sent in circles.

The other modules: `Network` goes on as long as an event is scheduled
(`FairSpec`; events that wait on a semaphore are not); `Interconnect` has weak
fairness of each event that is awake, and of the caches and directories that
take what reaches them; `FirstLevel` of its handlers; `TreeBarrier` of the
processors; `MemUnit` weak fairness of a cycle and strong fairness of the
functional units and of the caches, which a cycle in progress disables. No
fairness is assumed of a processor that issues an access, or of an
invalidation from outside.

## 4. Where code and comments part

1. **`spec_store`**, `NoSpeculativeStore`. `memunit.cc:1305` leaves the check
   whether a store may be issued to `graduate.cc:112-119`, which marks a store
   ready when everything older has graduated or is a completed memory
   operation. A load that a speculative load buffer keeps is completed and can
   still be rolled back. In `ST x; membar #StoreLoad|#LoadLoad; LD y; ST y`
   the barrier does not order the two stores; the second is marked ready
   and issued, the load is rolled back by a write from outside, and
   `FlushMems` takes the instance of a store away that is at the caches. It is
   fetched and issued once more. With a barrier that orders stores, or without
   speculative loads, it cannot happen: `memory_unit` has both.

The rest of this list was met while modelling and has no run. Items 2 to 4
need a full output port of the directory, which the default size of 64 makes
rare; item 5 a full L2 data pipe. The passing runs exclude them by the
constants named.

2. `dir.c:519-521` says that a request whose reply finds the port full is "just
   retried until a space comes up". `Dir_Cohe` has then rewritten `req_type`
   to that of the reply and changed the line; the retry calls it again, and it
   ends in "Unknown request type" (`OutCap`).
3. `dir.c:841-843` promises the same for a COHE. Resuming sets only the local
   `req`; `dirptr->req` is null, and the delay before the next COHE comes back
   to it (`dir.c:833`). Needs two or more COHEs to be left (`OutCap`).
4. The directory sleeps because "we need more out queue space" (`dir.c:242`), but
   looks at the space only once, at the start of an activation; it can sleep
   over a message whose port has room, and then only another message wakes it.
5. While a REPLY has set its line and its MSHR is kept, because the victim's
   write-back did not get into the data pipe, an invalidation that comes from
   the L1 is merged into that MSHR, after the last point at which it is looked
   at (`l2cache.c:1311`). It is acknowledged and not done; `SingleWriter` and
   `NoFatal` fail with it (`DataPipeFull`). The books of each cache stay consistent
   even so, and no request is lost: `CachesConsistent` and `NoRequestLost` hold with
   a full data pipe. The theorems of `OwnerProofs` assume `~DataPipeFull`.
6. `directory.h:214-215` calls `wait_cntsz` the "number of COHEs in flight that
   have not yet returned". It counts transactions, and those that end with the
   class 2 RAR (`dir.c:1069-1142`) or with the owner's write-back
   (`dir.c:1156-1193`, `1232-1266`) are never taken off. It is printed and
   tested for being negative; `NoUndercount` proves that it never is.
7. `pipestages.cc:228` generates "a single "BAD PC" exception instruction" for a
   pc out of range. `stall_the_rest` is set for it (244), but
   `check_dependencies` clears it again when the instruction is renamed
   (1022-1029), so that decoding goes on, and `badpc` is not reset within the
   cycle.
8. `memprocess.cc:315-321`: `minspec` starts at -1 and the younger tag is taken
   only if it is below it, so that the case of `SLtag` alone, which the
   comments at 291-292 and 320 describe, never applies: a speculative load
   younger than a store-load barrier is not found when no load-load barrier is
   outstanding. `MinSpec` is written as the code is.
9. `architecture.c` sizes port 0 of the bus with `portszbusl2rep` and port 1
   with `portszbusl2cohe`, while port 0 carries the L2's requests and port 1 what
   it answers.
10. `mshr.c:605-609` returns `MSHR_COAL` to a recall that tolerates no NACK
    without merging it into a READ MSHR, where 521-525 merges. If an
    invalidating recall meets an L1 MSHR this way, the L1 installs a line that the L2 has given
    up. The run `first_level` therefore has only recalls that leave a copy
    (`Recalls`).
11. Decoder or function does not do what the names say, and `Predecode` and
    `Funcs` do as the code does: `UDIVcc`/`SDIVcc` are told apart by comparing the
    whole instruction word with an op3 (`predecode_instr.cc:296-303`, against the
    comment at 271), so that they change neither Y nor the condition codes;
    `POPC` of a register reads `rs1`, which is `%g0`; `FMOVcc` is decoded with
    the condition in `aux1` and reads `aux2`; `WRY` ignores its second
    operand; `samem_op2` takes `ASI_RW_WSI` for `iRWWT`; the memory tables have
    no entry for `iRWSD`; `xcc` is never set; shifts by the width of a word
    or more are not masked.
12. The carry of `ADDcc` and `ADDCcc` is missed when the sum is zero, that of
    `ADDCcc` and `SUBCcc` is wrong when operand and carry wrap; `UMUL` and `SMUL`
    put into Y only the extension of a 32-bit product (against the comments
    `funcs.cc:583`, `599`); serialized multiplications write register 0 when `rd`
    is `%g0`. `PREFETCHA` is given the length of a doubleword and can raise a
    segmentation fault, `FLUSH` the length 0; the test for word alignment of
    `LDDF` and `STDF` has `!=` bind tighter than meant (`except.cc`); a byte
    or halfword that a store forwards is not truncated; `LDXFSR` loads a word,
    and `STXFSR` shifts `fcc1` to a place of its own.
13. The stack that grows under a delay slot loses the `npc` (`except.cc:246-247`):
    execution resumes at the slot and continues after it.

The properties of `semantics` are about programs that stay clear of items 11 to 13.

## 5. The proofs

`DirectoryProofs` proves, for every finite set of nodes and lines, every
`BufMax`, `InCap` and `OutCap`, either protocol, and an environment that sends
any message at any time:

| Theorem | |
|---|---|
| `Invariance` | `DirSpec => []IInv` |
| `TypeCorrect` | all variables keep their types |
| `Bookkeeping` | `pend` exactly while there is `extra`, and what it waits for is counted consistently |
| `SharersKnown` | state and sharer vector agree |
| `NobodyStranded` | a parked request has a transaction that will release it |
| `BuffersBounded` | no more buffers in use than there are |
| `ServedIsThere` | what is served after the access delay is still where it was picked |
| `NoUndercount` | `wait_cntsz` is at least the number of pending transactions |
| `BuffersConserved` | the directory buffers in use are those of the requests that are parked or released, of the transactions in flight and of the answers not sent |
| `BooksBalance` | all that the run `directory` checks under `Accounts` |

The assumptions are those named in `Messages` and `Directory`
(`NodesAssumption`, `NullAssumption`, `ProtocolAssumption`,
`ExtraAssumption`, `SizeAssumption`): finite sets, a null that is no node, and
sizes that are natural numbers above zero. TLC evaluates them in every run.

The argument of `DirectoryProofs`. None of the properties is inductive alone. `IInv` is the
conjunction of five parts:

* `LineInv`: types of the per-line variables, `PendIffExtra`, `VectorOK`,
  `CounterOK`;
* `QueueInv`: types of the queues, `NoStranded`;
* `CountInv`: types of the counters, `BufBound`;
* `CtlInv`: types of the event's own state, `PickedThere`;
* `PortTypeOK`: types of the ports.

They need each other. That a COHE is sent to an owner that exists rests on
`VectorOK`; that the counter of a transaction stays a natural number rests on
`CounterOK`; that there is a message to work on after the delay rests on
`PickedThere`; that a request parked with `DirReqPend` has a transaction rests
on `PendIffExtra`. The proof goes part by part, with a lemma for each case of
the directory that a part depends on. `CohesCounted` is inductive relative to
`IInv`; its proof follows the set of lines with a transaction (`Busy`), which
gains or loses at most one line in a step. The other theorems follow from
`Invariance`.

The second part of the module is that no directory buffer leaks. The buffers in use are those
of the requests parked behind a transaction (`Parked`), of those released and
waiting in `ReadyReqs`, of the transactions in flight and of the answers in
`OutboundReqs` (`Replies`); `BufInv` says that they add up to `buftotsz`, and
that `Parked` is finite. It is inductive on top of
`IInv`. Counting lemmas say what appending, removing and replacing do to
the number of replies and of parked requests; then each
case of `DirSim` is shown to move a buffer from one kind to another, to take
one or to give one back.

`L2Proofs`, for any nodes, lines and sizes, for messages of any kind in any order
(`L2Spec`):

| Theorem | |
|---|---|
| `CachesConsistent` | `L2Spec => []L2Consistent`: types, `WrbExclusive`, `CohePendOK`, `MSHROK` |

`L2Consistent` is inductive as it stands, though none of its parts is: a REPLY
installs no line that is still being written back because there is an MSHR
(`MSHROK`) and a line has not both (`WrbExclusive`); the second pass of a COHE
finds the `cohe_pend` of the first because of `CohePendOK`. The proof takes the invariant apart
by line (`LineBooks`): a step changes one line of one cache, `Elsewhere` and
`NothingChanged` settle the others, and each action has a lemma for the line it changes.
The assumption besides those of `Messages` is `MSHRAssumption`: the null pointer is
no MSHR.

`CoherenceProofs` puts the two together, for any nodes, lines and sizes, either
protocol, and networks that delay messages as they like (`Spec` of `Coherence`):

| Theorem | |
|---|---|
| `ShapesKept` | `Spec => []ProtocolInv`: `IInv` of the directory, `L2Consistent` of the caches, and `Shapes` of all that is between them |
| `DirectoryInProtocol` | `Spec => DirSpec`: the protocol's directory is the one of `DirectoryProofs` |
| `CachesInProtocol` | `Spec => L2Spec`: its caches are those of `L2Proofs` |
| `PartsInProtocol` | `Spec => []L2Consistent`, and the same of `Accounts`, `VectorOK` and `NoStranded` |

`DirSpec` and `L2Spec` let any message come that is in `RequestMsg`,
`CoheRepMsg` and `CoheInMsg`. These sets are not all of `REQ`, because some messages
would end the simulation or leave a field undefined, so that something has to be
shown of whoever sends them. `Shapes` says it, queue by queue. A message is rewritten in
place many times: a request becomes a REPLY, a RAR or the COHE to an owner, the
owner makes a REPLY and an acknowledgment of it or turns it round with a
NACK, the directory makes a RAR of that or sends it again, the requester turns a RAR
or a bounced REPLY back into a request. What is preserved on all these
ways is who is named: a COHE has a requester (`forward_to`) exactly if it is the processor's
own request (`isreq`) and exactly if it may meet an MSHR (`NACK_NOK`), and an answer
that is not a refusal has given the request back. The lemmas on messages
(`AnsweredRequest` to `InvalidationShape`) state that of each rewriting; `ShapesReq`,
`ShapesSend`, `ShapesCoheRep`, `ShapesWrb` and `ShapesCache` go through the
actions with them; `StepOfBoth` then says that a step of the protocol is a step of both
parts. The proof showed one message that `RequestMsg` had left out: a
request whose REPLY finds the port full, or is bounced, is a REQUEST with the type of a
reply when it is looked at again, and it need not be `preprocessed`.

`RequestProofs` follows the messages of the protocol, for the same `Spec`:

| Theorem | |
|---|---|
| `RequestsConserved` | `Spec => []RequestInv`, the inductive invariant |
| `NoRequestLost` | `Spec => []OneRequestInFlight`: an MSHR that waits has exactly one request somewhere, and no other node and line has any |
| `ErrorsNeverReached` | `Spec => []ErrorsExcluded`: of the errors of the source only those of `ErrorsLeft` are left to the directory, and no cache gets a reply without MSHR |

`OneRequestInFlight` counts over thirteen places, and a message changes its colour
on the way: the request of a node may be a COHE to another one, and its NACK, while the
directory holds a copy of it. That a NACK can be turned back into the request
without doubling it needs the transaction to be known exactly, so `RequestInv`
counts the COHEs too. For each cache and line there are three sets of messages:
the requests of the node (`Tok`), the directory's own COHEs to it with their answers (`Own`)
and the requests forwarded to it with theirs (`Fwd`). `Flow` counts a set on the way of the
COHEs, `DirHeld` and `CacheHeld` on the way of the requests. `RequestInv` says

* of a line without a transaction: no COHE of it is anywhere (`Quiet`);
* of one with a transaction (`InTransit`): each cache has at most one COHE or answer, none
  before its COHE is sent; `counter` is the number of the caches that are still to be sent theirs or
  have theirs under way (`Asked`), with one more for an awaited write-back; a transfer has one
  forwarded request and no COHE of the directory, any other transaction none that is forwarded;
* of each MSHR: one request if it waits, else none (`OneEach`);
* that a request is not served while the COHEs of another are left to be sent (`OneByOne`).

Each action moves at most one message out of one place and into another, so the proof first
says what that does to the counts (`CntAppend`, `CellsOne`, `HasAdd`, ...), then of
each rewriting which of the three sets the message leaves and enters
(`SameTok`, `ColourOf`, `Moves`, `Turns`), and then adds up, action by action: `StartKeeps`
to `WrbKeeps` for the directory (`DirectoryKeeps`), `RequestKeeps` to `ReplyKeeps` for the
networks, `MissKeeps` to `CoheHandled` for the caches.
With `RequestInv` the answer at the head of the port is always one that its
transaction waits for (`AnswerOf`, `AnswerExpected`), so that no error of `DIRCOHEREP` can be reached;
those on the sharer vector and on the counter are excluded by `IInv`, and the one on a REPLY by
`ReplyIsWaitedFor`. `ErrorsLeft` has the others: two that a full output port does lead to (section 4),
and two on write-backs, for which one has to know that only the owner sends one.

`OwnerLemmas` and `OwnerProofs` say who that is, for the same `Spec`, any nodes, lines and sizes,
and either protocol, if a dirty victim always finds room in the L2's data pipe (`~DataPipeFull`;
item 5 of section 4 shows that `SingleWriter` is false without this):

| Theorem | |
|---|---|
| `OwnersKnown` | `Spec => []OwnerInv`, the inductive invariant |
| `OneWriter` | `Spec => []SingleWriter`: a line that one cache may write is in no other |
| `DirectoryBelieves` | `Spec => []DirectoryKnows`: outside a transaction the directory knows all copies, and a write-back that it waits for is on its way |
| `ErrorsNeedFullPorts` | `Spec => []OnlyNoRoom`: no error of a cache, and of the directory's only "Unknown request type" and the null pointer, items 2 and 3 of section 4 |
| `NoErrors` | `Spec => []NoFatal` if `EnoughRoom`: not even those when an output port has room for more than one message per node and line |

`SingleWriter` speaks of two caches and is kept up by a directory that sees neither of them. Its
`dirst` and `vector` are wrong on purpose during a transaction: they are written when it starts,
and say what will be true at its end, unless a write-back says otherwise in between. So the
invariant says of each line what the messages under way permit.

* A cache *owns* a line (`Owns`) when it may write it, has it dirty or clean in the write-back
  buffer, when a REPLY that permits to write is on its way to it, or its write-back is on the way to
  the directory; it is one of these at a time (`OneKind`), and there is one write-back (`Backs`).
* It *shares* a line (`Shares`) when it may read it or a REPLY to read is on its way, unless an
  invalidation has been merged into the MSHR.
* `OwnerIs` is the cache that the directory must take for the owner: the one in `vector` without a
  transaction, while it waits for a write-back, and once a transfer is done (`Known`); during a forward the one
  it is sent to, until its write-back has come (`WasHere`); none while sharers are invalidated.
* `May` has the nodes that the directory knows to share it: those of `vector`, or those it has still
  to invalidate, or to which an invalidation is on its way, and the one that will own the line.

`Agree` says of a line that `OwnerIs` and `Owns` are the same, that who shares may, and three things that
keep it up: what the directory has written down for the kind of transaction it has (`Believes`), that a
COHE is of the transaction in flight (`OfTransaction`), and that a request, in whichever of its forms, fits
the MSHR and the state of the line it comes from (`Fits`). A cache that owns a line owns it alone because
there is one `OwnerIs`; who shares it otherwise would be in `May`, which is empty then.

Three things in it are not what one would write at first: an UPGRADE may be under way from a cache whose
copy has been invalidated, and the directory does not count that one among the sharers then (`Fits`); a
write-back may overtake the acknowledgment of the transfer, so that `WasHere` may name the
new owner (`BelievesForward`); and a REPLY to read may be on its way to a cache that will not keep it. TLC checked
`OwnerInv` before it was proved. The proof has two halves. What a step does to
one line is in `GrantAgrees` to `ForwardAgrees` for requests, `SendForwardAgrees` to `AckForwardAgrees`
for COHEs and answers, `BackRevives` to `BackFrees` for write-backs, and `MissAgrees` to `TransferAgrees`
for a cache; that all else is left alone is in
`NothingPosted`, `PassedOn`, `NoneTouched`, `Moved`. Whatever a step does with messages it
takes a few and puts a few (`Posts`), and `LineTurns` says what that makes of each line. That the old form of a message
is gone when the new one is there follows from `RequestInv`: there is one of each at most (`Ones`).

For `NoErrors` two things are added. A request that is on its way to be served has a
type that `Dir_Cohe` has a case for (`RawAsked`), which holds as long as it is not left in the port
with the type of its REPLY; and the COHEs of a transaction leave one after the other without other
work in between (`SentAtOnce`). Both need the ports to have room, and `PortsHaveRoom` shows by counting
that they have: two messages of one node and line are never in the same port. `EnoughRoom` counts
all `Lines`; the source bounds the number of lines that are asked for at one time by its MSHRs, which
`L2Cache` does not.

`InterconnectProofs`, for any nodes, any port sizes
above zero and any traffic that respects `CasesAssumption` (messages have a type and
an addressee, and only caches send COHE_REPLYs and write-backs, as
`routing_bus` takes for granted):

| Theorem | |
|---|---|
| `NobodySleepsOverWork` | `Spec => []Awake`: an event sleeps only while what it sleeps for is not there, and the places of each input port are free, taken or promised |
| `Invariant` | `Spec => []IInv`, the inductive invariant |
| `DeliveredInOrder` | `Spec => []Delivery`: no fatal error of the routing, no message at a module it is not for, requests and COHEs in order from module to module |

`Awake` is inductive with `TypeOK`, which says of every place which messages
can be in it: `Fresh` where a module sends, `Leaving` and `NetFrom` on the way out,
`NetTo` on the way in, `There` at the end. Without that, `routing_bus` may send a
message to a port it should not be in, and what is held for a full port waits for a
handshake that does not come. For the order, the eleven places that a
request passes from one module to another are laid out as the stages of a
`Route`; `Ordered` says that later stages, and places nearer the head, hold
earlier messages. `MoveOrder` is about eleven queues and not about the system: a message
that moves forward over stages without a message of its route keeps the order.
Each action is then shown to be such a move (`Moves`) for the routes it is
part of, and no move for the others.

`DriverProofs`, for any activities, times, bin widths and numbers of bins:

| Theorem | |
|---|---|
| `ListIsSound` | `Spec => []EvInv`, the inductive invariant of the event list |
| `ListRefines` | `Spec => ListSpec`: the linear list and the calendar queue implement `EventList` |
| `TimeIsRight` | `DriverSpec => []NothingOverdue` |
| `DriverRefines` | `DriverSpec => ListSpec` |

`ListSpec` alone says nothing that is inductive: which element the calendar queue
returns depends on `lastbin`, `bintop` and `lastprio`, and on what a resize that is
under way has moved. `EvInv` says of the bins that each is in order and holds only
elements of its times (`Cal`), and of the three variables that they belong to the
first of all elements (`HeadAt`). `bintop` is not always what one expects: an element
put in front gets `(2 * i + 3) * binwidth` by the number of its bin, which is rounds too low
when its time is beyond the first round. It may be too low but never half a
round too high (`Top`), and that is enough for `FindHead`: an element that it
finds within its round is in the bin's own span of time (`WithinRound`, `HitSpan`), so that
no bin that was passed has an earlier one (`HitHead`); and if it finds none, it compares
all heads (`DirectHead`). During a resize, samples are before all that is left
(`SamplesOK`), so that they can go back to the front with resizing off (`PutFront`);
of elements of one time those not copied yet are younger than those copied (`OldOK`), so that
each goes behind its equals (`PutBehind`); the two arrays are at different ends of the
space (`OtherEnd`); and the new one has room for all (`SizeOK`), so that copying never
starts another resize. `TimeIsRight` needs
from the list only that `EventListHeadval` is the least time (`HeadvalFacts`). The
assumptions are `EvlstAssumption` and `DriverAssumption`: times, delays and durations are
natural numbers, widths and the space are not zero, and the first array has at least two bins
and fits into two thirds of the space.

Writing these proofs showed that several `CASE`s of `FirstLevel`, `L2Cache`, `Funcs`,
`InstrSet` and `Predecode` had guards that overlap, where TLA+ leaves open which
branch is taken and TLC takes the first. The code is a chain of `if`s, and so are
the definitions now.

Only model-checked: liveness and what speaks of `ENABLED`, which the prover does
not do; what `Funcs`, `InstrSet` and `Predecode` compute, on the programs of `MCInstrSet`; the
refinements of `Sharing`, `Pipe` and `Barrier`; and the invariants of
`FirstLevel`, `Rename`, `MemUnit`, `Network` and `TreeBarrier`. All safety invariants
that the runs of `Directory`, `L2Cache`, `Coherence`, `Interconnect` and `Driver` check are proved.

## 6. What is not modelled

The modules stand for three tenths of the source. Half of
the lines (some 34,000 of 71,000) are `apps/utils/lib/librsim`, a C library
that the simulated programs are linked with, and the applications: vendored
code and data of the simulation, not of the simulator. Of the simulator itself:

* The L2 under a write-back L1 (`L1WB`), its limits of write-back entries, its
  data pipe but for its being full and for a write that waits in it; prefetches
  in both caches; the full port for the L1's COHE_REPLYs.
* Remote writes (`RWRITE`, `dirdone`): nothing in the repository sends them.
* Several home directories in one protocol run: lines of different homes share
  no state in the directory, and a cache treats them alike. `Interconnect` has
  a directory at each node.
* The virtual cut-through variant of the network (`network_wft`) and the
  multiplexer for message passing, which nothing uses.
* Of the event kernel: the object pools, which are memory management; events that
  are deleted after they occurred (all of the simulator's are kept), and the
  driver's interactive mode. The semaphores are in `Network`.
* The address map: page placement, data that one program reads before it runs
  in parallel.
* Of the processor: the number of functional units (an instruction whose sources
  are ready may complete at any time), `STALL_ON_FULL`, static scheduling,
  `DELAY` instructions, perfect memory, and, in `Rename`, hard exceptions of memory
  instructions and exceptions that end the simulated program. In `MemUnit` the data of
  a store is ready with its address.
* Of the instruction set: floating-point arithmetic (the host's own), `fork`,
  and traps to the file system of the host.
* SC and PC builds of the memory unit (`STORE_ORDERING`), and its prefetching.
* The spin locks of `libsync.s` (a few lines of assembler), and configuration,
  statistics and reading of executables: input and output, with no
  interaction to check.

## 7. Plan

What is left, in this order:

1. On top of `OwnerProofs`: that the protocol implements `Sharing`, step by step. `Agree`
   has what the safety part of it needs.
2. `RenameProofs`: conservation of registers on every path of graduation,
   misprediction and exception, for any number of registers and shadow
   mappers; then that renaming never fails half-way, by counting: as many
   registers as entries of the active list.
3. `TreeBarrierProofs`: that the tree barrier is a `Barrier` for any number of
   processors that is a power of two.
4. `Rename` and `InstrSet` joined: a pipeline that shows the program the
   machine of `InstrSet`.
5. `MemUnit` joined with `Rename`: which flush meets which memory operation;
   the SC and PC builds.
6. `FirstLevel` with `Interconnect`: a whole node.
7. The address map, the replacement in a set of lines, and the object pools.

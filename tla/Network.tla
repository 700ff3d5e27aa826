------------------------------ MODULE Network ------------------------------
(***************************************************************************)
(* An interconnection network (net.c) in the shape that mesh.c builds: a   *)
(* mesh without wraparound, wormhole switching, dimension-order routing.   *)
(* It is the request network; the reply network has one more multiplexer   *)
(* per node, for message passing, which nothing uses.                      *)
(*                                                                         *)
(* A packet is a head flit, body flits and a tail flit.  One event moves   *)
(* its head (YS__HeadEvent), another its tail and the flits between        *)
(* (YS__TailEvent); the states below are the states of these events.       *)
(* Delays are not modelled: an event that is scheduled may run at any      *)
(* time.  A head that finds the way free moves on in one step: no other    *)
(* event can take the free place during its delay, for it holds the        *)
(* multiplexer in front of it.                                             *)
(***************************************************************************)
EXTENDS Integers, Sequences, FiniteSets, FiniteSetsExt

CONSTANTS
  MeshSize,   \* nodes in each dimension, a sequence (mesh_size)
  BufSize,    \* flits in a buffer
  BufThresh,  \* free flits that let a head in (bufthresh)
  PortSize,   \* packets in a port
  MaxPackets, \* bound: packets that a node sends
  Cases,      \* what the nodes send: [Nodes -> Seq([to : Nodes, size : Nat])]
  None

ASSUME SizesAssumption ==
  /\ MeshSize \in Seq(Nat \ {0}) /\ MeshSize # <<>>
  /\ BufSize \in Nat \ {0} /\ BufThresh \in 1..BufSize /\ PortSize \in Nat \ {0}

VARIABLES
  traffic,    \* one of Cases
  sent,       \* [Nodes -> Nat]: packets given to PacketSend
  net         \* buffers, multiplexers, ports, packets; the events that send and receive

vars == <<traffic, sent, net>>

-----------------------------------------------------------------------------
(* The mesh.  Component 2d + dir of a node leads along dimension d, down   *)
(* (dir 0) or up (dir 1); component 2D is the processor's.  <<n, c>> names *)
(* a multiplexer, and a buffer: the one that the neighbour in direction c  *)
(* sends into.                                                             *)

D == Len(MeshSize)
stride[d \in 0..D] == IF d = 0 THEN 1 ELSE stride[d - 1] * MeshSize[d]
Nodes == 0 .. stride[D] - 1
Coord(n, d) == (n \div stride[d]) % MeshSize[d + 1]

Components == {m \in Nodes \X (0 .. 2 * D) :
                 \/ m[2] = 2 * D
                 \/ LET d == m[2] \div 2 IN
                    IF m[2] % 2 = 1 THEN Coord(m[1], d) < MeshSize[d + 1] - 1
                                    ELSE Coord(m[1], d) > 0}
Muxes == Components
Buffers == Components
Modules == Components \cup (Nodes \X {2 * D + 1, 2 * D + 2})
ProcBuf(n) == <<n, 2 * D>>
IPort(n) == <<n, 2 * D + 1>>
OPort(n) == <<n, 2 * D + 2>>
IsBuffer(m) == m[2] <= 2 * D
IsIPort(m) == m[2] = 2 * D + 1

(* The module behind a multiplexer: the buffer of the neighbour that looks *)
(* this way, or the output port.                                           *)
Behind(m) ==
  LET d == m[2] \div 2 IN
  IF m[2] = 2 * D THEN OPort(m[1])
  ELSE IF m[2] % 2 = 1 THEN <<m[1] + stride[d], 2 * d>>
  ELSE <<m[1] - stride[d], 2 * d + 1>>

\* Mutant: every second node takes the lowest dimension first.
MutMeshRoute(n, to) ==
  IF n = to THEN <<n, 2 * D>>
  ELSE LET apart == {d \in 0 .. D - 1 : Coord(n, d) # Coord(to, d)}
           dim == IF (Coord(n, 0) + Coord(n, D - 1)) % 2 = 1 THEN Min(apart) ELSE Max(apart)
       IN  <<n, 2 * dim + (IF Coord(n, dim) < Coord(to, dim) THEN 1 ELSE 0)>>

(* The multiplexer through which a packet leaves node n: the highest       *)
(* dimension in which it is not there yet comes first.                     *)
MeshRoute(n, to) ==
  IF n = to THEN <<n, 2 * D>>
  ELSE LET dim == Max({d \in 0 .. D - 1 : Coord(n, d) # Coord(to, d)}) IN
       <<n, 2 * dim + (IF Coord(n, dim) < Coord(to, dim) THEN 1 ELSE 0)>>

-----------------------------------------------------------------------------
Packets == UNION {{<<n, i>> : i \in DOMAIN traffic[n]} : n \in Nodes}
To(p) == traffic[p[1]][p[2]].to
Size(p) == traffic[p[1]][p[2]].size

Semaphore(v) == [val |-> v, queue |-> <<>>]

Empty ==
  [buf   |-> [b \in Buffers |->
               [free |-> BufSize, list |-> <<>>, waiting |-> None, mux |-> None, dest |-> None]],
   arb   |-> [m \in Muxes |-> Semaphore(1)],
   iport |-> [n \in Nodes |-> [qfree |-> PortSize, portrdy |-> PortSize, sender |-> "idle",
                               netrdy |-> Semaphore(1)]],
   oport |-> [n \in Nodes |-> [queue |-> <<>>, pktavail |-> 0, receiver |-> "waiting",
                               freespace |-> Semaphore(PortSize), mux |-> None]],
   pkt   |-> [p \in Packets |-> [head |-> "none", headbuf |-> IPort(p[1]), mux |-> None,
                                 tail |-> "none", tailbuf |-> IPort(p[1]), offset |-> -1]]]

Init ==
  /\ traffic \in Cases
  /\ sent = [n \in Nodes |-> 0]
  /\ net = Empty

-----------------------------------------------------------------------------
(* Every operator below takes the network and gives the network.           *)

SetHead(s, p, h) == [s EXCEPT !.pkt[p].head = h]
SetTail(s, p, t) == [s EXCEPT !.pkt[p].tail = t]

WakeTail(s, p) == IF s.pkt[p].tail = "asleep" THEN SetTail(s, p, "Tail_Start") ELSE s

(* YS__BufferNewSpace: the head that waits for the buffer may enter; if a  *)
(* head is the last flit in it, that head's tail may have room to move.    *)
NewSpace(s, b) ==
  LET B == s.buf[b]
      s1 == IF B.waiting # None /\ B.free >= BufThresh
            THEN [s EXCEPT !.buf[b].waiting = None, !.pkt[B.waiting].head = "Head_Move"]
            ELSE s
      last == B.list[Len(B.list)]
  IN  IF B.list # <<>> /\ last[2] = "head" THEN WakeTail(s1, last[1]) ELSE s1

HeadGet(s, b) ==
  LET p == s.buf[b].list[1][1]
      s1 == [s EXCEPT !.buf[b].free = @ + 1, !.buf[b].list = Tail(@)]
  IN  NewSpace(IF s1.buf[b].list = <<>> THEN s1 ELSE [s1 EXCEPT !.pkt[p].offset = Size(p) - 2], b)

(* A head at the front looks for the next module; one that is not sleeps   *)
(* until the tail in front of it is gone.                                  *)
HeadPut(s, b, p) ==
  [s EXCEPT !.buf[b].free = @ - 1,
            !.buf[b].list = Append(@, <<p, "head">>),
            !.pkt[p].headbuf = b,
            !.pkt[p].head = IF s.buf[b].list = <<>> THEN "Next_Module" ELSE "behind"]

TailGet(s, b) ==
  LET s1 == [s EXCEPT !.buf[b].free = @ + 1, !.buf[b].list = Tail(@), !.buf[b].dest = None]
  IN  NewSpace(IF s1.buf[b].list = <<>> THEN s1
               ELSE SetHead(s1, s1.buf[b].list[1][1], "Next_Module"), b)

TailPut(s, b, p) ==
  LET s1 == [s EXCEPT !.buf[b].free = @ - 1, !.buf[b].list = Append(@, <<p, "tail">>),
                      !.pkt[p].tailbuf = b]
  IN  [s1 EXCEPT !.pkt[p].offset =
         IF s.buf[b].list = <<>> THEN BufSize - s1.buf[b].free - 1 ELSE -1]

\* Mutant: the multiplexer is freed, and its queue forgotten.
MutSignalMux(s, m) ==
  LET mux == IF IsBuffer(m) THEN s.buf[m].mux ELSE s.oport[m[1]].mux
      s1  == IF IsBuffer(m) THEN [s EXCEPT !.buf[m].mux = None]
                            ELSE [s EXCEPT !.oport[m[1]].mux = None]
  IN  IF mux = None THEN s1 ELSE [s1 EXCEPT !.arb[mux].val = @ + 1]

(* YS__SignalMux: the multiplexer before this module is given to the head  *)
(* that has waited longest for it.                                         *)
SignalMux(s, m) ==
  LET mux == IF IsBuffer(m) THEN s.buf[m].mux ELSE s.oport[m[1]].mux
      s1  == IF IsBuffer(m) THEN [s EXCEPT !.buf[m].mux = None]
                            ELSE [s EXCEPT !.oport[m[1]].mux = None]
  IN  IF mux = None THEN s1
      ELSE IF s.arb[mux].queue = <<>> THEN [s1 EXCEPT !.arb[mux].val = @ + 1]
      ELSE [SetHead(s1, Head(s.arb[mux].queue), "Wakeup_Mux") EXCEPT !.arb[mux].queue = Tail(@)]

SignalPortrdy(s, n) ==
  IF s.iport[n].sender = "waiting" THEN [s EXCEPT !.iport[n].sender = "ready"]
                                   ELSE [s EXCEPT !.iport[n].portrdy = @ + 1]
SignalNetrdy(s, n) ==
  LET q == s.iport[n].netrdy.queue IN
  IF q = <<>> THEN [s EXCEPT !.iport[n].netrdy.val = @ + 1]
  ELSE [SetHead(s, Head(q), "Next_Module") EXCEPT !.iport[n].netrdy.queue = Tail(@)]

-----------------------------------------------------------------------------
(* The head event.                                                         *)

ModuleAfter(s, p) ==
  LET h == s.pkt[p].headbuf IN IF IsIPort(h) THEN ProcBuf(h[1]) ELSE s.buf[h].dest

(* Case Head_Move.                                                         *)
HeadMove(s, p) ==
  LET from == s.pkt[p].headbuf
      to   == ModuleAfter(s, p)
      s1 == IF IsIPort(from) THEN [s EXCEPT !.pkt[p].offset = Size(p) - 2] ELSE HeadGet(s, from)
      s2 == WakeTail(s1, p)
  IN  IF IsBuffer(to) THEN HeadPut(s2, to, p)
      ELSE [s2 EXCEPT !.pkt[p].headbuf = to, !.pkt[p].head = "done"]

(* The end of case Next_Module, with the next module a buffer or a port.   *)
Enter(s, p, to) ==
  LET from == s.pkt[p].headbuf
      s0 == [s EXCEPT !.pkt[p].mux = None]
      s1 == IF IsIPort(from) THEN s0 ELSE [s0 EXCEPT !.buf[from].dest = to]
      n  == to[1]
  IN  IF IsBuffer(to)
      THEN LET s2 == [s1 EXCEPT !.buf[to].mux = s.pkt[p].mux] IN
           IF s2.buf[to].free >= BufThresh
           THEN HeadMove([s2 EXCEPT !.buf[to].waiting = None], p)
           ELSE [SetHead(s2, p, "WaitingHead") EXCEPT !.buf[to].waiting = p]
      ELSE LET s2 == [s1 EXCEPT !.oport[n].mux = s.pkt[p].mux] IN
           IF s2.oport[n].freespace.val > 0
           THEN HeadMove([s2 EXCEPT !.oport[n].freespace.val = @ - 1], p)
           ELSE [SetHead(s2, p, "freespace") EXCEPT !.oport[n].freespace.queue = Append(@, p)]

PassMux(s, p, m) == Enter([s EXCEPT !.pkt[p].mux = m], p, Behind(m))

(* Case Next_Module and, behind a buffer, the demultiplexer's route and    *)
(* case Wait_Mux.                                                          *)
NextModule(s, p) ==
  LET from == s.pkt[p].headbuf
      m == MeshRoute(from[1], To(p))
  IN  IF IsIPort(from) THEN Enter(s, p, ProcBuf(from[1]))
      ELSE IF s.arb[m].val > 0 THEN PassMux([s EXCEPT !.arb[m].val = @ - 1], p, m)
      ELSE [SetHead(s, p, "Wait_Mux") EXCEPT !.arb[m].queue = Append(@, p)]

HeadStart(s, p) ==
  LET n == p[1] IN
  IF s.iport[n].netrdy.val <= 0
  THEN [SetHead(s, p, "netrdy") EXCEPT !.iport[n].netrdy.queue = Append(@, p)]
  ELSE NextModule([s EXCEPT !.iport[n].netrdy.val = @ - 1], p)

(* PacketSend schedules the heads of a port in the order of its packets,   *)
(* and they start in that order.                                           *)
MayStart(p) == \A q \in Packets : q[1] = p[1] /\ q[2] < p[2] => net.pkt[q].head # "Head_Start"

HeadEvent(p) ==
  /\ p \in Packets
  /\ LET h == net.pkt[p].head
         mux == MeshRoute(net.pkt[p].headbuf[1], To(p)) IN
     \/ h = "Head_Start"  /\ MayStart(p) /\ net' = HeadStart(net, p)
     \/ h = "Next_Module" /\ net' = NextModule(net, p)
     \/ h = "Wakeup_Mux"  /\ net' = PassMux(net, p, mux)
     \/ h = "Head_Move"   /\ net' = HeadMove(net, p)
  /\ UNCHANGED <<traffic, sent>>

-----------------------------------------------------------------------------
(* The tail event.                                                         *)

After(s, m) == IF IsIPort(m) THEN ProcBuf(m[1]) ELSE s.buf[m].dest

(* The modules from the tail's to the head's.                              *)
Worm(s, p) ==
  LET from[m \in Modules] == IF m = s.pkt[p].headbuf THEN <<m>> ELSE <<m>> \o from[After(s, m)]
  IN  from[s.pkt[p].tailbuf]

(* YS__ShiftBubbles: from the tail to the head, a module with a flit of    *)
(* the packet (other than the tail) passes one on if there was room in the *)
(* next.  move is the code's return value.                                 *)
Room(s, m) == ~IsBuffer(m) \/ s.buf[m].free # 0
ShiftBubbles(s, p) ==
  LET w == Worm(s, p)
      k == Len(w)
      moves == [i \in 0..k |->
                 /\ i \in 1..k - 1
                 /\ Room(s, w[i + 1])
                 /\ IF i = 1 THEN s.pkt[p].offset > 0 ELSE s.buf[w[i]].free < BufSize]
      Delta(i) == (IF moves[i] THEN 1 ELSE 0) - (IF moves[i - 1] THEN 1 ELSE 0)
      inner == {i \in 2..k : IsBuffer(w[i])}
      net1 == [s EXCEPT
                !.buf = [b \in Buffers |->
                          IF \E i \in inner : w[i] = b
                          THEN [s.buf[b] EXCEPT !.free = @ + Delta(CHOOSE i \in inner : w[i] = b)]
                          ELSE s.buf[b]],
                !.pkt[p].offset = IF moves[1] THEN @ - 1 ELSE @]
      move == IF k = 1 THEN 2
              ELSE IF Room(s, w[2]) THEN (IF moves[1] THEN -1 ELSE 1)
              ELSE IF \E i \in 2..k : moves[i] THEN 0 ELSE 2
  IN  [net |-> net1, move |-> move]

(* Case Tail_Start.                                                        *)
TailStart(s, p) ==
  LET r == ShiftBubbles(s, p) IN
  CASE r.move = 2  -> SetTail(s, p, IF s.pkt[p].head # "done" THEN "asleep" ELSE "fatal")
    [] r.move = 0  -> SetTail(r.net, p, "Tail_Start")
    [] r.move = -1 -> SetTail(r.net, p, "Tail_Shift")
    [] r.move = 1  -> SetTail(r.net, p, "Tail_Move")

\* Mutant: the place of the shifted flit is not freed.
MutTailShift(s, p) == SetTail(s, p, "Tail_Start")

(* Case Tail_Shift: the flit in front of the tail left its buffer.         *)
TailShift(s, p) ==
  LET b == s.pkt[p].tailbuf IN
  SetTail(IF IsBuffer(b) THEN NewSpace([s EXCEPT !.buf[b].free = @ + 1], b) ELSE s,
          p, "Tail_Start")

\* Mutant: the port gives the youngest packet first.
MutTailDone(s, p, n) ==
  LET s1 == [SetTail(s, p, "done") EXCEPT !.oport[n].queue = <<p>> \o @] IN
  IF s1.oport[n].receiver = "waiting"
  THEN [s1 EXCEPT !.oport[n].receiver = "awake"]
  ELSE [s1 EXCEPT !.oport[n].pktavail = @ + 1]

(* Case Tail_Done: the packet can be received.                             *)
TailDone(s, p, n) ==
  LET s1 == [SetTail(s, p, "done") EXCEPT !.oport[n].queue = Append(@, p)]
  IN  IF s1.oport[n].receiver = "waiting"
      THEN [s1 EXCEPT !.oport[n].receiver = "awake"]
      ELSE [s1 EXCEPT !.oport[n].pktavail = @ + 1]

(* Case Tail_Move.  Case Tail_Done follows for every packet after the same *)
(* short delay (delta), which nothing else can use.                        *)
TailMove(s, p) ==
  LET from == s.pkt[p].tailbuf
      to   == After(s, from)
      s1   == IF IsIPort(from) THEN s ELSE TailGet(s, from)
  IN  IF IsBuffer(to)
      THEN LET s2 == SignalMux(TailPut(s1, to, p), to) IN
           IF IsIPort(from)
           THEN [SetTail(s2, p, "Signal_Port") EXCEPT !.iport[from[1]].qfree = @ + 1]
           ELSE SetTail(s2, p, "Tail_Start")
      ELSE TailDone([SignalMux(s1, to) EXCEPT !.pkt[p].tailbuf = to], p, to[1])

(* Case Signal_Port, which goes on to Tail_Start.                          *)
SignalPort(s, p) == TailStart(SignalPortrdy(SignalNetrdy(s, p[1]), p[1]), p)

TailEvent(p) ==
  /\ p \in Packets
  /\ LET t == net.pkt[p].tail IN
     \/ t = "Tail_Start"  /\ net' = TailStart(net, p)
     \/ t = "Tail_Shift"  /\ net' = TailShift(net, p)
     \/ t = "Tail_Move"   /\ net' = TailMove(net, p)
     \/ t = "Signal_Port" /\ net' = SignalPort(net, p)
  /\ UNCHANGED <<traffic, sent>>

-----------------------------------------------------------------------------
(* The ports, with the events of the network interfaces that use them.     *)

(* PacketSend, with its port's semaphore already taken.                    *)
PacketSend(s, n) ==
  LET p == <<n, sent[n] + 1>>
      free == s.iport[n].qfree - 1
      rdy  == s.iport[n].portrdy
  IN  [s EXCEPT !.iport[n].qfree = free,
                !.iport[n].portrdy = IF free < rdy /\ rdy > 0 THEN rdy - 1 ELSE rdy,
                !.iport[n].sender = "idle",
                !.pkt[p].head = "Head_Start",
                !.pkt[p].tail = "asleep"]

(* The sender takes the port's semaphore (EventReschedSema) and sends, or  *)
(* waits until it is given to it.                                          *)
Send(n) ==
  /\ sent[n] < Len(traffic[n])
  /\ \/ /\ net.iport[n].sender = "idle" /\ net.iport[n].portrdy > 0
        /\ net' = PacketSend([net EXCEPT !.iport[n].portrdy = @ - 1], n)
        /\ sent' = [sent EXCEPT ![n] = @ + 1]
     \/ /\ net.iport[n].sender = "idle" /\ net.iport[n].portrdy = 0
        /\ net' = [net EXCEPT !.iport[n].sender = "waiting"]
        /\ UNCHANGED sent
     \/ /\ net.iport[n].sender = "ready"
        /\ net' = PacketSend(net, n)
        /\ sent' = [sent EXCEPT ![n] = @ + 1]
  /\ UNCHANGED traffic

(* PacketReceive: a head that waits for room in the port may move.         *)
PacketReceive(s, n) ==
  LET o == s.oport[n]
      left == Tail(o.queue)
      s1 == [s EXCEPT !.oport[n].queue = left,
                      !.oport[n].pktavail = IF @ > Len(left) THEN @ - 1 ELSE @]
  IN  IF o.freespace.queue = <<>> THEN [s1 EXCEPT !.oport[n].freespace.val = @ + 1]
      ELSE [SetHead(s1, Head(o.freespace.queue), "Head_Move")
              EXCEPT !.oport[n].freespace.queue = Tail(@)]

(* The receiver takes a packet, or waits on the port's semaphore for one.  *)
Receive(n) ==
  /\ net.oport[n].receiver = "awake"
  /\ \/ net.oport[n].queue # <<>> /\ net' = PacketReceive(net, n)
     \/ /\ net.oport[n].queue = <<>> /\ net.oport[n].pktavail > 0
        /\ net' = [net EXCEPT !.oport[n].pktavail = @ - 1]
     \/ /\ net.oport[n].queue = <<>> /\ net.oport[n].pktavail = 0
        /\ net' = [net EXCEPT !.oport[n].receiver = "waiting"]
  /\ UNCHANGED <<traffic, sent>>

AllPackets == Nodes \X (1..MaxPackets)
Next == \/ \E n \in Nodes : Send(n) \/ Receive(n)
        \/ \E p \in AllPackets : HeadEvent(p) \/ TailEvent(p)

Spec == Init /\ [][Next]_vars

(* As long as an event is scheduled, the driver runs one: WF_vars(Next),   *)
(* with the condition that enables Next written out.                       *)
HeadRuns(p) == net.pkt[p].head \in {"Head_Start", "Next_Module", "Wakeup_Mux", "Head_Move"}
TailRuns(p) == net.pkt[p].tail \notin {"none", "asleep", "done", "fatal"}
Scheduled ==
  \/ \E p \in Packets : HeadRuns(p) \/ TailRuns(p)
  \/ \E n \in Nodes : \/ net.oport[n].receiver = "awake"
                      \/ sent[n] < Len(traffic[n]) /\ net.iport[n].sender # "waiting"
FairSpec == Spec /\ ([]<>~Scheduled \/ []<><<Next>>_vars)

-----------------------------------------------------------------------------
(* Properties.                                                             *)

TypeOK ==
  /\ sent \in [Nodes -> 0..MaxPackets]
  /\ \A b \in Buffers : net.buf[b].free \in 0..BufSize /\ Len(net.buf[b].list) <= BufSize
  /\ \A m \in Muxes : net.arb[m] \in [val : 0..1, queue : Seq(Packets)]
  /\ \A n \in Nodes : /\ net.iport[n].qfree \in 0..PortSize
                      /\ net.iport[n].portrdy \in 0..PortSize
                      /\ net.iport[n].netrdy \in [val : 0..1, queue : Seq(Packets)]
                      /\ Len(net.oport[n].queue) <= PortSize
                      /\ net.oport[n].pktavail \in 0..PortSize
                      /\ net.oport[n].freespace \in [val : 0..PortSize, queue : Seq(Packets)]
  /\ \A p \in Packets : net.pkt[p].tail # "fatal"

(* The flits of packet p in buffer b, by its events' own bookkeeping: the  *)
(* tail and what is in front of it (and the place of a flit that is on its *)
(* way out); a whole buffer in between; in the head's, the rest of p.      *)
Flits(p, b, w) ==
  LET k == net.pkt[p]
      At(i) == IF i = 1 THEN k.offset + 1 ELSE BufSize - net.buf[w[i]].free
  IN  IF b = k.headbuf THEN Size(p) - MapThenSumSet(At, 1..Len(w) - 1)
      ELSE IF b = k.tailbuf THEN At(1) + (IF k.tail = "Tail_Shift" THEN 1 ELSE 0)
      ELSE BufSize - net.buf[b].free

(* No flit is lost or counted twice, and no buffer takes a flit it has no  *)
(* room for: the occupied places of each buffer are the flits of the       *)
(* packets that are in it, and a head is where it is with at least itself. *)
FlitsConserved ==
  LET inside == {p \in Packets : net.pkt[p].head # "none" /\ net.pkt[p].tail # "done"}
      worm == [p \in inside |-> Worm(net, p)]
      In(b) == {p \in inside : \E i \in DOMAIN worm[p] : worm[p][i] = b}
  IN  /\ \A b \in Buffers :
           BufSize - net.buf[b].free
             = MapThenSumSet(LAMBDA p : Flits(p, b, worm[p]), In(b))
      /\ \A p \in inside : Flits(p, net.pkt[p].headbuf, worm[p]) >= 1

(* The semaphores of the ports tell the truth to the interfaces: portrdy   *)
(* counts the free places that are not promised to a sender or about to be *)
(* signalled; every place of an output port is free, taken, or promised to *)
(* a head; a receiver never sleeps over a packet.                          *)
PortsAgree ==
  \A n \in Nodes :
    LET i == net.iport[n]
        o == net.oport[n]
        leaving == {p \in Packets : p[1] = n /\ net.pkt[p].tail = "Signal_Port"}
        promised == {p \in Packets : To(p) = n /\ net.pkt[p].tail # "done"
                                  /\ \/ net.pkt[p].head = "done"
                                     \/ /\ net.pkt[p].head = "Head_Move"
                                        /\ ModuleAfter(net, p) = OPort(n)}
    IN  /\ i.qfree = i.portrdy + Cardinality(leaving) + (IF i.sender = "ready" THEN 1 ELSE 0)
        /\ o.freespace.val + Len(o.queue) + Cardinality(promised) = PortSize
        /\ o.receiver = "waiting" => o.queue = <<>> /\ o.pktavail = 0
        /\ o.pktavail <= Len(o.queue)

(* Dimension order: a packet in one buffer may wait for the next on its    *)
(* way.  Every set of buffers has one that waits for none of the set, so   *)
(* no ring of packets can ever wait for one another; every packet gets to  *)
(* its node; and the heads are on their ways, whatever has passed them.    *)
Ways == [s \in Nodes, t \in Nodes |->
           LET at[k \in 0..Cardinality(Nodes)] ==
                 IF k = 0 THEN ProcBuf(s)
                 ELSE LET b == at[k - 1] IN IF b[1] = t THEN b ELSE Behind(MeshRoute(b[1], t))
           IN  at]
Waits == {e \in UNION {{<<Ways[s, t][k - 1], Ways[s, t][k]>> : k \in 1..Cardinality(Nodes)} :
                         s, t \in Nodes} : e[1] # e[2]}
Acyclic == \A S \in SUBSET Buffers \ {{}} : \E b \in S : \A c \in S : <<b, c>> \notin Waits
NoRing ==
  /\ Acyclic
  /\ \A s, t \in Nodes : Ways[s, t][Cardinality(Nodes)][1] = t
  /\ \A p \in Packets : IsBuffer(net.pkt[p].headbuf) =>
       \E k \in 0..Cardinality(Nodes) : Ways[p[1], To(p)][k] = net.pkt[p].headbuf

(* The interfaces see a pipe: nothing is lost, and what one node sends to  *)
(* another arrives in the order it was sent.                               *)
Pending(s, d) ==
  SelectSeq([i \in 1..sent[s] |-> <<s, i>>],
            LAMBDA p : To(p) = d /\ net.pkt[p].tail # "done")
P == INSTANCE Pipe WITH
       inside  <- [s \in Nodes |-> [d \in Nodes |-> Pending(s, d)]],
       arrived <- [n \in Nodes |-> net.oport[n].queue]
Refines == P!Spec

(* Every packet is received in the end.                                    *)
AllReceived == <>(\A p \in Packets :
                    net.pkt[p].tail = "done" /\ net.oport[To(p)].queue = <<>>)

(* The counts of buffers, ports and semaphores are those of the flits and  *)
(* packets that are there.                                                 *)
BuffersAgree == TypeOK /\ FlitsConserved /\ PortsAgree
=============================================================================

---------------------------- MODULE Interconnect ----------------------------
(***************************************************************************)
(* The way of a message from a cache or a directory to another: the bus of *)
(* its node (node_bus), the sending part of the network interface          *)
(* (SmnetSend and one event per network that waits for a place in the      *)
(* input port), the network, the receiving part (one event per network and *)
(* the handshake of the bus), and the bus of the other node.               *)
(*                                                                         *)
(* Module Network models the two networks themselves.  Here each is what   *)
(* it refines, a Pipe, with room inside for what its input ports hold.     *)
(* Delays are not modelled: an event that is scheduled may run at any      *)
(* time.  The caches and directories send the messages of a case and take  *)
(* what reaches them; every directory has one bank.                        *)
(***************************************************************************)
EXTENDS Integers, Sequences, FiniteSets, SequencesExt

CONSTANTS
  Nodes,    \* 0 .. n-1
  BusPort,  \* messages in an output port of the bus, the overflow one included
  NetPort,  \* packets in a port of the network, messages in one of SmnetRcv
  Cases,    \* what is sent: [Nodes \X Sources -> Seq([type : Types, to : Nodes])]
  None

ASSUME PortsAssumption == BusPort \in Nat \ {0} /\ NetPort \in Nat \ {0}

Types == {"REQUEST", "COHE", "REPLY", "COHE_REPLY", "WRB"}

(* Ports of the bus: 0 and 1 are the L2 cache's, 2 and 3 lead to           *)
(* SmnetSend, 4 and 5 come from SmnetRcv, 6 and 7 are the directory's.     *)
Sources == {0, 1, 6, 7}
Sinks   == {0, 1, 6, 7}
InPorts == Sources \cup {4, 5}
OutPorts == Sinks \cup {2, 3}
NumPorts == 8

(* COHE_REPLYs and write-backs come from the caches alone.                 *)
ASSUME CasesAssumption ==
  \A t \in Cases :
    /\ t \in [Nodes \X Sources -> Seq([type : Types, to : Nodes])]
    /\ \A q \in Nodes \X Sources : \A i \in DOMAIN t[q] :
         t[q][i].type \in {"COHE_REPLY", "WRB"} => q[2] \in {0, 1}

Classes == {"req", "rep"}
SendPort(c) == IF c = "req" THEN 2 ELSE 3
RcvPort(c)  == IF c = "req" THEN 4 ELSE 5

(* Q_totsz: half a port, and at least one message. *)
QSize == IF NetPort \div 2 = 0 THEN 1 ELSE NetPort \div 2

VARIABLES
  traffic,  \* one of Cases
  in, out,  \* [Nodes -> [ports -> Seq(message)]]: the bus's ports
  bus,      \* [Nodes -> [state, req, port, next]]: node_bus
  send,     \* [Nodes -> [state, next]]: SmnetSend
  sq,       \* [Nodes -> [Classes -> [q, ev]]]: reqQ and replyQ, EvntReq and EvntReply
  iport,    \* [Nodes -> [Classes -> [queue, portrdy]]]
  oport,    \* [Nodes -> [Classes -> Seq(message)]]
  rq,       \* as sq, of SmnetRcv
  todo,     \* [Nodes -> [Sources -> Nat]]: how many messages were sent
  got       \* [Nodes -> [Sinks -> Seq(message)]]: what arrived

vars == <<traffic, in, out, bus, send, sq, iport, oport, rq, todo, got>>

(* A message names the entry of traffic that it is; src and dest are the   *)
(* fields src_node and dest_node of the REQ.                               *)
Entry(m) == traffic[m.at][m.i]
Class(m) == IF Entry(m).type \in {"REQUEST", "COHE"} THEN "req" ELSE "rep"

(* A REPLY or COHE_REPLY is the record of the request that it answers, so  *)
(* its source is still the requester; a WRB is a COHE_REPLY of its own.    *)
Answers(m) == Entry(m).type \in {"REPLY", "COHE_REPLY"}
Message(n, p, i) ==
  LET e == traffic[<<n, p>>][i] IN
  IF e.type \in {"REPLY", "COHE_REPLY"} THEN [at |-> <<n, p>>, i |-> i, src |-> e.to, dest |-> n]
                                        ELSE [at |-> <<n, p>>, i |-> i, src |-> n, dest |-> e.to]

Init ==
  /\ traffic \in Cases
  /\ in = [n \in Nodes |-> [p \in InPorts |-> <<>>]]
  /\ out = [n \in Nodes |-> [p \in OutPorts |-> <<>>]]
  /\ bus = [n \in Nodes |-> [state |-> "asleep", req |-> None, port |-> 0, next |-> 0]]
  /\ send = [n \in Nodes |-> [state |-> "asleep", next |-> 0]]
  /\ sq = [n \in Nodes |-> [c \in Classes |-> [q |-> <<>>, ev |-> "idle"]]]
  /\ iport = [n \in Nodes |-> [c \in Classes |-> [queue |-> <<>>, portrdy |-> NetPort]]]
  /\ oport = [n \in Nodes |-> [c \in Classes |-> <<>>]]
  /\ rq = [n \in Nodes |-> [c \in Classes |-> [q |-> <<>>, ev |-> "waiting"]]]
  /\ todo = [n \in Nodes |-> [p \in Sources |-> 0]]
  /\ got = [n \in Nodes |-> [p \in Sinks |-> <<>>]]

-----------------------------------------------------------------------------
(* The bus.                                                                *)

(* routing_bus; -1 where it exits.                                         *)
routing_bus(n, m, from) ==
  CASE Entry(m).type = "REQUEST" -> IF m.dest # n THEN 2 ELSE 6
    [] Entry(m).type = "COHE"    -> IF m.dest # n THEN 2 ELSE 0
    [] Answers(m) /\ m.dest # n  -> -1
    [] Entry(m).type = "REPLY" /\ m.dest = n ->
         IF from \in {0, 1, 6, 7} /\ m.src # n THEN 3 ELSE 1
    [] Entry(m).type = "COHE_REPLY" /\ m.dest = n ->
         IF from <= 1 /\ m.src # n THEN 3 ELSE 7
    [] Entry(m).type = "WRB"     -> IF from <= 1 /\ m.dest # n THEN 3 ELSE 7

WakeBus(b) == IF b.state = "asleep" THEN [b EXCEPT !.state = "start"] ELSE b

\* Mutant: requests, too, enter at the head.
MutAddReq(c, q, m) == <<m>> \o q

(* SmnetRcvHandshake: a message left the port of class c, so the next one  *)
(* that SmnetRcv holds may enter it, and the event that waits for room in  *)
(* SmnetRcv goes on.  Requests enter at the tail, replies at the head.     *)
AddReq(c, q, m) == IF c = "req" THEN Append(q, m) ELSE <<m>> \o q

\* Mutant: the event that waits for room in SmnetRcv is not woken.
MutHandshake(n, c) ==
  LET r == rq[n][c]
      left == Tail(in[n][RcvPort(c)])
  IN  IF r.q = <<>>
      THEN in' = [in EXCEPT ![n][RcvPort(c)] = left] /\ UNCHANGED rq
      ELSE /\ in' = [in EXCEPT ![n][RcvPort(c)] = AddReq(c, left, Head(r.q))]
           /\ rq' = [rq EXCEPT ![n][c].q = Tail(r.q)]

Handshake(n, c) ==
  LET r == rq[n][c]
      left == Tail(in[n][RcvPort(c)])
  IN  IF r.q = <<>>
      THEN in' = [in EXCEPT ![n][RcvPort(c)] = left] /\ UNCHANGED rq
      ELSE /\ in' = [in EXCEPT ![n][RcvPort(c)] = AddReq(c, left, Head(r.q))]
           /\ rq' = [rq EXCEPT ![n][c] =
                      [q |-> Tail(r.q), ev |-> IF r.ev = "stuck" THEN "run" ELSE r.ev]]

(* BUSSTART and SERVICE: the first port, from the next one on, that holds  *)
(* a message; its message is taken if it has somewhere to go.              *)
BusStart(n) ==
  LET b == bus[n]
      waiting == {i \in 0 .. NumPorts - 1 : LET p == (b.next + i) % NumPorts IN
                                             p \in InPorts /\ in[n][p] # <<>>}
      port == (b.next + Min(waiting)) % NumPorts
      m    == Head(in[n][port])
      to   == routing_bus(n, m, port)
      next == (port + 1) % NumPorts
  IN  /\ b.state = "start"
      /\ \/ /\ waiting = {}
            /\ bus' = [bus EXCEPT ![n].state = "asleep"]
            /\ UNCHANGED <<in, rq>>
         \/ /\ waiting # {} /\ to = -1
            /\ bus' = [bus EXCEPT ![n].state = "fatal"]
            /\ UNCHANGED <<in, rq>>
         \/ /\ waiting # {} /\ to # -1 /\ Len(out[n][to]) >= BusPort
            /\ bus' = [bus EXCEPT ![n].next = next]
            /\ UNCHANGED <<in, rq>>
         \/ /\ waiting # {} /\ to # -1 /\ Len(out[n][to]) < BusPort
            /\ IF port \in {4, 5} THEN Handshake(n, Class(m))
               ELSE in' = [in EXCEPT ![n][port] = Tail(@)] /\ UNCHANGED rq
            /\ bus' = [bus EXCEPT ![n] = [state |-> "deliver", req |-> m,
                                          port |-> port, next |-> next]]
      /\ UNCHANGED <<traffic, out, send, sq, iport, oport, todo, got>>

BusDeliver(n) ==
  LET to == routing_bus(n, bus[n].req, bus[n].port) IN
  /\ bus[n].state = "deliver"
  /\ out' = [out EXCEPT ![n][to] = Append(@, bus[n].req)]
  /\ bus' = [bus EXCEPT ![n].state = "start", ![n].req = None]
  /\ send' = IF to \in {2, 3} THEN [send EXCEPT ![n].state = "awake"] ELSE send
  /\ UNCHANGED <<traffic, in, sq, iport, oport, rq, todo, got>>

-----------------------------------------------------------------------------
(* The network interface, sending.                                         *)

(* SmnetSend turns an answer round, so that it goes back.                  *)
Flipped(m) == IF Answers(m) THEN [m EXCEPT !.src = m.dest, !.dest = m.src] ELSE m

(* SmnetSend, one message: it looks at its two ports in turn; a message    *)
(* whose queue is full stays, and the other port is looked at next time.   *)
SmnetSend(n) ==
  LET s == send[n]
      waiting == {i \in 0..1 : out[n][2 + ((s.next + i) % 2)] # <<>>}
      idx  == (s.next + Min(waiting)) % 2
      port == 2 + idx
      m == Flipped(Head(out[n][port]))
      c == Class(m)
      next == (idx + 1) % 2
  IN  /\ s.state = "awake"
      /\ \/ /\ waiting = {}
            /\ send' = [send EXCEPT ![n].state = "asleep"]
            /\ UNCHANGED <<out, sq>>
         \/ /\ waiting # {} /\ Len(sq[n][c].q) = QSize
            /\ send' = [send EXCEPT ![n].next = next]
            /\ UNCHANGED <<out, sq>>
         \/ /\ waiting # {} /\ Len(sq[n][c].q) # QSize
            /\ send' = [send EXCEPT ![n] = [state |-> IF m.src # n \/ m.src = m.dest
                                                      THEN "fatal" ELSE "awake",
                                            next |-> next]]
            /\ out' = [out EXCEPT ![n][port] = Tail(@)]
            /\ sq' = [sq EXCEPT ![n][c] =
                       [q |-> Append(@.q, m),
                        ev |-> IF @.q = <<>> /\ @.ev = "idle" THEN "start" ELSE @.ev]]
      /\ UNCHANGED <<traffic, in, bus, iport, oport, rq, todo, got>>

\* Mutant: the event goes to sleep without giving the semaphore back.
MutSendSemaWait(n, c) ==
  LET e == sq[n][c]
      i == iport[n][c]
  IN  /\ \/ /\ e.ev = "start"
            /\ sq' = [sq EXCEPT ![n][c].ev = IF i.portrdy > 0 THEN "ready" ELSE "waiting"]
            /\ iport' = IF i.portrdy > 0 THEN [iport EXCEPT ![n][c].portrdy = @ - 1] ELSE iport
         \/ /\ e.ev = "ready" /\ e.q # <<>>
            /\ sq' = [sq EXCEPT ![n][c] = [q |-> Tail(@.q), ev |-> "start"]]
            /\ iport' = [iport EXCEPT ![n][c].queue = Append(@, Head(e.q))]
         \/ /\ e.ev = "ready" /\ e.q = <<>>
            /\ sq' = [sq EXCEPT ![n][c].ev = "idle"]
            /\ UNCHANGED iport
      /\ UNCHANGED <<traffic, in, out, bus, send, oport, rq, todo, got>>

(* ReqSendSemaWait and ReplySendSemaWait: case 0 takes the semaphore of    *)
(* the input port or waits for it; case 1 sends a message or, with none    *)
(* left, gives it back.                                                    *)
SendSemaWait(n, c) ==
  LET e == sq[n][c]
      i == iport[n][c]
  IN  /\ \/ /\ e.ev = "start" /\ i.portrdy > 0
            /\ sq' = [sq EXCEPT ![n][c].ev = "ready"]
            /\ iport' = [iport EXCEPT ![n][c].portrdy = @ - 1]
         \/ /\ e.ev = "start" /\ i.portrdy = 0
            /\ sq' = [sq EXCEPT ![n][c].ev = "waiting"]
            /\ UNCHANGED iport
         \/ /\ e.ev = "ready" /\ e.q # <<>>
            /\ sq' = [sq EXCEPT ![n][c] =
                       [q |-> Tail(@.q),
                        ev |-> IF Len(i.queue) < NetPort THEN "start" ELSE "fatal"]]
            /\ iport' = [iport EXCEPT ![n][c].queue = Append(@, Head(e.q))]
         \/ /\ e.ev = "ready" /\ e.q = <<>>
            /\ sq' = [sq EXCEPT ![n][c].ev = "idle"]
            /\ iport' = [iport EXCEPT ![n][c].portrdy = @ + 1]
      /\ UNCHANGED <<traffic, in, out, bus, send, oport, rq, todo, got>>

(* The network: a packet leaves its input port, whose semaphore is         *)
(* signalled, and reaches the output port of its destination.  Packets for *)
(* the same destination keep their order.                                  *)
Travel(n, c, k) ==
  LET m == iport[n][c].queue[k] IN
  /\ k \in DOMAIN iport[n][c].queue
  /\ \A j \in 1 .. k - 1 : iport[n][c].queue[j].dest # m.dest
  /\ Len(oport[m.dest][c]) < NetPort
  /\ oport' = [oport EXCEPT ![m.dest][c] = Append(@, m)]
  /\ rq' = [rq EXCEPT ![m.dest][c].ev = IF @ = "waiting" THEN "run" ELSE @]
  /\ LET woken == sq[n][c].ev = "waiting" IN
     /\ sq' = IF woken THEN [sq EXCEPT ![n][c].ev = "ready"] ELSE sq
     /\ iport' = [iport EXCEPT ![n][c] = [queue |-> RemoveAt(@.queue, k),
                                          portrdy |-> @.portrdy + (IF woken THEN 0 ELSE 1)]]
  /\ UNCHANGED <<traffic, in, out, bus, send, todo, got>>

-----------------------------------------------------------------------------
(* The network interface, receiving.                                       *)

(* ReqRcvSemaWait and ReplyRcvSemaWait.                                    *)
RcvSemaWait(n, c) ==
  LET r == rq[n][c]
      port == RcvPort(c)
      m == Head(oport[n][c])
  IN  /\ r.ev = "run"
      /\ \/ /\ oport[n][c] = <<>>
            /\ rq' = [rq EXCEPT ![n][c].ev = "waiting"]
            /\ UNCHANGED <<in, bus, oport>>
         \/ /\ oport[n][c] # <<>> /\ Len(r.q) = QSize
            /\ rq' = [rq EXCEPT ![n][c].ev = "stuck"]
            /\ UNCHANGED <<in, bus, oport>>
         \/ /\ oport[n][c] # <<>> /\ Len(r.q) # QSize
            /\ oport' = [oport EXCEPT ![n][c] = Tail(@)]
            /\ IF Len(in[n][port]) = NetPort
               THEN rq' = [rq EXCEPT ![n][c].q = Append(@, m)] /\ UNCHANGED <<in, bus>>
               ELSE /\ in' = [in EXCEPT ![n][port] = AddReq(c, @, m)]
                    /\ bus' = [bus EXCEPT ![n] = WakeBus(@)]
                    /\ UNCHANGED rq
      /\ UNCHANGED <<traffic, out, send, sq, iport, todo, got>>

-----------------------------------------------------------------------------
(* Caches and directories.                                                 *)

Put(n, p) ==
  /\ todo[n][p] < Len(traffic[<<n, p>>])
  /\ Len(in[n][p]) < BusPort
  /\ todo' = [todo EXCEPT ![n][p] = @ + 1]
  /\ in' = [in EXCEPT ![n][p] = Append(@, Message(n, p, todo[n][p] + 1))]
  /\ bus' = [bus EXCEPT ![n] = WakeBus(@)]
  /\ UNCHANGED <<traffic, out, send, sq, iport, oport, rq, got>>

Take(n, p) ==
  /\ out[n][p] # <<>>
  /\ got' = [got EXCEPT ![n][p] = Append(@, Head(out[n][p]))]
  /\ out' = [out EXCEPT ![n][p] = Tail(@)]
  /\ UNCHANGED <<traffic, in, bus, send, sq, iport, oport, rq, todo>>

(* What does not repeat itself without end. *)
Other(n) ==
  \/ \E c \in Classes : \/ SendSemaWait(n, c)
                        \/ RcvSemaWait(n, c)
                        \/ \E k \in 1..NetPort : Travel(n, c, k)
  \/ \E p \in Sources : Put(n, p)
  \/ \E p \in Sinks : Take(n, p)

Next == \E n \in Nodes : BusStart(n) \/ BusDeliver(n) \/ SmnetSend(n) \/ Other(n)

Spec == Init /\ [][Next]_vars

(* Every event that is scheduled runs, for no event keeps the time from    *)
(* going on: a bus that finds a port full tries again a bus cycle later,   *)
(* SmnetSend a processor cycle.  The modules send and take what they can.  *)
(* The first two lines are WF_vars(BusStart(n) \/ BusDeliver(n)) and       *)
(* WF_vars(SmnetSend(n)), with the states in which these are enabled.      *)
FairSpec ==
  /\ Spec
  /\ \A n \in Nodes :
       /\ []<>(bus[n].state \notin {"start", "deliver"}) \/ []<><<BusStart(n) \/ BusDeliver(n)>>_vars
       /\ []<>(send[n].state # "awake") \/ []<><<SmnetSend(n)>>_vars
  /\ WF_vars(\E n \in Nodes : Other(n))

-----------------------------------------------------------------------------
(* Properties.                                                             *)

(* No YS__errmsg of bus.c, smnet.c or route.c: no answer is routed before  *)
(* it was turned round or after it was turned twice, no message goes to    *)
(* its own node through the network, and the semaphore of an input port is *)
(* taken only when there is room.                                          *)
NoFatal ==
  \A n \in Nodes : /\ bus[n].state # "fatal" /\ send[n].state # "fatal"
                   /\ \A c \in Classes : sq[n][c].ev # "fatal"

(* No event sleeps over work, and none waits for what nobody will signal:  *)
(* what SmnetRcv holds waits for a full port, whose every removal comes    *)
(* through the handshake; the places of an input port are free, taken or   *)
(* promised to the event that sends.                                       *)
Awake ==
  \A n \in Nodes :
    /\ bus[n].state = "asleep" => \A p \in InPorts : in[n][p] = <<>>
    /\ send[n].state = "asleep" => out[n][2] = <<>> /\ out[n][3] = <<>>
    /\ \A c \in Classes :
         LET s == sq[n][c]
             i == iport[n][c]
             r == rq[n][c]
         IN  /\ s.ev = "idle" => s.q = <<>>
             /\ i.portrdy + Len(i.queue) + (IF s.ev = "ready" THEN 1 ELSE 0) = NetPort
             /\ s.ev = "waiting" => i.portrdy = 0
             /\ r.ev = "waiting" => oport[n][c] = <<>>
             /\ r.ev = "stuck" => Len(r.q) = QSize
             /\ r.q # <<>> => Len(in[n][RcvPort(c)]) = NetPort

(* The module and node that a message is for. *)
Goal(m) == LET e == Entry(m) IN
  <<e.to, CASE e.type = "REQUEST" -> 6 [] e.type = "COHE" -> 0
            [] e.type = "REPLY" -> 1   [] e.type \in {"COHE_REPLY", "WRB"} -> 7>>

(* What Coherence takes for granted of its channels: a message gets only   *)
(* to the module it is for, and requests of one sender, and coherence      *)
(* messages, in the order they were sent; replies need not keep it.        *)
InOrder ==
  \A n \in Nodes, p \in Sinks :
    LET g == got[n][p] IN
    /\ \A i \in DOMAIN g : Goal(g[i]) = <<n, p>>
    /\ \A i, j \in DOMAIN g :
         Class(g[i]) = "req" /\ i < j /\ g[i].at = g[j].at => g[i].i < g[j].i

(* Every message arrives, once, however full the ports are: requests and   *)
(* replies do not wait for each other.                                     *)
Sent(q) == {<<q, i>> : i \in DOMAIN traffic[q]}
Arrived == {<<m.at, m.i>> : m \in UNION {Range(got[n][p]) : n \in Nodes, p \in Sinks}}
AllArrive == <>(Arrived = UNION {Sent(q) : q \in Nodes \X Sources})

(* Whatever is delivered came by its way, and in its order.                *)
Delivery == NoFatal /\ InOrder
=============================================================================

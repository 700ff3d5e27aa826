------------------------- MODULE InterconnectProofs -------------------------
(***************************************************************************)
(* No event on the way between the caches and directories sleeps over      *)
(* work, for any number of nodes, any sizes of the ports and any traffic.  *)
(*                                                                         *)
(* TypeOK says which messages each place can hold; what the routing does   *)
(* with them follows from it, and Awake is inductive with it.  The second  *)
(* part is that every message is delivered, and in order.                  *)
(***************************************************************************)
EXTENDS Interconnect, SequenceTheorems, WellFoundedInduction, TLAPS

Msg == [at : Nodes \X Sources, i : Nat, src : Nodes, dest : Nodes]
Queues == Seq(Msg)
Known(m) == m.i \in DOMAIN traffic[m.at]

(* The messages as module p of node n sends them, those of class c on      *)
(* their way out of node n, and, turned round, in the network from a node  *)
(* and to a node.                                                          *)
Fresh(n, p) == {m \in Msg : m.at = <<n, p>> /\ Known(m) /\ m = Message(n, p, m.i)}
Leaving(n, c) ==
  {m \in Msg : Class(m) = c /\ Entry(m).to # n /\ \E p \in Sources : m \in Fresh(n, p)}
NetFrom(n, c) ==
  {m \in Msg : /\ Known(m) /\ Class(m) = c
               /\ m.at[1] = n /\ m.src = n /\ m.dest = Entry(m).to /\ m.dest # n}
NetTo(d, c) ==
  {m \in Msg : /\ Known(m) /\ Class(m) = c
               /\ m.src = m.at[1] /\ m.src # d /\ m.dest = d /\ Entry(m).to = d}

(* At the bus of node n, in its input port p, and behind its output port.  *)
AtBus(n, p) == IF p \in Sources THEN Fresh(n, p) ELSE NetTo(n, IF p = 4 THEN "req" ELSE "rep")
There(n, s) == {m \in Msg : Known(m) /\ Goal(m) = <<n, s>>}
PastBus(n, p) == IF p \in Sinks THEN There(n, p) ELSE Leaving(n, IF p = 2 THEN "req" ELSE "rep")

InOK ==
  /\ in \in [Nodes -> [InPorts -> Queues]]
  /\ \A n \in Nodes, p \in InPorts : in[n][p] \in Seq(AtBus(n, p))
OutOK ==
  /\ out \in [Nodes -> [OutPorts -> Queues]]
  /\ \A n \in Nodes, p \in OutPorts : out[n][p] \in Seq(PastBus(n, p))
BusOK ==
  /\ bus \in [Nodes -> [state : {"asleep", "start", "deliver"}, req : Msg \cup {None},
                        port : 0..7, next : 0..7]]
  /\ \A n \in Nodes : bus[n].state = "deliver" =>
       bus[n].port \in InPorts /\ bus[n].req \in AtBus(n, bus[n].port)
SqOK ==
  /\ sq \in [Nodes -> [Classes -> [q : Queues, ev : {"idle", "start", "ready", "waiting"}]]]
  /\ \A n \in Nodes, c \in Classes : sq[n][c].q \in Seq(NetFrom(n, c))
IportOK ==
  /\ iport \in [Nodes -> [Classes -> [queue : Queues, portrdy : Nat]]]
  /\ \A n \in Nodes, c \in Classes : iport[n][c].queue \in Seq(NetFrom(n, c))
OportOK ==
  /\ oport \in [Nodes -> [Classes -> Queues]]
  /\ \A n \in Nodes, c \in Classes : oport[n][c] \in Seq(NetTo(n, c))
RqOK ==
  /\ rq \in [Nodes -> [Classes -> [q : Queues, ev : {"waiting", "run", "stuck"}]]]
  /\ \A n \in Nodes, c \in Classes : rq[n][c].q \in Seq(NetTo(n, c))
GotOK ==
  /\ got \in [Nodes -> [Sinks -> Queues]]
  /\ \A n \in Nodes, s \in Sinks : got[n][s] \in Seq(There(n, s))

TypeOK ==
  /\ traffic \in Cases
  /\ InOK /\ OutOK /\ BusOK /\ SqOK /\ IportOK /\ OportOK /\ RqOK /\ GotOK
  /\ send \in [Nodes -> [state : {"asleep", "awake"}, next : 0..1]]
  /\ todo \in [Nodes -> [Sources -> Nat]]
(* What the bus of node n carries from its port p, and the requests and    *)
(* coherence messages from module p of node n to module s of node d.       *)
Carried(n, p) == IF bus[n].state = "deliver" /\ bus[n].port = p THEN <<bus[n].req>> ELSE <<>>
Mine(n, p, d, s) ==
  {m \in Msg : Known(m) /\ m.at = <<n, p>> /\ Goal(m) = <<d, s>> /\ Class(m) = "req"}
-----------------------------------------------------------------------------
(* Every message has an entry of traffic, and with it a type.              *)
LEMMA EntryType ==
  ASSUME TypeOK, NEW m \in Msg, Known(m)
  PROVE  /\ Entry(m) \in [type : Types, to : Nodes]
         /\ m.at = <<m.at[1], m.at[2]>> /\ m.at[1] \in Nodes /\ m.at[2] \in Sources
         /\ Entry(m).type \in {"COHE_REPLY", "WRB"} => m.at[2] \in {0, 1}
<1>1. m.at \in Nodes \X Sources /\ m.i \in DOMAIN traffic[m.at]
  BY DEF Msg, Known
<1> DEFINE E == [type : Types, to : Nodes]
<1> HIDE DEF E
<1>2. /\ traffic \in [Nodes \X Sources -> Seq(E)]
      /\ \A q \in Nodes \X Sources : \A i \in DOMAIN traffic[q] :
           traffic[q][i].type \in {"COHE_REPLY", "WRB"} => q[2] \in {0, 1}
  BY CasesAssumption DEF TypeOK, E
<1>3. traffic[m.at] \in Seq(E)
  BY <1>1, <1>2
<1>4. traffic[m.at][m.i] \in E
  BY <1>1, <1>3
<1>5. traffic[m.at][m.i].type \in {"COHE_REPLY", "WRB"} => m.at[2] \in {0, 1}
  BY <1>1, <1>2
<1> QED BY <1>1, <1>4, <1>5 DEF Entry, E

(* routing_bus never exits, and every message is put where it may be.      *)
LEMMA RoutingBus ==
  ASSUME TypeOK, NEW n \in Nodes, NEW p \in InPorts, NEW m \in AtBus(n, p)
  PROVE  routing_bus(n, m, p) \in OutPorts /\ m \in PastBus(n, routing_bus(n, m, p))
<1> DEFINE e == Entry(m)
<1>1. m \in Msg /\ Known(m)
  BY DEF AtBus, Fresh, NetTo
<1>2. e \in [type : Types, to : Nodes]
      /\ (e.type \in {"COHE_REPLY", "WRB"} => m.at[2] \in {0, 1})
  BY <1>1, EntryType
<1>3. CASE p \in Sources
  <2>1. m.at = <<n, p>> /\ m = Message(n, p, m.i) /\ m \in Fresh(n, p)
    BY <1>3 DEF AtBus, Fresh
  <2>2. IF Answers(m) THEN m.src = e.to /\ m.dest = n ELSE m.src = n /\ m.dest = e.to
    BY <2>1 DEF Message, Answers, Entry
  <2>3. e.type \in {"COHE_REPLY", "WRB"} => p \in {0, 1}
    BY <1>2, <2>1
  <2>4. CASE e.to # n
    <3>1. routing_bus(n, m, p) = SendPort(Class(m))
      BY <1>2, <1>3, <2>2, <2>3, <2>4
         DEF routing_bus, Answers, SendPort, Class, Types, Sources
    <3>2. m \in Leaving(n, Class(m))
      BY <1>1, <1>3, <2>1, <2>4 DEF Leaving
    <3> QED BY <3>1, <3>2 DEF PastBus, SendPort, Class, OutPorts, Sinks
  <2>5. CASE e.to = n
    <3>1. routing_bus(n, m, p) \in Sinks /\ Goal(m) = <<n, routing_bus(n, m, p)>>
      BY <1>2, <1>3, <2>2, <2>3, <2>5 DEF routing_bus, Answers, Types, Sources, Goal, Sinks
    <3> QED BY <1>1, <3>1 DEF PastBus, There, OutPorts
  <2> QED BY <2>4, <2>5
<1>4. CASE p \notin Sources
  <2>1. m.src # n /\ m.dest = n /\ e.to = n /\ p \in {4, 5}
    BY <1>4 DEF AtBus, NetTo, InPorts
  <2>2. Class(m) = IF p = 4 THEN "req" ELSE "rep"
    BY <1>4 DEF AtBus, NetTo
  <2>3. routing_bus(n, m, p) \in Sinks /\ Goal(m) = <<n, routing_bus(n, m, p)>>
    BY <1>2, <2>1, <2>2 DEF routing_bus, Answers, Types, Class, Goal, Sinks
  <2> QED BY <1>1, <2>3 DEF PastBus, There, OutPorts
<1> QED BY <1>3, <1>4

(* SmnetSend turns what leaves a node into what the network takes.         *)
LEMMA TurnedRound ==
  ASSUME TypeOK, NEW n \in Nodes, NEW c \in Classes, NEW m \in Leaving(n, c)
  PROVE  Flipped(m) \in NetFrom(n, c) /\ Class(Flipped(m)) = c
         /\ Flipped(m).src = n /\ Flipped(m).dest # n
<1> DEFINE f == Flipped(m)
<1>1. PICK p \in Sources : m \in Fresh(n, p)
  BY DEF Leaving
<1>2. m \in Msg /\ Known(m) /\ m.at = <<n, p>> /\ m = Message(n, p, m.i)
      /\ Class(m) = c /\ Entry(m).to # n
  BY <1>1 DEF Leaving, Fresh
<1>3. Entry(m) \in [type : Types, to : Nodes]
  BY <1>2, EntryType
<1>4. IF Answers(m) THEN m.src = Entry(m).to /\ m.dest = n ELSE m.src = n /\ m.dest = Entry(m).to
  BY <1>2 DEF Message, Answers, Entry
<1>5. f \in Msg /\ f.at = m.at /\ f.i = m.i /\ f.src = n /\ f.dest = Entry(m).to
  BY <1>2, <1>3, <1>4 DEF Flipped, Msg
<1>6. Entry(f) = Entry(m) /\ Known(f) /\ Class(f) = c
  BY <1>2, <1>5 DEF Entry, Known, Class
<1> QED BY <1>2, <1>5, <1>6 DEF NetFrom

(* What the network brings is for the node it is brought to.               *)
LEMMA Brought ==
  ASSUME TypeOK, NEW n \in Nodes, NEW c \in Classes, NEW m \in NetFrom(n, c)
  PROVE  m.dest \in Nodes /\ m \in NetTo(m.dest, c)
  BY DEF NetFrom, NetTo, Msg

(* The ports of the bus that lead to and from the network.                 *)
LEMMA PortOfClass ==
  ASSUME NEW n, NEW c \in Classes
  PROVE  /\ RcvPort(c) \in InPorts \ Sources /\ AtBus(n, RcvPort(c)) = NetTo(n, c)
         /\ SendPort(c) \in OutPorts \ Sinks /\ PastBus(n, SendPort(c)) = Leaving(n, c)
  BY DEF Classes, RcvPort, SendPort, InPorts, OutPorts, Sources, Sinks, AtBus, PastBus
-----------------------------------------------------------------------------
(* What queues are made of stays what it is.                               *)
LEMMA QueueOf ==
  ASSUME NEW S, NEW q \in Seq(S)
  PROVE  /\ q # <<>> => Head(q) \in S /\ Tail(q) \in Seq(S) /\ Head(q) = q[1] /\ 1 \in DOMAIN q
         /\ \A m \in S : Append(q, m) \in Seq(S) /\ <<m>> \o q \in Seq(S)
         /\ Len(q) \in Nat /\ DOMAIN q = 1..Len(q) /\ \A k \in DOMAIN q : q[k] \in S
  OBVIOUS

(* Queue g is f without its element a.                                     *)
Cut(g, f, a) == /\ a \in DOMAIN f /\ Len(g) = Len(f) - 1
                /\ \A b \in 1..Len(g) : g[b] = f[IF b < a THEN b ELSE b + 1]

(* RemoveAt takes one message out of a queue.                              *)
LEMMA RemoveAtCuts ==
  ASSUME NEW S, NEW q \in Seq(S), NEW k \in DOMAIN q
  PROVE  RemoveAt(q, k) \in Seq(S) /\ Cut(RemoveAt(q, k), q, k)
<1> DEFINE f == SubSeq(q, 1, k - 1)
           g == SubSeq(q, k + 1, Len(q))
<1>1. k \in 1..Len(q) /\ Len(q) \in Nat
  OBVIOUS
<1>2. f \in Seq(S) /\ Len(f) = k - 1 /\ \A i \in 1..k - 1 : f[i] = q[i]
  BY <1>1, SubSeqProperties
<1>3. g \in Seq(S) /\ Len(g) = Len(q) - k /\ \A i \in 1..Len(q) - k : g[i] = q[k + i]
  BY <1>1, SubSeqProperties
<1> HIDE DEF f, g
<1>4. f \o g \in Seq(S) /\ Len(f \o g) = Len(f) + Len(g)
      /\ \A i \in 1..Len(f) + Len(g) : (f \o g)[i] = IF i <= Len(f) THEN f[i] ELSE g[i - Len(f)]
  BY <1>2, <1>3, ConcatProperties
<1>5. RemoveAt(q, k) = f \o g
  BY DEF RemoveAt, f, g
<1>6. Len(f \o g) = Len(q) - 1
  BY <1>1, <1>2, <1>3, <1>4
<1>7. ASSUME NEW b \in 1..Len(q) - 1 PROVE (f \o g)[b] = q[IF b < k THEN b ELSE b + 1]
  <2>1. (f \o g)[b] = IF b <= k - 1 THEN f[b] ELSE g[b - (k - 1)]
    <3>1. Len(f) = k - 1 /\ b \in 1..Len(f) + Len(g)
      BY <1>1, <1>2, <1>3, <1>7
    <3> QED BY <1>4, <3>1
  <2>2. CASE b < k
    BY <1>1, <1>2, <2>1, <2>2
  <2>3. CASE ~(b < k)
    <3>1. b - (k - 1) \in 1..Len(q) - k /\ k + (b - (k - 1)) = b + 1
      BY <1>1, <2>3
    <3> QED BY SMTT(30), <1>1, <1>3, <2>1, <2>3, <3>1
  <2> QED BY <2>2, <2>3
<1>8. RemoveAt(q, k) \in Seq(S) /\ Len(RemoveAt(q, k)) = Len(q) - 1
  BY <1>4, <1>5, <1>6
<1> QED BY <1>5, <1>7, <1>8 DEF Cut

(* Tail takes the first message out of a queue.                            *)
LEMMA TailCuts ==
  ASSUME NEW S, NEW q \in Seq(S), q # <<>>
  PROVE  Tail(q) \in Seq(S) /\ Cut(Tail(q), q, 1)
  BY DEF Cut

(* The sets of messages depend on the traffic alone.                       *)
LEMMA SameSets ==
  ASSUME traffic' = traffic
  PROVE  /\ \A n \in Nodes, p \in InPorts : AtBus(n, p)' = AtBus(n, p)
         /\ \A n \in Nodes, p \in OutPorts : PastBus(n, p)' = PastBus(n, p)
         /\ \A n \in Nodes, c \in Classes : /\ NetFrom(n, c)' = NetFrom(n, c)
                                           /\ NetTo(n, c)' = NetTo(n, c)
         /\ \A n \in Nodes, s \in Sinks : There(n, s)' = There(n, s)
         /\ \A n, d \in Nodes, p \in Sources, s \in Sinks : Mine(n, p, d, s)' = Mine(n, p, d, s)
<1>1. \A m : Entry(m)' = Entry(m) /\ Known(m)' = Known(m) /\ Class(m)' = Class(m)
              /\ Goal(m)' = Goal(m)
  BY DEF Entry, Known, Class, Goal
<1>2. \A n, p : Fresh(n, p)' = Fresh(n, p)
  BY <1>1 DEF Fresh, Message
<1>3. \A n, c : /\ Leaving(n, c)' = Leaving(n, c) /\ NetFrom(n, c)' = NetFrom(n, c)
                /\ NetTo(n, c)' = NetTo(n, c) /\ There(n, c)' = There(n, c)
  BY <1>1, <1>2 DEF Leaving, NetFrom, NetTo, There
<1> QED BY <1>1, <1>2, <1>3 DEF AtBus, PastBus, Mine

(* A part of the types that a step does not touch.                         *)
LEMMA SameParts ==
  ASSUME TypeOK, traffic' = traffic
  PROVE  /\ traffic' \in Cases /\ (in' = in => InOK') /\ (out' = out => OutOK')
         /\ (bus' = bus => BusOK') /\ (sq' = sq => SqOK') /\ (iport' = iport => IportOK')
         /\ (oport' = oport => OportOK') /\ (rq' = rq => RqOK') /\ (got' = got => GotOK')
  BY SameSets DEF TypeOK, InOK, OutOK, BusOK, SqOK, IportOK, OportOK, RqOK, GotOK

(* Assigning to one place of a table of tables.                            *)
LEMMA Update ==
  ASSUME NEW X, NEW Y, NEW Z, NEW f \in [X -> [Y -> Z]], NEW x \in X, NEW y \in Y, NEW v \in Z
  PROVE  LET g == [f EXCEPT ![x][y] = v]
         IN  /\ g \in [X -> [Y -> Z]] /\ g[x][y] = v
             /\ \A a \in X, b \in Y : a # x \/ b # y => g[a][b] = f[a][b]
  OBVIOUS

(* Queues of what may be in a place are queues of messages.                *)
LEMMA OfMessages ==
  /\ \A n, p : AtBus(n, p) \subseteq Msg /\ PastBus(n, p) \subseteq Msg
  /\ \A n, c : NetFrom(n, c) \subseteq Msg /\ NetTo(n, c) \subseteq Msg /\ There(n, c) \subseteq Msg
  BY DEF AtBus, PastBus, NetFrom, NetTo, There, Fresh, Leaving

(* A queue of some of the messages is a queue of messages.                 *)
LEMMA SeqOfMessages ==
  ASSUME NEW S, S \subseteq Msg, NEW q \in Seq(S)
  PROVE  q \in Queues
  BY DEF Queues

(* The rest of a table is as it was.                                       *)
InSame(n, p)    == \A m \in Nodes, k \in InPorts : m # n \/ k # p => in'[m][k] = in[m][k]
OutSame(n, p)   == \A m \in Nodes, k \in OutPorts : m # n \/ k # p => out'[m][k] = out[m][k]
GotSame(n, p)   == \A m \in Nodes, k \in Sinks : m # n \/ k # p => got'[m][k] = got[m][k]
SqSame(n, c)    == \A m \in Nodes, k \in Classes : m # n \/ k # c => sq'[m][k] = sq[m][k]
IportSame(n, c) == \A m \in Nodes, k \in Classes : m # n \/ k # c => iport'[m][k] = iport[m][k]
OportSame(n, c) == \A m \in Nodes, k \in Classes : m # n \/ k # c => oport'[m][k] = oport[m][k]
RqSame(n, c)    == \A m \in Nodes, k \in Classes : m # n \/ k # c => rq'[m][k] = rq[m][k]

(* Another queue in one of the bus's input ports.                          *)
LEMMA SetIn ==
  ASSUME TypeOK, traffic' = traffic, NEW n \in Nodes, NEW p \in InPorts, NEW v \in Seq(AtBus(n, p)),
         in' = [in EXCEPT ![n][p] = v]
  PROVE  InOK' /\ in'[n][p] = v
         /\ InSame(n, p)
<1>1. v \in Queues /\ in \in [Nodes -> [InPorts -> Queues]]
  BY OfMessages, SeqOfMessages DEF TypeOK, InOK
<1>2. in' \in [Nodes -> [InPorts -> Queues]] /\ in'[n][p] = v
      /\ \A m \in Nodes, k \in InPorts : m # n \/ k # p => in'[m][k] = in[m][k]
  BY <1>1, Update
<1>3. \A m \in Nodes, k \in InPorts : in'[m][k] \in Seq(AtBus(m, k))
  BY <1>2 DEF TypeOK, InOK
<1> QED BY <1>2, <1>3, SameSets DEF InSame, InOK

(* Another queue in one of its output ports.                               *)
LEMMA SetOut ==
  ASSUME TypeOK, traffic' = traffic, NEW n \in Nodes, NEW p \in OutPorts,
         NEW v \in Seq(PastBus(n, p)), out' = [out EXCEPT ![n][p] = v]
  PROVE  OutOK' /\ out'[n][p] = v
         /\ OutSame(n, p)
<1>1. v \in Queues /\ out \in [Nodes -> [OutPorts -> Queues]]
  BY OfMessages, SeqOfMessages DEF TypeOK, OutOK
<1>2. out' \in [Nodes -> [OutPorts -> Queues]] /\ out'[n][p] = v
      /\ \A m \in Nodes, k \in OutPorts : m # n \/ k # p => out'[m][k] = out[m][k]
  BY <1>1, Update
<1>3. \A m \in Nodes, k \in OutPorts : out'[m][k] \in Seq(PastBus(m, k))
  BY <1>2 DEF TypeOK, OutOK
<1> QED BY <1>2, <1>3, SameSets DEF OutSame, OutOK

(* Assignments to the events and ports of a class, whole or one field.     *)
SqBecomes(n, c, v, w)    == sq' = [sq EXCEPT ![n][c] = [q |-> v, ev |-> w]]
IportBecomes(n, c, v, w) == iport' = [iport EXCEPT ![n][c] = [queue |-> v, portrdy |-> w]]
RqBecomes(n, c, v, w)    == rq' = [rq EXCEPT ![n][c] = [q |-> v, ev |-> w]]
SqEv(n, c, w)      == sq' = [sq EXCEPT ![n][c].ev = w]
RqEv(n, c, w)      == rq' = [rq EXCEPT ![n][c].ev = w]
RqQueue(n, c, v)   == rq' = [rq EXCEPT ![n][c].q = v]
Portrdy(n, c, w)   == iport' = [iport EXCEPT ![n][c].portrdy = w]
PortQueue(n, c, v) == iport' = [iport EXCEPT ![n][c].queue = v]

(* Another queue or state of an event that sends.                          *)
LEMMA SetSq ==
  ASSUME TypeOK, traffic' = traffic, NEW n \in Nodes, NEW c \in Classes,
         NEW v \in Seq(NetFrom(n, c)), NEW w \in {"idle", "start", "ready", "waiting"},
         SqBecomes(n, c, v, w)
  PROVE  SqOK' /\ sq'[n][c] = [q |-> v, ev |-> w]
         /\ SqSame(n, c)
<1> DEFINE Z == [q : Queues, ev : {"idle", "start", "ready", "waiting"}]
           z == [q |-> v, ev |-> w]
<1>1. z \in Z /\ z.q = v /\ sq \in [Nodes -> [Classes -> Z]]
  BY OfMessages, SeqOfMessages DEF TypeOK, SqOK
<1> HIDE DEF Z, z
<1>2. sq' \in [Nodes -> [Classes -> Z]] /\ sq'[n][c] = z
      /\ \A m \in Nodes, k \in Classes : m # n \/ k # c => sq'[m][k] = sq[m][k]
  BY <1>1, Update DEF z, SqBecomes
<1>3. \A m \in Nodes, k \in Classes : sq'[m][k].q \in Seq(NetFrom(m, k))
  BY <1>1, <1>2 DEF TypeOK, SqOK
<1> QED BY <1>2, <1>3, SameSets DEF SqSame, SqOK, Z, z

(* Another queue or semaphore of an input port of the network.             *)
LEMMA SetIport ==
  ASSUME TypeOK, traffic' = traffic, NEW n \in Nodes, NEW c \in Classes,
         NEW v \in Seq(NetFrom(n, c)), NEW w \in Nat,
         IportBecomes(n, c, v, w)
  PROVE  IportOK' /\ iport'[n][c] = [queue |-> v, portrdy |-> w]
         /\ IportSame(n, c)
<1> DEFINE Z == [queue : Queues, portrdy : Nat]
           z == [queue |-> v, portrdy |-> w]
<1>1. z \in Z /\ z.queue = v /\ iport \in [Nodes -> [Classes -> Z]]
  BY OfMessages, SeqOfMessages DEF TypeOK, IportOK
<1> HIDE DEF Z, z
<1>2. iport' \in [Nodes -> [Classes -> Z]] /\ iport'[n][c] = z
      /\ \A m \in Nodes, k \in Classes : m # n \/ k # c => iport'[m][k] = iport[m][k]
  BY <1>1, Update DEF z, IportBecomes
<1>3. \A m \in Nodes, k \in Classes : iport'[m][k].queue \in Seq(NetFrom(m, k))
  BY <1>1, <1>2 DEF TypeOK, IportOK
<1> QED BY <1>2, <1>3, SameSets DEF IportSame, IportOK, Z, z

(* Another queue in an output port of the network.                         *)
LEMMA SetOport ==
  ASSUME TypeOK, traffic' = traffic, NEW n \in Nodes, NEW c \in Classes,
         NEW v \in Seq(NetTo(n, c)), oport' = [oport EXCEPT ![n][c] = v]
  PROVE  OportOK' /\ oport'[n][c] = v
         /\ OportSame(n, c)
<1>1. v \in Queues /\ oport \in [Nodes -> [Classes -> Queues]]
  BY OfMessages, SeqOfMessages DEF TypeOK, OportOK
<1>2. oport' \in [Nodes -> [Classes -> Queues]] /\ oport'[n][c] = v
      /\ \A m \in Nodes, k \in Classes : m # n \/ k # c => oport'[m][k] = oport[m][k]
  BY <1>1, Update
<1>3. \A m \in Nodes, k \in Classes : oport'[m][k] \in Seq(NetTo(m, k))
  BY <1>2 DEF TypeOK, OportOK
<1> QED BY <1>2, <1>3, SameSets DEF OportSame, OportOK

(* Another queue or state of an event that receives.                       *)
LEMMA SetRq ==
  ASSUME TypeOK, traffic' = traffic, NEW n \in Nodes, NEW c \in Classes,
         NEW v \in Seq(NetTo(n, c)), NEW w \in {"waiting", "run", "stuck"},
         RqBecomes(n, c, v, w)
  PROVE  RqOK' /\ rq'[n][c] = [q |-> v, ev |-> w]
         /\ RqSame(n, c)
<1> DEFINE Z == [q : Queues, ev : {"waiting", "run", "stuck"}]
           z == [q |-> v, ev |-> w]
<1>1. z \in Z /\ z.q = v /\ rq \in [Nodes -> [Classes -> Z]]
  BY OfMessages, SeqOfMessages DEF TypeOK, RqOK
<1> HIDE DEF Z, z
<1>2. rq' \in [Nodes -> [Classes -> Z]] /\ rq'[n][c] = z
      /\ \A m \in Nodes, k \in Classes : m # n \/ k # c => rq'[m][k] = rq[m][k]
  BY <1>1, Update DEF z, RqBecomes
<1>3. \A m \in Nodes, k \in Classes : rq'[m][k].q \in Seq(NetTo(m, k))
  BY <1>1, <1>2 DEF TypeOK, RqOK
<1> QED BY <1>2, <1>3, SameSets DEF RqSame, RqOK, Z, z

(* A field of an event that is assigned is a record that is assigned.      *)
LEMMA EventFields ==
  ASSUME TypeOK, NEW n \in Nodes, NEW c \in Classes, NEW w
  PROVE  /\ SqEv(n, c, w) => SqBecomes(n, c, sq[n][c].q, w)
         /\ RqEv(n, c, w) => RqBecomes(n, c, rq[n][c].q, w)
         /\ RqQueue(n, c, w) => RqBecomes(n, c, w, rq[n][c].ev)
         /\ Portrdy(n, c, w) => IportBecomes(n, c, iport[n][c].queue, w)
         /\ PortQueue(n, c, w) => IportBecomes(n, c, w, iport[n][c].portrdy)
<1>1. /\ sq[n][c] \in [q : Queues, ev : {"idle", "start", "ready", "waiting"}]
      /\ rq[n][c] \in [q : Queues, ev : {"waiting", "run", "stuck"}]
      /\ iport[n][c] \in [queue : Queues, portrdy : Nat]
  BY DEF TypeOK, SqOK, RqOK, IportOK
<1>2. /\ [sq[n][c] EXCEPT !.ev = w] = [q |-> sq[n][c].q, ev |-> w]
      /\ [rq[n][c] EXCEPT !.ev = w] = [q |-> rq[n][c].q, ev |-> w]
      /\ [rq[n][c] EXCEPT !.q = w] = [q |-> w, ev |-> rq[n][c].ev]
      /\ [iport[n][c] EXCEPT !.portrdy = w] = [queue |-> iport[n][c].queue, portrdy |-> w]
      /\ [iport[n][c] EXCEPT !.queue = w] = [queue |-> w, portrdy |-> iport[n][c].portrdy]
  BY <1>1
<1>3. SqEv(n, c, w) => SqBecomes(n, c, sq[n][c].q, w)
  BY <1>2 DEF TypeOK, SqOK, SqEv, SqBecomes
<1>4. RqEv(n, c, w) => RqBecomes(n, c, rq[n][c].q, w)
  BY <1>2 DEF TypeOK, RqOK, RqEv, RqBecomes
<1>5. RqQueue(n, c, w) => RqBecomes(n, c, w, rq[n][c].ev)
  BY <1>2 DEF TypeOK, RqOK, RqQueue, RqBecomes
<1>6. Portrdy(n, c, w) => IportBecomes(n, c, iport[n][c].queue, w)
  BY <1>2 DEF TypeOK, IportOK, Portrdy, IportBecomes
<1>7. PortQueue(n, c, w) => IportBecomes(n, c, w, iport[n][c].portrdy)
  BY <1>2 DEF TypeOK, IportOK, PortQueue, IportBecomes
<1> QED BY <1>3, <1>4, <1>5, <1>6, <1>7

(* Whatever wakes the bus leaves what it carries alone.                    *)
LEMMA BusWoken ==
  ASSUME TypeOK, traffic' = traffic, NEW n \in Nodes, bus' = [bus EXCEPT ![n] = WakeBus(@)]
  PROVE  /\ BusOK' /\ bus'[n].state # "asleep" /\ \A m \in Nodes : m # n => bus'[m] = bus[m]
         /\ \A m \in Nodes, k \in InPorts : Carried(m, k)' = Carried(m, k)
<1> DEFINE Z == [state : {"asleep", "start", "deliver"}, req : Msg \cup {None}, port : 0..7, next : 0..7]
           w == WakeBus(bus[n])
<1>1. bus \in [Nodes -> Z] /\ bus[n] \in Z
  BY DEF TypeOK, BusOK
<1>2. w \in Z /\ w.state # "asleep" /\ (w.state = "deliver" <=> bus[n].state = "deliver")
      /\ w.req = bus[n].req /\ w.port = bus[n].port
  BY <1>1 DEF WakeBus
<1> HIDE DEF Z, w
<1>3. bus' \in [Nodes -> Z] /\ bus'[n] = w /\ \A m \in Nodes : m # n => bus'[m] = bus[m]
  BY <1>1, <1>2 DEF w
<1>4. \A m \in Nodes : bus'[m].state = "deliver" =>
        bus'[m].port \in InPorts /\ bus'[m].req \in AtBus(m, bus'[m].port)
  BY <1>2, <1>3 DEF TypeOK, BusOK
<1>5. BusOK'
  BY <1>3, <1>4, SameSets DEF BusOK, Z
<1> QED BY <1>2, <1>3, <1>5 DEF Carried

(* The messages as they are sent have their type.                          *)
LEMMA PutTyped ==
  ASSUME TypeOK, NEW n \in Nodes, NEW p \in Sources, Put(n, p)
  PROVE  /\ TypeOK'
         /\ LET m == Message(n, p, todo[n][p] + 1)
            IN  m \in Msg /\ m.at = <<n, p>> /\ m.i = todo[n][p] + 1 /\ in'[n][p] = Append(in[n][p], m)
         /\ InSame(n, p)
         /\ bus'[n].state # "asleep" /\ \A k \in Nodes : k # n => bus'[k] = bus[k]
         /\ \A k \in Nodes, j \in InPorts : Carried(k, j)' = Carried(k, j)
         /\ todo'[n][p] = todo[n][p] + 1
         /\ \A k \in Nodes, j \in Sources : k # n \/ j # p => todo'[k][j] = todo[k][j]
<1> DEFINE t == todo[n][p] + 1
           m == Message(n, p, t)
<1>1. /\ todo[n][p] < Len(traffic[<<n, p>>]) /\ in' = [in EXCEPT ![n][p] = Append(@, m)]
      /\ todo' = [todo EXCEPT ![n][p] = @ + 1] /\ bus' = [bus EXCEPT ![n] = WakeBus(@)]
      /\ UNCHANGED <<traffic, out, send, sq, iport, oport, rq, got>>
  BY DEF Put
<1>2. todo \in [Nodes -> [Sources -> Nat]] /\ in \in [Nodes -> [InPorts -> Queues]]
      /\ in[n][p] \in Seq(AtBus(n, p)) /\ p \in InPorts
  BY DEF TypeOK, InOK, InPorts
<1>3. t \in DOMAIN traffic[<<n, p>>] /\ t \in Nat
  <2>1. todo[n][p] \in Nat
    BY <1>2
  <2>2. Len(traffic[<<n, p>>]) \in Nat /\ DOMAIN traffic[<<n, p>>] = 1..Len(traffic[<<n, p>>])
    <3> DEFINE S == Seq([type : Types, to : Nodes])
    <3>1. traffic \in [Nodes \X Sources -> S]
      BY CasesAssumption DEF TypeOK
    <3>2. traffic[<<n, p>>] \in S
      BY <3>1
    <3> QED BY <3>2
  <2> QED BY <1>1, <2>1, <2>2
<1>4. traffic[<<n, p>>][t] \in [type : Types, to : Nodes]
  <2> DEFINE E == [type : Types, to : Nodes]
  <2> HIDE DEF E
  <2>1. traffic \in [Nodes \X Sources -> Seq(E)]
    BY CasesAssumption DEF TypeOK, E
  <2>2. traffic[<<n, p>>] \in Seq(E)
    BY <2>1
  <2>3. traffic[<<n, p>>][t] \in E
    BY <1>3, <2>2
  <2> QED BY <2>3 DEF E
<1>5. m \in Msg /\ m.at = <<n, p>> /\ m.i = t
  BY <1>3, <1>4 DEF Message, Msg
<1>6. m \in AtBus(n, p)
  BY <1>3, <1>5 DEF AtBus, Fresh, Known
<1> HIDE DEF m, t
<1>7. Append(in[n][p], m) \in Seq(AtBus(n, p))
  BY <1>2, <1>6
<1>8. in' = [in EXCEPT ![n][p] = Append(in[n][p], m)]
  BY <1>1, <1>2
<1>9. InOK' /\ in'[n][p] = Append(in[n][p], m)
      /\ InSame(n, p)
  <2> DEFINE v == Append(in[n][p], m)
  <2>1. v \in Seq(AtBus(n, p)) /\ in' = [in EXCEPT ![n][p] = v] /\ traffic' = traffic
    BY <1>1, <1>7, <1>8
  <2> HIDE DEF v
  <2>2. InOK' /\ in'[n][p] = v
        /\ InSame(n, p)
    BY <1>2, <2>1, SetIn
  <2> QED BY <2>2 DEF v
<1>10. BusOK' /\ bus'[n].state # "asleep" /\ (\A k \in Nodes : k # n => bus'[k] = bus[k])
       /\ \A k \in Nodes, j \in InPorts : Carried(k, j)' = Carried(k, j)
  BY <1>1, BusWoken
<1>11. todo' \in [Nodes -> [Sources -> Nat]] /\ todo'[n][p] = t
       /\ \A k \in Nodes, j \in Sources : k # n \/ j # p => todo'[k][j] = todo[k][j]
  BY <1>1, <1>2 DEF t
<1>12. TypeOK'
  BY <1>1, <1>9, <1>10, <1>11, SameParts DEF TypeOK
<1> QED BY <1>5, <1>9, <1>10, <1>11, <1>12 DEF m, t

(* A module takes what is for it.                                          *)
LEMMA TakeTyped ==
  ASSUME TypeOK, NEW n \in Nodes, NEW s \in Sinks, Take(n, s)
  PROVE  /\ TypeOK' /\ out[n][s] # <<>> /\ out'[n][s] = Tail(out[n][s])
         /\ got'[n][s] = Append(got[n][s], Head(out[n][s]))
         /\ OutSame(n, s)
         /\ GotSame(n, s)
<1> DEFINE m == Head(out[n][s])
<1>1. /\ out[n][s] # <<>> /\ got' = [got EXCEPT ![n][s] = Append(@, m)]
      /\ out' = [out EXCEPT ![n][s] = Tail(@)]
      /\ UNCHANGED <<traffic, in, bus, send, sq, iport, oport, rq, todo>>
  BY DEF Take
<1>2. out \in [Nodes -> [OutPorts -> Queues]] /\ out[n][s] \in Seq(There(n, s))
      /\ got \in [Nodes -> [Sinks -> Queues]] /\ got[n][s] \in Seq(There(n, s)) /\ s \in OutPorts
      /\ PastBus(n, s) = There(n, s)
  BY DEF TypeOK, OutOK, GotOK, OutPorts, PastBus
<1>3. m \in There(n, s) /\ Tail(out[n][s]) \in Seq(There(n, s))
  BY <1>1, <1>2
<1> HIDE DEF m
<1>4. OutOK' /\ out'[n][s] = Tail(out[n][s])
      /\ OutSame(n, s)
  <2>1. out' = [out EXCEPT ![n][s] = Tail(out[n][s])]
    BY <1>1, <1>2
  <2> QED BY <1>1, <1>2, <1>3, <2>1, SetOut
<1>5. Append(got[n][s], m) \in Seq(There(n, s)) /\ Append(got[n][s], m) \in Queues
  <2>1. Append(got[n][s], m) \in Seq(There(n, s))
    BY <1>2, <1>3, QueueOf
  <2> QED BY <2>1, OfMessages, SeqOfMessages
<1>6. got' \in [Nodes -> [Sinks -> Queues]] /\ got'[n][s] = Append(got[n][s], m)
      /\ GotSame(n, s)
  BY <1>1, <1>2, <1>5, Update DEF GotSame
<1>7. GotOK'
  <2>1. \A k \in Nodes, j \in Sinks : got'[k][j] \in Seq(There(k, j))
    BY <1>5, <1>6 DEF TypeOK, GotOK, GotSame
  <2> QED BY <1>1, <1>6, <2>1, SameSets DEF GotOK
<1>8. TypeOK'
  BY <1>1, <1>4, <1>7, SameParts DEF TypeOK
<1> QED BY <1>1, <1>4, <1>6, <1>8 DEF m
-----------------------------------------------------------------------------
(* The conjuncts of Awake: the bus, SmnetSend, and the events of a class.  *)
BusAwake(n) == bus[n].state = "asleep" => \A p \in InPorts : in[n][p] = <<>>
SendAwake(n) == send[n].state = "asleep" => out[n][2] = <<>> /\ out[n][3] = <<>>
SqAwake(n, c) ==
  /\ sq[n][c].ev = "idle" => sq[n][c].q = <<>>
  /\ iport[n][c].portrdy + Len(iport[n][c].queue) + (IF sq[n][c].ev = "ready" THEN 1 ELSE 0) = NetPort
  /\ sq[n][c].ev = "waiting" => iport[n][c].portrdy = 0
RqAwake(n, c) ==
  /\ rq[n][c].ev = "waiting" => oport[n][c] = <<>>
  /\ rq[n][c].ev = "stuck" => Len(rq[n][c].q) = QSize
  /\ rq[n][c].q # <<>> => Len(in[n][RcvPort(c)]) = NetPort

(* Awake is these conjuncts for every node and class.                      *)
LEMMA AwakeParts ==
  /\ Awake <=> \A n \in Nodes : /\ BusAwake(n) /\ SendAwake(n)
                                /\ \A c \in Classes : SqAwake(n, c) /\ RqAwake(n, c)
  /\ Awake' <=> \A n \in Nodes : /\ BusAwake(n)' /\ SendAwake(n)'
                                 /\ \A c \in Classes : SqAwake(n, c)' /\ RqAwake(n, c)'
  BY DEF Awake, BusAwake, SendAwake, SqAwake, RqAwake

(* The event that sends: a place of the input port that it holds is free.  *)
LEMMA SendSemaWaitTyped ==
  ASSUME TypeOK, NEW n \in Nodes, NEW c \in Classes, SqAwake(n, c), SendSemaWait(n, c)
  PROVE  /\ TypeOK' /\ SqAwake(n, c)'
         /\ \/ sq'[n][c].q = sq[n][c].q /\ iport'[n][c].queue = iport[n][c].queue
            \/ /\ sq[n][c].q # <<>> /\ sq'[n][c].q = Tail(sq[n][c].q)
               /\ iport'[n][c].queue = Append(iport[n][c].queue, Head(sq[n][c].q))
         /\ SqSame(n, c) /\ IportSame(n, c)
<1> DEFINE q == sq[n][c].q
           i == iport[n][c].queue
           r == iport[n][c].portrdy
           Q == Seq(NetFrom(n, c))
<1>1. /\ q \in Q /\ i \in Q /\ r \in Nat /\ NetPort \in Nat \ {0}
      /\ iport[n][c] = [queue |-> i, portrdy |-> r]
      /\ sq[n][c].ev \in {"idle", "start", "ready", "waiting"}
  BY PortsAssumption DEF TypeOK, SqOK, IportOK
<1>2. UNCHANGED <<traffic, in, out, bus, send, oport, rq, todo, got>>
  BY DEF SendSemaWait
<1>3. r + Len(i) + (IF sq[n][c].ev = "ready" THEN 1 ELSE 0) = NetPort /\ Len(i) \in Nat
  BY <1>1 DEF SqAwake
<1>4. ASSUME NEW v \in Q, NEW w \in {"idle", "start", "ready", "waiting"}, NEW x \in Q, NEW y \in Nat,
             SqBecomes(n, c, v, w), IportBecomes(n, c, x, y),
             \/ v = q /\ x = i
             \/ q # <<>> /\ v = Tail(q) /\ x = Append(i, Head(q)),
             w = "idle" => v = <<>>, w = "waiting" => y = 0,
             y + Len(x) + (IF w = "ready" THEN 1 ELSE 0) = NetPort
      PROVE  /\ TypeOK' /\ SqAwake(n, c)'
             /\ \/ sq'[n][c].q = q /\ iport'[n][c].queue = i
                \/ /\ q # <<>> /\ sq'[n][c].q = Tail(q) /\ iport'[n][c].queue = Append(i, Head(q))
             /\ SqSame(n, c) /\ IportSame(n, c)
  <2>1. SqOK' /\ sq'[n][c] = [q |-> v, ev |-> w]
        /\ SqSame(n, c)
    BY <1>2, <1>4, SetSq
  <2>2. IportOK' /\ iport'[n][c] = [queue |-> x, portrdy |-> y]
        /\ IportSame(n, c)
    BY <1>2, <1>4, SetIport
  <2>3. TypeOK'
    BY <1>2, <2>1, <2>2, SameParts DEF TypeOK
  <2>4. SqAwake(n, c)'
    BY <1>4, <2>1, <2>2 DEF SqAwake
  <2>5. \/ sq'[n][c].q = q /\ iport'[n][c].queue = i
        \/ /\ q # <<>> /\ sq'[n][c].q = Tail(q) /\ iport'[n][c].queue = Append(i, Head(q))
    <3>1. sq'[n][c].q = v /\ iport'[n][c].queue = x
      BY <2>1, <2>2
    <3> HIDE DEF q, i
    <3> QED BY <1>4, <3>1
  <2> QED BY <2>1, <2>2, <2>3, <2>4, <2>5
<1>5. CASE sq[n][c].ev = "start" /\ r > 0
  <2>1. SqEv(n, c, "ready") /\ Portrdy(n, c, r - 1)
    BY <1>5 DEF SendSemaWait, SqEv, Portrdy, TypeOK, IportOK
  <2>2. SqBecomes(n, c, q, "ready") /\ IportBecomes(n, c, i, r - 1)
    BY <2>1, EventFields
  <2> HIDE DEF i, r, Q
  <2>3. r - 1 \in Nat /\ r - 1 + Len(i) + 1 = NetPort
    BY <1>1, <1>3, <1>5
  <2> QED BY <1>1, <1>4, <2>2, <2>3
<1>6. CASE sq[n][c].ev = "start" /\ r = 0
  <2>1. SqEv(n, c, "waiting") /\ iport' = iport
    BY <1>6 DEF SendSemaWait, SqEv
  <2>2. SqBecomes(n, c, q, "waiting")
    BY <2>1, EventFields
  <2>3. IportBecomes(n, c, i, r)
    BY <1>1, <2>1 DEF IportBecomes, TypeOK, IportOK
  <2> HIDE DEF i, r, Q
  <2>4. r + Len(i) + 0 = NetPort
    BY <1>3, <1>6
  <2> QED BY <1>1, <1>4, <1>6, <2>2, <2>3, <2>4
<1>7. CASE sq[n][c].ev = "ready" /\ q # <<>>
  <2>1. Len(i) < NetPort
    BY <1>1, <1>3, <1>7
  <2>2. SqBecomes(n, c, Tail(q), "start")
    BY <1>7, <2>1 DEF SendSemaWait, TypeOK, SqOK, SqBecomes
  <2>3. PortQueue(n, c, Append(i, Head(q)))
    BY <1>7 DEF SendSemaWait, TypeOK, IportOK, PortQueue
  <2>4. IportBecomes(n, c, Append(i, Head(q)), r)
    BY <2>3, EventFields
  <2>5. Tail(q) \in Q /\ Append(i, Head(q)) \in Q /\ Len(Append(i, Head(q))) = Len(i) + 1
    BY <1>1, <1>7
  <2> HIDE DEF i, r, Q
  <2>6. r + (Len(i) + 1) + 0 = NetPort
    BY <1>1, <1>3, <1>7
  <2>7. r + Len(Append(i, Head(q))) + 0 = NetPort
    BY <2>5, <2>6
  <2> DEFINE v == Tail(q)
             x == Append(i, Head(q))
  <2>8. /\ v \in Q /\ x \in Q /\ SqBecomes(n, c, v, "start") /\ IportBecomes(n, c, x, r)
        /\ q # <<>> /\ v = Tail(q) /\ x = Append(i, Head(q)) /\ r + Len(x) + 0 = NetPort
    BY <1>7, <2>2, <2>4, <2>5, <2>7
  <2> HIDE DEF v, x
  <2>9. (v = q /\ x = i) \/ (q # <<>> /\ v = Tail(q) /\ x = Append(i, Head(q)))
    BY <2>8
  <2>10. "start" \in {"idle", "start", "ready", "waiting"}
         /\ r + Len(x) + (IF "start" = "ready" THEN 1 ELSE 0) = NetPort
    BY <2>8
  <2> HIDE DEF q
  <2> QED BY Zenon, <1>1, <1>4, <2>8, <2>9, <2>10 DEF i, q
<1>8. CASE sq[n][c].ev = "ready" /\ q = <<>>
  <2>1. SqEv(n, c, "idle") /\ Portrdy(n, c, r + 1)
    BY <1>8 DEF SendSemaWait, SqEv, Portrdy, TypeOK, IportOK
  <2>2. SqBecomes(n, c, q, "idle") /\ IportBecomes(n, c, i, r + 1)
    BY <2>1, EventFields
  <2> HIDE DEF i, r, Q
  <2>3. r + 1 \in Nat /\ r + 1 + Len(i) + 0 = NetPort
    BY <1>1, <1>3, <1>8
  <2> QED BY <1>1, <1>4, <1>8, <2>2, <2>3
<1> QED BY Zenon, <1>5, <1>6, <1>7, <1>8 DEF SendSemaWait

(* The network: a packet that leaves frees a place, or gives it to the     *)
(* event that waits for one, and wakes the event that receives.            *)
LEMMA TravelTyped ==
  ASSUME TypeOK, NEW n \in Nodes, NEW c \in Classes, NEW k, SqAwake(n, c), Travel(n, c, k)
  PROVE  \E f \in Queues, d \in Nodes :
           /\ f = iport[n][c].queue /\ k \in DOMAIN f /\ d = f[k].dest
           /\ TypeOK' /\ SqAwake(n, c)' /\ f[k] \in NetFrom(n, c) /\ f[k] \in NetTo(d, c)
           /\ \A j \in 1..k - 1 : f[j].dest # d
           /\ RqAwake(d, c) => RqAwake(d, c)'
           /\ Cut(iport'[n][c].queue, f, k) /\ oport'[d][c] = Append(oport[d][c], f[k])
           /\ sq'[n][c].q = sq[n][c].q /\ rq'[d][c].q = rq[d][c].q
           /\ SqSame(n, c) /\ IportSame(n, c)
           /\ OportSame(d, c) /\ RqSame(d, c)
<1> DEFINE woken == sq[n][c].ev = "waiting"
           Q == Seq(NetFrom(n, c))
<1>1. PICK q \in Q, f \in Q, r \in Nat, e \in {"idle", "start", "ready", "waiting"} :
        q = sq[n][c].q /\ f = iport[n][c].queue /\ r = iport[n][c].portrdy /\ e = sq[n][c].ev
  <2>1. sq[n][c].q \in Q /\ iport[n][c].queue \in Q
    BY DEF TypeOK, SqOK, IportOK
  <2>2. iport[n][c].portrdy \in Nat /\ sq[n][c].ev \in {"idle", "start", "ready", "waiting"}
    BY DEF TypeOK, SqOK, IportOK
  <2> HIDE DEF Q
  <2> QED BY <2>1, <2>2
<1>2. UNCHANGED <<traffic, in, out, bus, send, todo, got>>
  BY Zenon DEF Travel
<1>3. k \in DOMAIN f /\ f[k] \in NetFrom(n, c) /\ \A j \in 1..k - 1 : f[j].dest # f[k].dest
  <2>1. k \in DOMAIN f /\ \A j \in 1..k - 1 : f[j].dest # f[k].dest
    BY Zenon, <1>1 DEF Travel
  <2> QED BY <1>1, <2>1
<1>4. PICK d \in Nodes : d = f[k].dest /\ f[k] \in NetTo(d, c)
  BY <1>3, Brought
<1> DEFINE m == f[k]
<1>5. RemoveAt(f, k) \in Q /\ Cut(RemoveAt(f, k), f, k)
  BY <1>1, <1>3, RemoveAtCuts
<1>6. oport' = [oport EXCEPT ![d][c] = Append(@, m)]
  BY Zenon, <1>1, <1>4 DEF Travel
<1>7. OportOK' /\ oport'[d][c] = Append(oport[d][c], m)
      /\ OportSame(d, c)
  <2>1. oport[d][c] \in Seq(NetTo(d, c))
    BY <1>4 DEF TypeOK, OportOK
  <2>2. Append(oport[d][c], m) \in Seq(NetTo(d, c))
    BY <1>4, <2>1, QueueOf
  <2>3. PICK v \in Seq(NetTo(d, c)) : v = Append(oport[d][c], m)
    BY <2>2
  <2>4. oport' = [oport EXCEPT ![d][c] = v]
    BY <1>4, <1>6, <2>3 DEF TypeOK, OportOK
  <2> QED BY <1>2, <2>3, <2>4, SetOport
<1>8. PICK o \in Seq(NetTo(d, c)), v \in {"waiting", "run", "stuck"} :
        o = rq[d][c].q /\ v = IF rq[d][c].ev = "waiting" THEN "run" ELSE rq[d][c].ev
  BY DEF TypeOK, RqOK
<1>9. RqOK' /\ rq'[d][c] = [q |-> o, ev |-> v]
      /\ RqSame(d, c)
  <2>1. RqEv(d, c, v)
    BY Zenon, <1>1, <1>4, <1>8 DEF Travel, RqEv, TypeOK, RqOK
  <2>2. RqBecomes(d, c, o, v)
    BY <1>8, <2>1, EventFields DEF RqBecomes
  <2> QED BY Zenon, <1>2, <2>2, SetRq
<1>10. PICK w \in {"idle", "start", "ready", "waiting"} : w = IF woken THEN "ready" ELSE e
  BY <1>1
<1>11. PICK y \in Nat : y = r + (IF woken THEN 0 ELSE 1)
  BY <1>1
<1>12. SqBecomes(n, c, q, w)
  <2>1. CASE woken
    <3>1. SqEv(n, c, w)
      BY Zenon, <1>10, <2>1 DEF Travel, SqEv
    <3> QED BY <1>1, <3>1, EventFields DEF SqBecomes
  <2>2. CASE ~woken
    <3>1. sq[n][c] \in [q : Queues, ev : {"idle", "start", "ready", "waiting"}]
      BY DEF TypeOK, SqOK
    <3>2. sq' = sq /\ sq[n][c] = [q |-> q, ev |-> w]
      BY Zenon, <1>1, <1>10, <2>2, <3>1 DEF Travel
    <3> QED BY <3>2 DEF SqBecomes, TypeOK, SqOK
  <2> QED BY <2>1, <2>2
<1>13. IportBecomes(n, c, RemoveAt(f, k), y)
  BY Zenon, <1>1, <1>11 DEF Travel, IportBecomes, TypeOK, IportOK
<1>14. SqOK' /\ sq'[n][c] = [q |-> q, ev |-> w]
       /\ SqSame(n, c)
  BY <1>1, <1>2, <1>12, SetSq
<1>15. IportOK' /\ iport'[n][c] = [queue |-> RemoveAt(f, k), portrdy |-> y]
       /\ IportSame(n, c)
  BY <1>2, <1>5, <1>13, SetIport
<1>16. TypeOK'
  BY <1>2, <1>7, <1>9, <1>14, <1>15, SameParts DEF TypeOK
<1>17. SqAwake(n, c)'
  <2>1. sq'[n][c].q = q /\ sq'[n][c].ev = w /\ iport'[n][c].portrdy = y
        /\ Len(iport'[n][c].queue) = Len(f) - 1 /\ Len(f) \in Nat /\ NetPort \in Nat
    BY <1>1, <1>5, <1>14, <1>15, PortsAssumption DEF Cut
  <2>2. /\ e = "idle" => q = <<>>
        /\ r + Len(f) + (IF e = "ready" THEN 1 ELSE 0) = NetPort
        /\ woken => r = 0
    BY <1>1 DEF SqAwake
  <2>3. CASE woken
    <3>1. w = "ready" /\ e = "waiting"
      BY <1>1, <1>10, <2>3
    <3>2. r = 0 /\ y = 0
      BY <1>11, <2>2, <2>3
    <3>3. Len(f) = NetPort
      BY <2>1, <2>2, <3>1, <3>2
    <3> HIDE DEF woken
    <3> QED BY <2>1, <3>1, <3>2, <3>3 DEF SqAwake
  <2>4. CASE ~woken
    <3>1. w = e /\ w # "waiting"
      BY <1>1, <1>10, <2>4
    <3>2. y = r + 1
      BY <1>11, <2>4
    <3>3. y + (Len(f) - 1) + (IF w = "ready" THEN 1 ELSE 0) = NetPort
      BY <2>1, <2>2, <3>1, <3>2
    <3> HIDE DEF woken
    <3> QED BY <2>1, <2>2, <3>1, <3>3 DEF SqAwake
  <2> QED BY <2>3, <2>4
<1>18. RqAwake(d, c) => RqAwake(d, c)'
  <2>1. rq'[d][c].q = rq[d][c].q /\ rq'[d][c].ev # "waiting"
        /\ (rq'[d][c].ev = "stuck" => rq[d][c].ev = "stuck") /\ in' = in
    BY <1>2, <1>8, <1>9
  <2> QED BY <2>1 DEF RqAwake
<1>19. /\ Cut(iport'[n][c].queue, f, k) /\ sq'[n][c].q = sq[n][c].q /\ rq'[d][c].q = rq[d][c].q
       /\ f \in Queues
  BY <1>1, <1>5, <1>8, <1>9, <1>14, <1>15, OfMessages, SeqOfMessages
<1> QED BY Zenon, <1>1, <1>3, <1>4, <1>7, <1>9, <1>14, <1>15, <1>16, <1>17, <1>18, <1>19

(* The event that receives: it puts a message into the bus's port or, when *)
(* that is full, behind what SmnetRcv holds already.                       *)
LEMMA RcvSemaWaitTyped ==
  ASSUME TypeOK, NEW n \in Nodes, NEW c \in Classes, RqAwake(n, c), RcvSemaWait(n, c)
  PROVE  /\ TypeOK' /\ RqAwake(n, c)' /\ RqSame(n, c)
         /\ \A k \in Nodes, j \in InPorts : Carried(k, j)' = Carried(k, j)
         /\ \/ UNCHANGED <<in, bus, oport>> /\ rq'[n][c].q = rq[n][c].q
            \/ /\ oport[n][c] # <<>> /\ oport'[n][c] = Tail(oport[n][c]) /\ OportSame(n, c)
               /\ rq'[n][c].q = Append(rq[n][c].q, Head(oport[n][c])) /\ UNCHANGED <<in, bus>>
            \/ /\ oport[n][c] # <<>> /\ oport'[n][c] = Tail(oport[n][c]) /\ OportSame(n, c)
               /\ in'[n][RcvPort(c)] = AddReq(c, in[n][RcvPort(c)], Head(oport[n][c]))
               /\ InSame(n, RcvPort(c)) /\ rq' = rq /\ rq[n][c].q = <<>>
               /\ bus'[n].state # "asleep" /\ \A k \in Nodes : k # n => bus'[k] = bus[k]
<1> DEFINE Q == Seq(NetTo(n, c))
<1>1. PICK q \in Q, o \in Q, i \in Q, p \in InPorts :
        q = rq[n][c].q /\ o = oport[n][c] /\ i = in[n][p] /\ p = RcvPort(c) /\ p \notin Sources
        /\ AtBus(n, p) = NetTo(n, c)
  <2>1. rq[n][c].q \in Q /\ oport[n][c] \in Q
    BY DEF TypeOK, RqOK, OportOK
  <2>2. RcvPort(c) \in InPorts /\ RcvPort(c) \notin Sources /\ AtBus(n, RcvPort(c)) = NetTo(n, c)
    BY PortOfClass
  <2>3. in[n][RcvPort(c)] \in Q
    BY <2>2 DEF TypeOK, InOK
  <2> HIDE DEF Q
  <2> QED BY <2>1, <2>2, <2>3
<1>2. UNCHANGED <<traffic, out, send, sq, iport, todo, got>> /\ rq[n][c].ev = "run"
  BY DEF RcvSemaWait
<1>3. (q # <<>> => Len(i) = NetPort) /\ rq[n][c] = [q |-> q, ev |-> "run"]
  <2>1. rq[n][c] \in [q : Queues, ev : {"waiting", "run", "stuck"}]
    BY DEF TypeOK, RqOK
  <2> QED BY <1>1, <1>2, <2>1 DEF RqAwake
<1>4. bus' = bus => \A k \in Nodes, j \in InPorts : Carried(k, j)' = Carried(k, j)
  BY DEF Carried
<1>5. ASSUME NEW w \in {"waiting", "stuck"}, RqEv(n, c, w), UNCHANGED <<in, bus, oport>>,
             w = "waiting" => o = <<>>, w = "stuck" => Len(q) = QSize
      PROVE  TypeOK' /\ RqAwake(n, c)' /\ RqSame(n, c) /\ rq'[n][c].q = q
  <2>1. RqBecomes(n, c, q, w)
    BY <1>1, <1>5, EventFields DEF RqBecomes
  <2>2. RqOK' /\ rq'[n][c] = [q |-> q, ev |-> w] /\ RqSame(n, c)
    <3>1. w \in {"waiting", "run", "stuck"} /\ traffic' = traffic
      BY <1>2, <1>5
    <3> QED BY <2>1, <3>1, SetRq
  <2>3. TypeOK'
    BY <1>2, <1>5, <2>2, SameParts DEF TypeOK
  <2>4. RqAwake(n, c)'
    BY <1>1, <1>3, <1>5, <2>2 DEF RqAwake
  <2> QED BY <2>2, <2>3, <2>4
<1>6. CASE o = <<>>
  <2>1. RqEv(n, c, "waiting") /\ UNCHANGED <<in, bus, oport>>
    BY <1>1, <1>6 DEF RcvSemaWait, RqEv
  <2> QED BY <1>1, <1>4, <1>5, <1>6, <2>1
<1>7. CASE o # <<>> /\ Len(q) = QSize
  <2>1. RqEv(n, c, "stuck") /\ UNCHANGED <<in, bus, oport>>
    BY <1>1, <1>7 DEF RcvSemaWait, RqEv
  <2> QED BY <1>1, <1>4, <1>5, <1>7, <2>1
<1>8. CASE o # <<>> /\ Len(q) # QSize
  <2>1. PICK m \in NetTo(n, c) : m = Head(o)
    BY <1>8
  <2>2. oport' = [oport EXCEPT ![n][c] = Tail(o)] /\ Tail(o) \in Q
    BY <1>1, <1>8 DEF RcvSemaWait, TypeOK, OportOK
  <2>3. OportOK' /\ oport'[n][c] = Tail(o) /\ OportSame(n, c)
    <3>1. PICK v \in Q : v = Tail(o)
      BY <2>2
    <3> QED BY <1>2, <2>2, <3>1, SetOport
  <2>4. CASE Len(i) = NetPort
    <3>1. PICK v \in Q : v = Append(q, m)
      <4>1. Append(q, m) \in Q
        BY QueueOf
      <4> QED BY <4>1
    <3>2. rq' = [rq EXCEPT ![n][c].q = Append(@, m)] /\ UNCHANGED <<in, bus>>
      BY <1>1, <1>8, <2>1, <2>4 DEF RcvSemaWait
    <3>3. RqQueue(n, c, v)
      BY <1>1, <3>1, <3>2 DEF RqQueue, TypeOK, RqOK
    <3>4. RqBecomes(n, c, v, "run")
      BY <1>2, <3>3, EventFields DEF RqBecomes
    <3>5. RqOK' /\ rq'[n][c] = [q |-> v, ev |-> "run"] /\ RqSame(n, c)
      BY <1>2, <3>1, <3>4, SetRq
    <3>6. TypeOK'
      BY <1>2, <2>3, <3>2, <3>5, SameParts DEF TypeOK
    <3>7. RqAwake(n, c)'
      <4>1. rq'[n][c].ev = "run" /\ Len(in'[n][RcvPort(c)]) = NetPort
        BY <1>1, <2>4, <3>2, <3>5
      <4> QED BY <4>1 DEF RqAwake
    <3>8. rq'[n][c].q = Append(rq[n][c].q, Head(oport[n][c])) /\ oport[n][c] # <<>>
          /\ oport'[n][c] = Tail(oport[n][c])
      BY <1>1, <1>8, <2>1, <2>3, <3>1, <3>5
    <3> QED BY <1>4, <2>3, <3>2, <3>5, <3>6, <3>7, <3>8
  <2>5. CASE Len(i) # NetPort
    <3>1. PICK v \in Q : v = AddReq(c, i, m)
      <4>1. Append(i, m) \in Q /\ <<m>> \o i \in Q
        BY QueueOf
      <4> QED BY <4>1 DEF AddReq
    <3>2. /\ in' = [in EXCEPT ![n][p] = AddReq(c, @, m)] /\ bus' = [bus EXCEPT ![n] = WakeBus(@)]
          /\ rq' = rq
      BY <1>1, <1>8, <2>1, <2>5 DEF RcvSemaWait
    <3>3. in' = [in EXCEPT ![n][p] = v]
      BY <1>1, <3>1, <3>2 DEF TypeOK, InOK
    <3>4. InOK' /\ in'[n][p] = v /\ InSame(n, p)
      BY <1>1, <1>2, <3>1, <3>3, SetIn
    <3>5. BusOK' /\ bus'[n].state # "asleep" /\ (\A k \in Nodes : k # n => bus'[k] = bus[k])
          /\ \A k \in Nodes, j \in InPorts : Carried(k, j)' = Carried(k, j)
      BY <1>2, <3>2, BusWoken
    <3>6. TypeOK'
      BY <1>2, <2>3, <3>2, <3>4, <3>5, SameParts DEF TypeOK
    <3>7. q = <<>> /\ rq'[n][c] = [q |-> q, ev |-> "run"] /\ RqSame(n, c)
      BY <1>3, <2>5, <3>2 DEF RqSame
    <3>8. RqAwake(n, c)'
      <4>1. rq'[n][c].q = <<>> /\ rq'[n][c].ev = "run"
        BY <3>7
      <4> QED BY <4>1 DEF RqAwake
    <3>9. /\ in'[n][RcvPort(c)] = AddReq(c, in[n][RcvPort(c)], Head(oport[n][c]))
          /\ oport'[n][c] = Tail(oport[n][c]) /\ oport[n][c] # <<>> /\ rq[n][c].q = <<>>
          /\ InSame(n, RcvPort(c))
      BY <1>1, <1>8, <2>1, <2>3, <3>1, <3>4, <3>7
    <3> QED BY <2>3, <3>2, <3>5, <3>6, <3>7, <3>8, <3>9
  <2> QED BY <2>4, <2>5
<1> QED BY <1>6, <1>7, <1>8

(* The port that is looked at next is one of those that hold a message.    *)
LEMMA LeastOf ==
  ASSUME NEW S \in SUBSET (0..7), S # {} PROVE Min(S) \in S
<1> DEFINE R == OpToRel(<, Nat)
<1>1. \A x, y \in Nat : <<x, y>> \in R <=> x < y
  BY DEF OpToRel
<1>2. IsWellFoundedOn(R, Nat)
  BY NatLessThanWellFounded
<1>3. S \subseteq Nat
  OBVIOUS
<1> HIDE DEF R
<1>4. PICK x \in S : \A y \in S : <<y, x>> \notin R
  BY <1>2, <1>3, WFMin
<1>5. ASSUME NEW y \in S PROVE x <= y
  <2>1. x \in Nat /\ y \in Nat /\ <<y, x>> \notin R
    BY <1>3, <1>4
  <2>2. ~(y < x)
    BY <1>1, <2>1
  <2> QED BY <2>1, <2>2
<1> QED BY <1>5 DEF Min

(* SmnetSend sleeps only when both its ports are empty; what it moves is   *)
(* turned round and of the class of its queue.                             *)
LEMMA SmnetSendTyped ==
  ASSUME TypeOK, NEW n \in Nodes, \A c \in Classes : SqAwake(n, c), SmnetSend(n)
  PROVE  /\ TypeOK' /\ SendAwake(n)' /\ \A k \in Nodes : k # n => send'[k] = send[k]
         /\ \/ UNCHANGED <<out, sq>>
            \/ \E c \in Classes, m \in Msg :
                 /\ SqAwake(n, c)' /\ m \in Leaving(n, c)
                 /\ out[n][SendPort(c)] # <<>> /\ m = Head(out[n][SendPort(c)])
                 /\ out'[n][SendPort(c)] = Tail(out[n][SendPort(c)]) /\ OutSame(n, SendPort(c))
                 /\ sq'[n][c].q = Append(sq[n][c].q, Flipped(m)) /\ SqSame(n, c)
                 /\ Flipped(m) \in NetFrom(n, c)
<1> DEFINE W == {i \in 0..1 : out[n][2 + ((send[n].next + i) % 2)] # <<>>}
           idx == (send[n].next + Min(W)) % 2
<1>1. UNCHANGED <<traffic, in, bus, iport, oport, rq, todo, got>> /\ send[n].state = "awake"
  BY Zenon DEF SmnetSend
<1>2. send \in [Nodes -> [state : {"asleep", "awake"}, next : 0..1]] /\ send[n].next \in 0..1
      /\ send[n] \in [state : {"asleep", "awake"}, next : 0..1]
  BY DEF TypeOK
<1>3. CASE W = {}
  <2>1. send' = [send EXCEPT ![n].state = "asleep"] /\ UNCHANGED <<out, sq>>
    BY Zenon, <1>3 DEF SmnetSend
  <2>2. 0 \notin W /\ 1 \notin W
    BY <1>3
  <2>3. out[n][2] = <<>> /\ out[n][3] = <<>>
    BY <1>2, <2>2
  <2>4. send' \in [Nodes -> [state : {"asleep", "awake"}, next : 0..1]]
        /\ \A k \in Nodes : k # n => send'[k] = send[k]
    BY <1>2, <2>1
  <2>5. TypeOK'
    BY <1>1, <2>1, <2>4, SameParts DEF TypeOK
  <2> QED BY <2>1, <2>3, <2>4, <2>5 DEF SendAwake
<1>4. CASE W # {}
  <2>1. Min(W) \in W /\ Min(W) \in 0..1
    <3>1. W \in SUBSET (0..7) /\ W \subseteq 0..1
      OBVIOUS
    <3> HIDE DEF W
    <3> QED BY <1>4, <3>1, LeastOf
  <2>2. PICK j \in 0..1 : j = idx
    <3> HIDE DEF W
    <3>1. idx \in 0..1
      BY <1>2, <2>1
    <3> QED BY <3>1
  <2>3. out[n][2 + j] # <<>>
    BY Zenon, <2>1, <2>2
  <2>4. PICK c \in Classes : c = IF j = 0 THEN "req" ELSE "rep"
    BY DEF Classes
  <2>5. SendPort(c) = 2 + j /\ SendPort(c) \in OutPorts /\ PastBus(n, SendPort(c)) = Leaving(n, c)
    BY <2>2, <2>4, PortOfClass DEF SendPort
  <2>6. PICK u \in Seq(Leaving(n, c)) : u = out[n][SendPort(c)] /\ u # <<>>
    BY <2>3, <2>5 DEF TypeOK, OutOK
  <2>7. PICK m \in Leaving(n, c) : m = Head(u)
    BY <2>6
  <2>8. PICK f \in NetFrom(n, c) : f = Flipped(m) /\ Class(f) = c /\ f.src = n /\ f.dest # n
    BY <2>7, TurnedRound
  <2>9. f = Flipped(Head(out[n][2 + idx])) /\ out[n][2 + idx] = u
    BY Zenon, <2>2, <2>5, <2>6, <2>7, <2>8
  <2>10. \/ /\ Len(sq[n][c].q) = QSize /\ send' = [send EXCEPT ![n].next = (idx + 1) % 2]
            /\ UNCHANGED <<out, sq>>
         \/ /\ Len(sq[n][c].q) # QSize
            /\ send' = [send EXCEPT ![n] = [state |-> "awake", next |-> (idx + 1) % 2]]
            /\ out' = [out EXCEPT ![n][2 + idx] = Tail(@)]
            /\ sq' = [sq EXCEPT ![n][c] =
                       [q |-> Append(@.q, f),
                        ev |-> IF @.q = <<>> /\ @.ev = "idle" THEN "start" ELSE @.ev]]
    <3> DEFINE x == Flipped(Head(out[n][2 + idx]))
    <3>1. \/ /\ Len(sq[n][Class(x)].q) = QSize /\ send' = [send EXCEPT ![n].next = (idx + 1) % 2]
             /\ UNCHANGED <<out, sq>>
          \/ /\ Len(sq[n][Class(x)].q) # QSize
             /\ send' = [send EXCEPT ![n] = [state |-> IF x.src # n \/ x.src = x.dest
                                                       THEN "fatal" ELSE "awake",
                                             next |-> (idx + 1) % 2]]
             /\ out' = [out EXCEPT ![n][2 + idx] = Tail(@)]
             /\ sq' = [sq EXCEPT ![n][Class(x)] =
                        [q |-> Append(@.q, x),
                         ev |-> IF @.q = <<>> /\ @.ev = "idle" THEN "start" ELSE @.ev]]
      BY Zenon, <1>4 DEF SmnetSend
    <3>2. x = f /\ Class(x) = c /\ ~(x.src # n \/ x.src = x.dest)
      BY <2>8, <2>9
    <3> HIDE DEF x, idx
    <3> QED BY <3>1, <3>2
  <2>11. (idx + 1) % 2 \in 0..1
    BY <2>2
  <2> HIDE DEF W, idx
  <2>12. /\ send' \in [Nodes -> [state : {"asleep", "awake"}, next : 0..1]]
         /\ send'[n].state = "awake" /\ \A k \in Nodes : k # n => send'[k] = send[k]
    BY <1>1, <1>2, <2>10, <2>11
  <2>13. CASE UNCHANGED <<out, sq>>
    <3>1. TypeOK'
      BY SMTT(30), <1>1, <2>12, <2>13, SameParts DEF TypeOK
    <3> QED BY <2>12, <2>13, <3>1 DEF SendAwake
  <2>14. CASE ~UNCHANGED <<out, sq>>
    <3>1. PICK q \in Seq(NetFrom(n, c)), e \in {"idle", "start", "ready", "waiting"} :
            q = sq[n][c].q /\ e = sq[n][c].ev
      BY DEF TypeOK, SqOK
    <3>2. PICK v \in Seq(NetFrom(n, c)), w \in {"idle", "start", "ready", "waiting"} :
            v = Append(q, f) /\ w = IF q = <<>> /\ e = "idle" THEN "start" ELSE e
      <4>1. Append(q, f) \in Seq(NetFrom(n, c))
        BY QueueOf
      <4> QED BY <4>1
    <3>3. SqBecomes(n, c, v, w)
      BY <2>10, <2>14, <3>1, <3>2 DEF SqBecomes, TypeOK, SqOK
    <3>4. SqOK' /\ sq'[n][c] = [q |-> v, ev |-> w] /\ SqSame(n, c)
      BY <1>1, <3>2, <3>3, SetSq
    <3>5. PICK t \in Seq(Leaving(n, c)) : t = Tail(u)
      <4>1. Tail(u) \in Seq(Leaving(n, c))
        BY <2>6, QueueOf
      <4> QED BY <4>1
    <3>6. out' = [out EXCEPT ![n][SendPort(c)] = t]
      BY <2>2, <2>5, <2>6, <2>10, <2>14, <3>5 DEF TypeOK, OutOK
    <3>7. OutOK' /\ out'[n][SendPort(c)] = t /\ OutSame(n, SendPort(c))
      BY <1>1, <2>5, <3>5, <3>6, SetOut
    <3>8. TypeOK'
      BY <1>1, <2>12, <3>4, <3>7, SameParts DEF TypeOK
    <3>9. SqAwake(n, c)'
      <4>1. (e = "idle" => q = <<>>) /\ (e = "waiting" => iport[n][c].portrdy = 0)
            /\ iport[n][c].portrdy + Len(iport[n][c].queue) + (IF e = "ready" THEN 1 ELSE 0) = NetPort
        BY <3>1 DEF SqAwake
      <4>2. (w = "ready" <=> e = "ready") /\ (w = "waiting" => e = "waiting") /\ w # "idle"
        BY <3>2, <4>1
      <4>3. sq'[n][c].q = v /\ sq'[n][c].ev = w /\ iport' = iport
        BY <1>1, <3>4
      <4> QED BY <4>1, <4>2, <4>3 DEF SqAwake
    <3>10. m \in Msg
      BY OfMessages DEF Leaving
    <3>11. sq'[n][c].q = Append(sq[n][c].q, Flipped(m)) /\ out'[n][SendPort(c)] = Tail(out[n][SendPort(c)])
           /\ m = Head(out[n][SendPort(c)]) /\ out[n][SendPort(c)] # <<>>
      BY SMTT(30), <2>6, <2>7, <2>8, <3>1, <3>2, <3>4, <3>5, <3>7
    <3>12. SendAwake(n)'
      BY <2>12 DEF SendAwake
    <3> QED BY <2>8, <2>12, <3>4, <3>7, <3>8, <3>9, <3>10, <3>11, <3>12
  <2> QED BY <2>13, <2>14
<1> QED BY <1>3, <1>4

(* The bus delivers where routing_bus says, and wakes SmnetSend.           *)
LEMMA BusDeliverTyped ==
  ASSUME TypeOK, NEW n \in Nodes, SendAwake(n), BusDeliver(n)
  PROVE  /\ TypeOK' /\ SendAwake(n)' /\ bus[n].state = "deliver" /\ bus'[n].state = "start"
         /\ \A k \in Nodes : k # n => send'[k] = send[k] /\ bus'[k] = bus[k]
         /\ \E p \in InPorts, to \in OutPorts : \E m \in AtBus(n, p) :
              /\ bus[n].port = p /\ bus[n].req = m /\ m \in PastBus(n, to)
              /\ out'[n][to] = Append(out[n][to], m) /\ OutSame(n, to)
<1> DEFINE Z == [state : {"asleep", "start", "deliver"}, req : Msg \cup {None}, port : 0..7, next : 0..7]
<1>1. /\ UNCHANGED <<traffic, in, sq, iport, oport, rq, todo, got>> /\ bus[n].state = "deliver"
      /\ bus' = [bus EXCEPT ![n].state = "start", ![n].req = None]
  BY DEF BusDeliver
<1>2. PICK p \in InPorts, m \in Msg : p = bus[n].port /\ m = bus[n].req /\ m \in AtBus(n, p)
  BY <1>1, OfMessages DEF TypeOK, BusOK
<1>3. PICK to \in OutPorts : to = routing_bus(n, m, p) /\ m \in PastBus(n, to)
  BY <1>2, RoutingBus
<1>4. /\ out' = [out EXCEPT ![n][to] = Append(@, m)]
      /\ send' = IF to \in {2, 3} THEN [send EXCEPT ![n].state = "awake"] ELSE send
  BY <1>2, <1>3 DEF BusDeliver
<1>5. PICK v \in Seq(PastBus(n, to)) : v = Append(out[n][to], m)
  <2>1. out[n][to] \in Seq(PastBus(n, to))
    BY DEF TypeOK, OutOK
  <2>2. Append(out[n][to], m) \in Seq(PastBus(n, to))
    BY <1>3, <2>1, QueueOf
  <2> QED BY <2>2
<1>6. out' = [out EXCEPT ![n][to] = v]
  BY <1>4, <1>5 DEF TypeOK, OutOK
<1>7. OutOK' /\ out'[n][to] = v /\ OutSame(n, to)
  BY <1>1, <1>6, SetOut
<1>8. bus \in [Nodes -> Z]
  BY DEF TypeOK, BusOK
<1>9. bus' \in [Nodes -> Z] /\ bus'[n].state = "start" /\ \A k \in Nodes : k # n => bus'[k] = bus[k]
  BY <1>1, <1>8
<1>10. BusOK'
  <2>1. \A k \in Nodes : bus'[k].state = "deliver" =>
          bus'[k].port \in InPorts /\ bus'[k].req \in AtBus(k, bus'[k].port)
    BY <1>9 DEF TypeOK, BusOK
  <2> HIDE DEF Z
  <2> QED BY <1>1, <1>9, <2>1, SameSets DEF BusOK, Z
<1>11. /\ send' \in [Nodes -> [state : {"asleep", "awake"}, next : 0..1]]
       /\ \A k \in Nodes : k # n => send'[k] = send[k]
       /\ to \in {2, 3} => send'[n].state = "awake"
       /\ to \notin {2, 3} => send'[n] = send[n]
  <2>1. send \in [Nodes -> [state : {"asleep", "awake"}, next : 0..1]]
    BY DEF TypeOK
  <2>2. CASE to \in {2, 3}
    BY <1>4, <2>1, <2>2
  <2>3. CASE to \notin {2, 3}
    BY <1>4, <2>1, <2>3
  <2> QED BY <2>2, <2>3
<1>12. SendAwake(n)'
  <2>1. CASE to \in {2, 3}
    BY <1>11, <2>1 DEF SendAwake
  <2>2. CASE to \notin {2, 3}
    <3>1. out'[n][2] = out[n][2] /\ out'[n][3] = out[n][3]
      BY <1>7, <2>2 DEF OutSame, OutPorts
    <3> QED BY <1>11, <2>2, <3>1 DEF SendAwake
  <2> QED BY <2>1, <2>2
<1>13. TypeOK'
  BY <1>1, <1>7, <1>10, <1>11, SameParts DEF TypeOK
<1> HIDE DEF Z
<1> QED BY Zenon, <1>1, <1>2, <1>3, <1>5, <1>7, <1>9, <1>11, <1>12, <1>13

(* The handshake refills the port that a message left.                     *)
LEMMA HandshakeTyped ==
  ASSUME TypeOK, NEW n \in Nodes, NEW c \in Classes, RqAwake(n, c), Handshake(n, c),
         in[n][RcvPort(c)] # <<>>, traffic' = traffic, oport' = oport
  PROVE  /\ InOK' /\ RqOK' /\ RqAwake(n, c)' /\ InSame(n, RcvPort(c)) /\ RqSame(n, c)
         /\ \/ in'[n][RcvPort(c)] = Tail(in[n][RcvPort(c)]) /\ rq' = rq
            \/ /\ rq[n][c].q # <<>> /\ rq'[n][c].q = Tail(rq[n][c].q)
               /\ in'[n][RcvPort(c)] = AddReq(c, Tail(in[n][RcvPort(c)]), Head(rq[n][c].q))
<1> DEFINE Q == Seq(NetTo(n, c))
<1>1. PICK q \in Q, i \in Q, p \in InPorts, e \in {"waiting", "run", "stuck"} :
        q = rq[n][c].q /\ i = in[n][p] /\ p = RcvPort(c) /\ AtBus(n, p) = NetTo(n, c) /\ e = rq[n][c].ev
  <2>1. rq[n][c].q \in Q /\ rq[n][c].ev \in {"waiting", "run", "stuck"}
    BY DEF TypeOK, RqOK
  <2>2. RcvPort(c) \in InPorts /\ AtBus(n, RcvPort(c)) = NetTo(n, c)
    BY PortOfClass
  <2>3. in[n][RcvPort(c)] \in Q
    BY <2>2 DEF TypeOK, InOK
  <2> HIDE DEF Q
  <2> QED BY <2>1, <2>2, <2>3
<1>2. i # <<>> /\ Tail(i) \in Q /\ Len(i) \in Nat /\ Len(Tail(i)) = Len(i) - 1
  BY <1>1
<1>3. (e = "waiting" => oport[n][c] = <<>>) /\ (q # <<>> => Len(i) = NetPort)
  BY <1>1 DEF RqAwake
<1>4. CASE q = <<>>
  <2>1. in' = [in EXCEPT ![n][p] = Tail(i)] /\ rq' = rq
    BY <1>1, <1>4 DEF Handshake
  <2>2. PICK v \in Q : v = Tail(i)
    BY <1>2
  <2>3. InOK' /\ in'[n][p] = v /\ InSame(n, p)
    BY <1>1, <2>1, <2>2, SetIn
  <2>4. RqAwake(n, c)'
    BY <1>1, <1>4, <2>1 DEF RqAwake
  <2>5. RqOK' /\ RqSame(n, c)
    BY <2>1, SameParts DEF RqSame
  <2> QED BY <1>1, <2>1, <2>2, <2>3, <2>4, <2>5
<1>5. CASE q # <<>>
  <2>1. PICK m \in NetTo(n, c), t \in Q : m = Head(q) /\ t = Tail(q)
    <3>1. Head(q) \in NetTo(n, c) /\ Tail(q) \in Q
      BY <1>5, QueueOf
    <3> QED BY <3>1
  <2>2. PICK v \in Q : v = AddReq(c, Tail(i), m) /\ Len(v) = Len(i)
    <3>1. Append(Tail(i), m) \in Q /\ <<m>> \o Tail(i) \in Q
      BY <1>2, QueueOf
    <3>2. Len(Append(Tail(i), m)) = Len(i) /\ Len(<<m>> \o Tail(i)) = Len(i)
      BY <1>2
    <3> QED BY <3>1, <3>2 DEF AddReq
  <2>3. PICK w \in {"waiting", "run", "stuck"} : w = IF e = "stuck" THEN "run" ELSE e
    OBVIOUS
  <2>4. in' = [in EXCEPT ![n][p] = v] /\ rq' = [rq EXCEPT ![n][c] = [q |-> t, ev |-> w]]
    BY <1>1, <1>5, <2>1, <2>2, <2>3 DEF Handshake
  <2>5. InOK' /\ in'[n][p] = v /\ InSame(n, p)
    BY <1>1, <2>2, <2>4, SetIn
  <2>6. RqOK' /\ rq'[n][c] = [q |-> t, ev |-> w] /\ RqSame(n, c)
    <3>1. RqBecomes(n, c, t, w)
      BY <2>4 DEF RqBecomes
    <3> QED BY <2>1, <2>3, <3>1, SetRq
  <2>7. RqAwake(n, c)'
    <3>1. Len(in'[n][RcvPort(c)]) = NetPort /\ rq'[n][c].ev = w /\ oport'[n][c] = oport[n][c]
      BY <1>1, <1>3, <1>5, <2>2, <2>5, <2>6
    <3>2. w # "stuck" /\ (w = "waiting" => e = "waiting")
      BY <2>3
    <3> QED BY <1>3, <3>1, <3>2 DEF RqAwake
  <2>8. rq'[n][c].q = t
    BY <2>6
  <2> QED BY <1>1, <1>5, <2>1, <2>2, <2>5, <2>6, <2>7, <2>8
<1> QED BY <1>4, <1>5

(* Whatever port is next, the bus looks at every one.                      *)
LEMMA Rotation ==
  ASSUME NEW x \in 0..7
  PROVE  /\ \A i \in 0..7 : (x + i) % 8 \in 0..7
         /\ \A p \in 0..7 : \E i \in 0..7 : (x + i) % 8 = p
<1>1. \A i \in 0..7 : (x + i) % 8 \in 0..7
  OBVIOUS
<1>2. ASSUME NEW p \in 0..7 PROVE \E i \in 0..7 : (x + i) % 8 = p
  <2>1. CASE p >= x
    <3>1. p - x \in 0..7 /\ (x + (p - x)) % 8 = p
      BY <2>1
    <3> QED BY <3>1
  <2>2. CASE p < x
    <3>1. p - x + 8 \in 0..7 /\ (x + (p - x + 8)) % 8 = p
      BY <2>2
    <3> QED BY <3>1
  <2> QED BY <2>1, <2>2
<1> QED BY <1>1, <1>2

(* The bus sleeps only when its ports are empty, and takes the first       *)
(* message of the port that it serves.                                     *)
LEMMA BusStartTyped ==
  ASSUME TypeOK, NEW n \in Nodes, \A c \in Classes : RqAwake(n, c), BusStart(n)
  PROVE  /\ TypeOK' /\ BusAwake(n)' /\ (\A c \in Classes : RqAwake(n, c)')
         /\ bus[n].state = "start" /\ \A k \in Nodes : k # n => bus'[k] = bus[k]
         /\ \/ UNCHANGED <<in, rq>> /\ bus'[n].state # "deliver"
            \/ \E p \in InPorts, m \in Msg :
                 /\ in[n][p] # <<>> /\ m = Head(in[n][p]) /\ InSame(n, p)
                 /\ bus'[n].state = "deliver" /\ bus'[n].req = m /\ bus'[n].port = p
                 /\ \/ in'[n][p] = Tail(in[n][p]) /\ rq' = rq
                    \/ \E c \in Classes :
                         /\ p = RcvPort(c) /\ rq[n][c].q # <<>> /\ rq'[n][c].q = Tail(rq[n][c].q)
                         /\ in'[n][p] = AddReq(c, Tail(in[n][p]), Head(rq[n][c].q)) /\ RqSame(n, c)
<1> DEFINE Z == [state : {"asleep", "start", "deliver"}, req : Msg \cup {None}, port : 0..7, next : 0..7]
<1>1. UNCHANGED <<traffic, out, send, sq, iport, oport, todo, got>> /\ bus[n].state = "start"
  BY Zenon DEF BusStart
<1>2. bus \in [Nodes -> Z] /\ bus[n] \in Z
  BY DEF TypeOK, BusOK
<1>3. PICK x \in 0..7 : x = bus[n].next
  BY <1>2
<1> DEFINE W == {i \in 0 .. NumPorts - 1 : LET p == (bus[n].next + i) % NumPorts IN
                                            p \in InPorts /\ in[n][p] # <<>>}
<1>4. ASSUME NEW b \in Z, bus' = [bus EXCEPT ![n] = b],
             b.state = "deliver" => b.port \in InPorts /\ b.req \in AtBus(n, b.port)
      PROVE  BusOK' /\ bus'[n] = b /\ \A k \in Nodes : k # n => bus'[k] = bus[k]
  <2> HIDE DEF Z
  <2>1. bus' \in [Nodes -> Z] /\ bus'[n] = b /\ \A k \in Nodes : k # n => bus'[k] = bus[k]
    BY <1>2, <1>4
  <2>2. \A k \in Nodes : bus'[k].state = "deliver" =>
          bus'[k].port \in InPorts /\ bus'[k].req \in AtBus(k, bus'[k].port)
    BY <1>4, <2>1 DEF TypeOK, BusOK
  <2> QED BY <1>1, <2>1, <2>2, SameSets DEF BusOK, Z
<1>5. ASSUME NEW b \in Z, bus' = [bus EXCEPT ![n] = b], UNCHANGED <<in, rq>>, b.state # "deliver",
             b.state = "asleep" => \A p \in InPorts : in[n][p] = <<>>
      PROVE  /\ TypeOK' /\ BusAwake(n)' /\ (\A c \in Classes : RqAwake(n, c)')
             /\ bus'[n].state # "deliver" /\ \A k \in Nodes : k # n => bus'[k] = bus[k]
  <2>1. BusOK' /\ bus'[n] = b /\ \A k \in Nodes : k # n => bus'[k] = bus[k]
    <3> HIDE DEF Z
    <3> QED BY <1>4, <1>5
  <2>2. TypeOK'
    BY <1>1, <1>5, <2>1, SameParts DEF TypeOK
  <2> QED BY <1>1, <1>5, <2>1, <2>2 DEF BusAwake, RqAwake
<1>6. CASE W = {}
  <2>1. bus' = [bus EXCEPT ![n].state = "asleep"] /\ UNCHANGED <<in, rq>>
    BY Zenon, <1>6 DEF BusStart
  <2>2. PICK b \in Z : b = [bus[n] EXCEPT !.state = "asleep"] /\ b.state = "asleep"
    <3>1. [bus[n] EXCEPT !.state = "asleep"] \in Z /\ [bus[n] EXCEPT !.state = "asleep"].state = "asleep"
      BY <1>2
    <3> QED BY <3>1
  <2>3. bus' = [bus EXCEPT ![n] = b]
    BY <2>1, <2>2
  <2>4. \A p \in InPorts : in[n][p] = <<>>
    <3>1. InPorts \subseteq 0..7
      BY DEF InPorts, Sources
    <3>2. ASSUME NEW p \in InPorts PROVE in[n][p] = <<>>
      <4>1. PICK i \in 0..7 : (x + i) % 8 = p
        BY <3>1, Rotation
      <4>2. i \notin W /\ i \in 0 .. NumPorts - 1
        BY <1>6 DEF NumPorts
      <4> QED BY <1>3, <4>1, <4>2 DEF NumPorts
    <3> QED BY <3>2
  <2> QED BY Zenon, <1>1, <1>5, <2>1, <2>2, <2>3, <2>4
<1>7. CASE W # {}
  <2> DEFINE a == (x + Min(W)) % 8
  <2>1. Min(W) \in W
    <3>1. W \in SUBSET (0..7)
      BY DEF NumPorts
    <3> HIDE DEF W
    <3> QED BY <1>7, <3>1, LeastOf
  <2>2. PICK p \in InPorts : p = a /\ in[n][p] # <<>> /\ p \in 0..7
    <3>1. a \in InPorts /\ in[n][a] # <<>>
      BY Zenon, <1>3, <2>1 DEF NumPorts
    <3>2. InPorts \subseteq 0..7
      BY DEF InPorts, Sources
    <3> HIDE DEF a
    <3> QED BY <3>1, <3>2
  <2>3. PICK u \in Seq(AtBus(n, p)) : u = in[n][p] /\ u # <<>>
    BY Zenon, <2>2 DEF TypeOK, InOK
  <2>4. PICK m \in AtBus(n, p) : m = Head(u)
    BY <2>3
  <2>5. PICK to \in OutPorts : to = routing_bus(n, m, p) /\ to # -1
    BY RoutingBus DEF OutPorts, Sinks
  <2>6. PICK nx \in 0..7 : nx = (p + 1) % 8
    <3>1. p \in 0..7 /\ 1 \in 0..7
      BY DEF InPorts, Sources
    <3>2. (p + 1) % 8 \in 0..7
      BY <3>1, Rotation
    <3> QED BY <3>2
  <2>7. \/ /\ bus' = [bus EXCEPT ![n].next = nx] /\ UNCHANGED <<in, rq>>
        \/ /\ IF p \in {4, 5} THEN Handshake(n, Class(m))
              ELSE in' = [in EXCEPT ![n][p] = Tail(@)] /\ UNCHANGED rq
           /\ bus' = [bus EXCEPT ![n] = [state |-> "deliver", req |-> m, port |-> p, next |-> nx]]
    <3> DEFINE o == (bus[n].next + Min(W)) % NumPorts
               r == routing_bus(n, Head(in[n][o]), o)
    <3>1. \/ W = {} \/ r = -1
          \/ /\ bus' = [bus EXCEPT ![n].next = (o + 1) % NumPorts] /\ UNCHANGED <<in, rq>>
          \/ /\ IF o \in {4, 5} THEN Handshake(n, Class(Head(in[n][o])))
                ELSE in' = [in EXCEPT ![n][o] = Tail(@)] /\ UNCHANGED rq
             /\ bus' = [bus EXCEPT ![n] = [state |-> "deliver", req |-> Head(in[n][o]),
                                           port |-> o, next |-> (o + 1) % NumPorts]]
      BY Zenon DEF BusStart
    <3>2. p = o /\ nx = (o + 1) % NumPorts
      BY Zenon, <1>3, <2>2, <2>6 DEF NumPorts
    <3>3. m = Head(in[n][p])
      BY <2>3, <2>4
    <3> HIDE DEF W, o
    <3>4. r = to
      BY <2>5, <3>2, <3>3
    <3> HIDE DEF r
    <3> QED BY <1>7, <2>5, <3>1, <3>2, <3>3, <3>4
  <2> HIDE DEF W, a
  <2>8. CASE bus' = [bus EXCEPT ![n].next = nx] /\ UNCHANGED <<in, rq>>
    <3>1. PICK b \in Z : b = [bus[n] EXCEPT !.next = nx] /\ b.state = "start"
      <4>1. [bus[n] EXCEPT !.next = nx] \in Z /\ [bus[n] EXCEPT !.next = nx].state = "start"
        BY <1>1, <1>2
      <4> QED BY <4>1
    <3>2. bus' = [bus EXCEPT ![n] = b]
      BY <2>8, <3>1
    <3> QED BY <1>1, <1>5, <2>8, <3>1, <3>2
  <2>9. CASE /\ IF p \in {4, 5} THEN Handshake(n, Class(m))
                ELSE in' = [in EXCEPT ![n][p] = Tail(@)] /\ UNCHANGED rq
             /\ bus' = [bus EXCEPT ![n] = [state |-> "deliver", req |-> m, port |-> p, next |-> nx]]
    <3>1. m \in Msg
      BY OfMessages
    <3>2. PICK b \in Z : b = [state |-> "deliver", req |-> m, port |-> p, next |-> nx]
      BY <2>2, <3>1
    <3>3. BusOK' /\ bus'[n] = b /\ (\A k \in Nodes : k # n => bus'[k] = bus[k])
      <4>1. b.port \in InPorts /\ b.req \in AtBus(n, b.port) /\ bus' = [bus EXCEPT ![n] = b]
        BY <2>9, <3>2
      <4> HIDE DEF Z
      <4> QED BY <1>4, <4>1
    <3>4. BusAwake(n)' /\ bus'[n].state = "deliver" /\ bus'[n].req = m /\ bus'[n].port = p
      BY <3>2, <3>3 DEF BusAwake
    <3>5. CASE p \in {4, 5}
      <4>1. PICK c \in Classes : p = RcvPort(c) /\ c = Class(m)
        <5>1. p \notin Sources /\ m \in NetTo(n, IF p = 4 THEN "req" ELSE "rep")
          BY <3>5 DEF Sources, AtBus
        <5> QED BY <3>5, <5>1 DEF NetTo, RcvPort, Classes
      <4>2. Handshake(n, c)
        BY <2>9, <3>5, <4>1
      <4>3. /\ InOK' /\ RqOK' /\ RqAwake(n, c)' /\ InSame(n, p) /\ RqSame(n, c)
            /\ \/ in'[n][p] = Tail(in[n][p]) /\ rq' = rq
               \/ /\ rq[n][c].q # <<>> /\ rq'[n][c].q = Tail(rq[n][c].q)
                  /\ in'[n][p] = AddReq(c, Tail(in[n][p]), Head(rq[n][c].q))
        <5>1. in[n][RcvPort(c)] # <<>> /\ traffic' = traffic /\ oport' = oport /\ RqAwake(n, c)
          BY <1>1, <2>2, <4>1
        <5> QED BY <4>1, <4>2, <5>1, HandshakeTyped
      <4>4. TypeOK'
        BY <1>1, <3>3, <4>3, SameParts DEF TypeOK
      <4>5. ASSUME NEW e \in Classes, e # c PROVE RqAwake(n, e)'
        <5>1. RcvPort(e) # p /\ RcvPort(e) \in InPorts
          BY <4>1, <4>5 DEF RcvPort, Classes, InPorts
        <5>2. in'[n][RcvPort(e)] = in[n][RcvPort(e)] /\ rq'[n][e] = rq[n][e]
          BY <4>3, <4>5, <5>1 DEF InSame, RqSame
        <5>3. RqAwake(n, e) /\ oport' = oport
          BY <1>1
        <5> QED BY <5>2, <5>3 DEF RqAwake
      <4>6. \A e \in Classes : RqAwake(n, e)'
        BY <4>3, <4>5
      <4> QED BY Zenon, <1>1, <2>2, <2>3, <2>4, <3>1, <3>3, <3>4, <4>1, <4>3, <4>4, <4>6
    <3>6. CASE p \notin {4, 5}
      <4>1. PICK v \in Seq(AtBus(n, p)) : v = Tail(u)
        <5>1. Tail(u) \in Seq(AtBus(n, p))
          BY <2>3, QueueOf
        <5> QED BY <5>1
      <4>2. in' = [in EXCEPT ![n][p] = v] /\ rq' = rq
        BY <2>3, <2>9, <3>6, <4>1 DEF TypeOK, InOK
      <4>3. InOK' /\ in'[n][p] = v /\ InSame(n, p)
        BY <1>1, <4>2, SetIn
      <4>4. TypeOK'
        BY <1>1, <3>3, <4>2, <4>3, SameParts DEF TypeOK
      <4>5. ASSUME NEW e \in Classes PROVE RqAwake(n, e)'
        <5>1. RcvPort(e) # p /\ RcvPort(e) \in InPorts
          BY <3>6 DEF RcvPort, Classes, InPorts
        <5>2. in'[n][RcvPort(e)] = in[n][RcvPort(e)] /\ rq' = rq /\ oport' = oport
          BY <1>1, <4>2, <4>3, <5>1 DEF InSame
        <5> QED BY <5>2 DEF RqAwake
      <4> QED BY <1>1, <2>2, <2>3, <2>4, <3>1, <3>3, <3>4, <4>1, <4>2, <4>3, <4>4, <4>5
    <3> QED BY <3>5, <3>6
  <2> QED BY <2>7, <2>8, <2>9
<1> QED BY <1>6, <1>7
-----------------------------------------------------------------------------

(* A conjunct of Awake whose places a step does not touch.                 *)
LEMMA StaysAwake ==
  ASSUME NEW k \in Nodes
  PROVE  /\ BusAwake(k) /\ bus'[k] = bus[k] /\ (\A j \in InPorts : in'[k][j] = in[k][j])
              => BusAwake(k)'
         /\ SendAwake(k) /\ send'[k] = send[k] /\ out'[k][2] = out[k][2] /\ out'[k][3] = out[k][3]
              => SendAwake(k)'
         /\ \A c \in Classes :
              /\ SqAwake(k, c) /\ sq'[k][c] = sq[k][c] /\ iport'[k][c] = iport[k][c] => SqAwake(k, c)'
              /\ RqAwake(k, c) /\ rq'[k][c] = rq[k][c] /\ oport'[k][c] = oport[k][c]
                    /\ in'[k][RcvPort(c)] = in[k][RcvPort(c)] => RqAwake(k, c)'
<1>1. \A c \in Classes : RcvPort(c) \in InPorts
  BY PortOfClass
<1> QED BY <1>1 DEF BusAwake, SendAwake, SqAwake, RqAwake

(* Every step keeps the types and Awake.                                   *)
LEMMA AwakeStep ==
  ASSUME TypeOK, Awake, Next PROVE TypeOK' /\ Awake'
<1>1. \A n \in Nodes : BusAwake(n) /\ SendAwake(n) /\ \A c \in Classes : SqAwake(n, c) /\ RqAwake(n, c)
  BY AwakeParts
<1> DEFINE A(k) == BusAwake(k) /\ SendAwake(k) /\ \A c \in Classes : SqAwake(k, c) /\ RqAwake(k, c)
<1>2. ASSUME TypeOK', \A k \in Nodes : BusAwake(k)' /\ SendAwake(k)',
             \A k \in Nodes, c \in Classes : SqAwake(k, c)' /\ RqAwake(k, c)'
      PROVE  TypeOK' /\ Awake'
  BY <1>2, AwakeParts
<1>3. 2 \in OutPorts /\ 3 \in OutPorts /\ \A c \in Classes : RcvPort(c) \in InPorts \ Sources
  BY PortOfClass DEF OutPorts
<1>4. ASSUME NEW n \in Nodes, BusStart(n) PROVE TypeOK' /\ Awake'
  <2>1. UNCHANGED <<out, send, sq, iport, oport>>
    BY Zenon, <1>4 DEF BusStart
  <2>2. /\ TypeOK' /\ BusAwake(n)' /\ (\A c \in Classes : RqAwake(n, c)')
        /\ \A k \in Nodes : k # n => bus'[k] = bus[k]
        /\ UNCHANGED <<in, rq>> \/ \E p \in InPorts :
              InSame(n, p) /\ (rq' = rq \/ \E c \in Classes : RqSame(n, c))
    BY <1>1, <1>4, BusStartTyped
  <2>3. ASSUME NEW k \in Nodes, k # n
        PROVE  (\A j \in InPorts : in'[k][j] = in[k][j]) /\ \A c \in Classes : rq'[k][c] = rq[k][c]
    BY <2>2, <2>3 DEF InSame, RqSame
  <2>4. ASSUME NEW k \in Nodes PROVE BusAwake(k)' /\ \A c \in Classes : RqAwake(k, c)'
    <3>1. CASE k = n
      BY <2>2, <3>1
    <3>2. CASE k # n
      BY <1>1, <1>3, <2>1, <2>2, <2>3, <3>2, StaysAwake
    <3> QED BY <3>1, <3>2
  <2>5. ASSUME NEW k \in Nodes PROVE SendAwake(k)' /\ \A c \in Classes : SqAwake(k, c)'
    BY <1>1, <2>1, StaysAwake
  <2> QED BY <1>2, <2>2, <2>4, <2>5
<1>5. ASSUME NEW n \in Nodes, BusDeliver(n) PROVE TypeOK' /\ Awake'
  <2>1. UNCHANGED <<in, sq, iport, oport, rq>>
    BY <1>5 DEF BusDeliver
  <2>2. /\ TypeOK' /\ SendAwake(n)' /\ bus'[n].state = "start"
        /\ \A k \in Nodes : k # n => send'[k] = send[k] /\ bus'[k] = bus[k]
        /\ \E to \in OutPorts : OutSame(n, to)
    BY <1>1, <1>5, BusDeliverTyped
  <2>3. ASSUME NEW k \in Nodes PROVE BusAwake(k)' /\ SendAwake(k)'
    <3>1. CASE k = n
      BY <2>2, <3>1 DEF BusAwake
    <3>2. CASE k # n
      <4>1. out'[k][2] = out[k][2] /\ out'[k][3] = out[k][3]
        BY <1>3, <2>2, <3>2 DEF OutSame
      <4> QED BY <1>1, <2>1, <2>2, <3>2, <4>1, StaysAwake
    <3> QED BY <3>1, <3>2
  <2>4. ASSUME NEW k \in Nodes, NEW c \in Classes PROVE SqAwake(k, c)' /\ RqAwake(k, c)'
    BY <1>1, <2>1, StaysAwake
  <2> QED BY <1>2, <2>2, <2>3, <2>4
<1>6. ASSUME NEW n \in Nodes, SmnetSend(n) PROVE TypeOK' /\ Awake'
  <2>1. UNCHANGED <<in, bus, iport, oport, rq>>
    BY Zenon, <1>6 DEF SmnetSend
  <2>2. /\ TypeOK' /\ SendAwake(n)' /\ \A k \in Nodes : k # n => send'[k] = send[k]
        /\ \/ UNCHANGED <<out, sq>>
           \/ \E c \in Classes : SqAwake(n, c)' /\ OutSame(n, SendPort(c)) /\ SqSame(n, c)
    BY <1>1, <1>6, SmnetSendTyped
  <2>3. ASSUME NEW k \in Nodes PROVE SendAwake(k)'
    <3>1. CASE k = n
      BY <2>2, <3>1
    <3>2. CASE k # n
      <4>1. out'[k][2] = out[k][2] /\ out'[k][3] = out[k][3]
        BY <1>3, <2>2, <3>2 DEF OutSame
      <4> QED BY <1>1, <2>2, <3>2, <4>1, StaysAwake
    <3> QED BY <3>1, <3>2
  <2>4. ASSUME NEW k \in Nodes, NEW c \in Classes PROVE SqAwake(k, c)'
    <3>1. CASE sq'[k][c] = sq[k][c]
      BY <1>1, <2>1, <3>1, StaysAwake
    <3>2. CASE sq'[k][c] # sq[k][c]
      <4>1. \E e \in Classes : SqAwake(n, e)' /\ SqSame(n, e)
        BY <2>2, <3>2
      <4>2. PICK e \in Classes : SqAwake(n, e)' /\ SqSame(n, e)
        BY <4>1
      <4>3. k = n /\ c = e
        BY <3>2, <4>2 DEF SqSame
      <4> QED BY <4>2, <4>3
    <3> QED BY <3>1, <3>2
  <2>5. ASSUME NEW k \in Nodes PROVE BusAwake(k)' /\ \A c \in Classes : RqAwake(k, c)'
    BY <1>1, <2>1, StaysAwake
  <2> QED BY <1>2, <2>2, <2>3, <2>4, <2>5
<1>7. ASSUME NEW n \in Nodes, NEW c \in Classes, SendSemaWait(n, c) PROVE TypeOK' /\ Awake'
  <2>1. UNCHANGED <<in, out, bus, send, oport, rq>>
    BY <1>7 DEF SendSemaWait
  <2>2. TypeOK' /\ SqAwake(n, c)' /\ SqSame(n, c) /\ IportSame(n, c)
    BY <1>1, <1>7, SendSemaWaitTyped
  <2>3. ASSUME NEW k \in Nodes, NEW e \in Classes PROVE SqAwake(k, e)'
    BY <1>1, <2>2, StaysAwake DEF SqSame, IportSame
  <2>4. ASSUME NEW k \in Nodes PROVE BusAwake(k)' /\ SendAwake(k)' /\ \A e \in Classes : RqAwake(k, e)'
    BY <1>1, <2>1, StaysAwake
  <2> QED BY <1>2, <2>2, <2>3, <2>4
<1>8. ASSUME NEW n \in Nodes, NEW c \in Classes, NEW i, Travel(n, c, i) PROVE TypeOK' /\ Awake'
  <2>1. UNCHANGED <<in, out, bus, send>>
    BY Zenon, <1>8 DEF Travel
  <2>2. PICK d \in Nodes : /\ TypeOK' /\ SqAwake(n, c)' /\ (RqAwake(d, c) => RqAwake(d, c)')
                           /\ SqSame(n, c) /\ IportSame(n, c) /\ OportSame(d, c) /\ RqSame(d, c)
    BY <1>1, <1>8, TravelTyped
  <2>3. ASSUME NEW k \in Nodes, NEW e \in Classes PROVE SqAwake(k, e)' /\ RqAwake(k, e)'
    <3>1. SqAwake(k, e)'
      BY <1>1, <2>2, StaysAwake DEF SqSame, IportSame
    <3>2. RqAwake(k, e)'
      BY <1>1, <2>1, <2>2, StaysAwake DEF RqSame, OportSame
    <3> QED BY <3>1, <3>2
  <2>4. ASSUME NEW k \in Nodes PROVE BusAwake(k)' /\ SendAwake(k)'
    BY <1>1, <2>1, StaysAwake
  <2> QED BY <1>2, <2>2, <2>3, <2>4
<1>9. ASSUME NEW n \in Nodes, NEW c \in Classes, RcvSemaWait(n, c) PROVE TypeOK' /\ Awake'
  <2>1. UNCHANGED <<out, send, sq, iport>>
    BY <1>9 DEF RcvSemaWait
  <2>2. /\ TypeOK' /\ RqAwake(n, c)' /\ RqSame(n, c) /\ (oport' = oport \/ OportSame(n, c))
        /\ \/ UNCHANGED <<in, bus>>
           \/ /\ InSame(n, RcvPort(c)) /\ bus'[n].state # "asleep"
              /\ \A k \in Nodes : k # n => bus'[k] = bus[k]
    BY <1>1, <1>9, RcvSemaWaitTyped
  <2>3. ASSUME NEW k \in Nodes PROVE BusAwake(k)'
    <3>1. CASE k = n /\ bus'[n].state # "asleep"
      BY <3>1 DEF BusAwake
    <3>2. CASE ~(k = n /\ bus'[n].state # "asleep")
      <4>1. bus'[k] = bus[k] /\ \A j \in InPorts : in'[k][j] = in[k][j]
        BY <2>2, <3>2 DEF InSame
      <4> QED BY <1>1, <4>1, StaysAwake
    <3> QED BY <3>1, <3>2
  <2>4. ASSUME NEW k \in Nodes, NEW e \in Classes PROVE RqAwake(k, e)'
    <3>1. CASE k = n /\ e = c
      BY <2>2, <3>1
    <3>2. CASE ~(k = n /\ e = c)
      <4>1. rq'[k][e] = rq[k][e] /\ oport'[k][e] = oport[k][e]
        BY <2>2, <3>2 DEF RqSame, OportSame
      <4>2. k # n \/ RcvPort(e) # RcvPort(c)
        BY <3>2 DEF RcvPort, Classes
      <4>3. in'[k][RcvPort(e)] = in[k][RcvPort(e)]
        BY <1>3, <2>2, <4>2 DEF InSame
      <4> QED BY <1>1, <4>1, <4>3, StaysAwake
    <3> QED BY <3>1, <3>2
  <2>5. ASSUME NEW k \in Nodes PROVE SendAwake(k)' /\ \A e \in Classes : SqAwake(k, e)'
    BY <1>1, <2>1, StaysAwake
  <2> QED BY <1>2, <2>2, <2>3, <2>4, <2>5
<1>10. ASSUME NEW n \in Nodes, NEW p \in Sources, Put(n, p) PROVE TypeOK' /\ Awake'
  <2>1. UNCHANGED <<out, send, sq, iport, oport, rq>>
    BY <1>10 DEF Put
  <2>2. /\ TypeOK' /\ InSame(n, p) /\ bus'[n].state # "asleep"
        /\ \A k \in Nodes : k # n => bus'[k] = bus[k]
    BY <1>10, PutTyped
  <2>3. ASSUME NEW k \in Nodes PROVE BusAwake(k)' /\ SendAwake(k)'
    <3>1. CASE k = n
      BY <1>1, <2>1, <2>2, <3>1, StaysAwake DEF BusAwake
    <3>2. CASE k # n
      <4>1. \A j \in InPorts : in'[k][j] = in[k][j]
        BY <2>2, <3>2 DEF InSame
      <4> QED BY <1>1, <2>1, <2>2, <3>2, <4>1, StaysAwake
    <3> QED BY <3>1, <3>2
  <2>4. ASSUME NEW k \in Nodes, NEW c \in Classes PROVE SqAwake(k, c)' /\ RqAwake(k, c)'
    <3>1. in'[k][RcvPort(c)] = in[k][RcvPort(c)]
      BY <1>3, <2>2 DEF InSame
    <3> QED BY <1>1, <2>1, <3>1, StaysAwake
  <2> QED BY <1>2, <2>2, <2>3, <2>4
<1>11. ASSUME NEW n \in Nodes, NEW s \in Sinks, Take(n, s) PROVE TypeOK' /\ Awake'
  <2>1. UNCHANGED <<in, bus, send, sq, iport, oport, rq>>
    BY <1>11 DEF Take
  <2>2. TypeOK' /\ OutSame(n, s)
    BY <1>11, TakeTyped
  <2>3. ASSUME NEW k \in Nodes PROVE BusAwake(k)' /\ SendAwake(k)'
    <3>1. out'[k][2] = out[k][2] /\ out'[k][3] = out[k][3]
      <4>1. s # 2 /\ s # 3
        BY DEF Sinks
      <4> QED BY <1>3, <2>2, <4>1 DEF OutSame
    <3> QED BY <1>1, <2>1, <3>1, StaysAwake
  <2>4. ASSUME NEW k \in Nodes, NEW c \in Classes PROVE SqAwake(k, c)' /\ RqAwake(k, c)'
    BY <1>1, <2>1, StaysAwake
  <2> QED BY <1>2, <2>2, <2>3, <2>4
<1> QED BY <1>4, <1>5, <1>6, <1>7, <1>8, <1>9, <1>10, <1>11 DEF Next, Other

(* Nothing is anywhere, and everything that has to wait for work does.     *)
LEMMA InitAwake ==
  ASSUME Init PROVE TypeOK /\ Awake
<1>1. TypeOK
  <2>1. \A S : <<>> \in Seq(S)
    OBVIOUS
  <2>2. InOK /\ OutOK /\ OportOK /\ GotOK
    BY <2>1 DEF Init, InOK, OutOK, OportOK, GotOK, Queues
  <2>3. BusOK
    BY DEF Init, BusOK
  <2>4. SqOK /\ RqOK
    BY <2>1 DEF Init, SqOK, RqOK, Queues
  <2>5. IportOK
    BY <2>1, PortsAssumption DEF Init, IportOK, Queues
  <2> QED BY <2>2, <2>3, <2>4, <2>5 DEF Init, TypeOK
<1>2. Awake
  <2>1. \A n \in Nodes : BusAwake(n)
    BY DEF Init, BusAwake
  <2>2. \A n \in Nodes : SendAwake(n)
    BY DEF Init, SendAwake, OutPorts
  <2>3. ASSUME NEW n \in Nodes, NEW c \in Classes PROVE SqAwake(n, c) /\ RqAwake(n, c)
    <3>1. sq[n][c] = [q |-> <<>>, ev |-> "idle"] /\ iport[n][c] = [queue |-> <<>>, portrdy |-> NetPort]
      BY DEF Init
    <3>2. rq[n][c] = [q |-> <<>>, ev |-> "waiting"] /\ oport[n][c] = <<>>
      BY DEF Init
    <3>3. NetPort + Len(<<>>) + 0 = NetPort
      BY PortsAssumption
    <3> QED BY <3>1, <3>2, <3>3 DEF SqAwake, RqAwake
  <2> QED BY <2>1, <2>2, <2>3, AwakeParts
<1> QED BY <1>1, <1>2

(* A step that changes nothing.                                            *)
LEMMA StutterAwake ==
  ASSUME TypeOK, Awake, UNCHANGED vars PROVE TypeOK' /\ Awake'
<1>1. TypeOK'
  BY SameParts DEF vars, TypeOK
<1>2. Awake'
  BY DEF vars, Awake
<1> QED BY <1>1, <1>2

(* The messages are where they can be.                                     *)
THEOREM Typed == Spec => [](TypeOK /\ Awake)
<1>1. TypeOK /\ Awake /\ [Next]_vars => TypeOK' /\ Awake'
  BY AwakeStep, StutterAwake
<1> QED BY <1>1, InitAwake, PTL DEF Spec

(* No event of the buses, network interfaces and ports sleeps over work or *)
(* waits for a signal that nobody will give, for any number of nodes and   *)
(* any sizes of the ports: bus.c, smnet.c and the semaphores of net.c.     *)
THEOREM NobodySleepsOverWork == Spec => []Awake
  BY Typed, PTL
-----------------------------------------------------------------------------
(***************************************************************************)
(* The way between the caches and directories brings every message to the  *)
(* module it is for and keeps the order of requests and coherence          *)
(* messages.  The places that a message passes are laid out as the stages  *)
(* of one route: along a route later stages hold earlier messages.         *)
(***************************************************************************)
(* The stages of a route, from module p of node n to module s of node d.   *)
Stages == 1..11
Route(n, p, d, s) ==
  <<in[n][p], Carried(n, p), out[n][2], sq[n]["req"].q, iport[n]["req"].queue,
    oport[d]["req"], rq[d]["req"].q, in[d][4], Carried(d, 4), out[d][s], got[d][s]>>

(* Further on, and nearer the head of a queue, are earlier messages; none  *)
(* is later than the last one sent, t.                                     *)
Ordered(F, R, t) ==
  /\ \A j, k \in Stages : \A a \in DOMAIN F[j], b \in DOMAIN F[k] :
       F[j][a] \in R /\ F[k][b] \in R /\ (j < k \/ (j = k /\ b < a)) => F[j][a].i > F[k][b].i
  /\ \A k \in Stages : \A a \in DOMAIN F[k] : F[k][a] \in R => F[k][a].i <= t

OrderOK == \A n, d \in Nodes, p \in Sources, s \in {0, 6} :
             Ordered(Route(n, p, d, s), Mine(n, p, d, s), todo[n][p])

IInv == TypeOK /\ Awake /\ OrderOK
-----------------------------------------------------------------------------

(* A message m gets from place a of stage j to the end of stage k; stage 0 *)
(* stands for what is no part of the route.  A message of the route passes *)
(* no other one.                                                           *)
Moves(F, G, R, j, a, k, m) ==
  /\ \A x \in Stages : /\ x = j => Cut(G[x], F[x], a) /\ F[x][a] = m
                       /\ x = k => G[x] = Append(F[x], m)
                       /\ x \notin {j, k} => G[x] = F[x]
  /\ j = k => j = 0
  /\ m \in R /\ k # 0 =>
       /\ j # 0 /\ j < k
       /\ \A b \in DOMAIN F[j] : b < a => F[j][b] \notin R
       /\ \A x \in Stages : j < x /\ x < k => \A b \in DOMAIN F[x] : F[x][b] \notin R

(* The order survives it.                                                  *)
LEMMA MoveOrder ==
  ASSUME NEW F, NEW G, NEW R, R \subseteq Msg, NEW t \in Nat,
         NEW j \in 0..11, NEW a, NEW k \in 0..11, NEW m \in Msg,
         \A x \in Stages : F[x] \in Queues /\ G[x] \in Queues,
         Moves(F, G, R, j, a, k, m), Ordered(F, R, t)
  PROVE  Ordered(G, R, t)
<1>1. /\ \A x \in Stages : /\ x = j => Cut(G[x], F[x], a) /\ F[x][a] = m
                           /\ x = k => G[x] = Append(F[x], m)
                           /\ x \notin {j, k} => G[x] = F[x]
      /\ \A x \in Stages : ~(x = j /\ x = k)
  BY DEF Moves, Stages
<1>2. m \in R /\ k # 0 =>
       /\ j # 0 /\ j < k
       /\ \A b \in DOMAIN F[j] : b < a => F[j][b] \notin R
       /\ \A x \in Stages : j < x /\ x < k => \A b \in DOMAIN F[x] : F[x][b] \notin R
  BY DEF Moves
<1>3. \A x \in Stages : /\ DOMAIN F[x] = 1..Len(F[x]) /\ Len(F[x]) \in Nat
                        /\ DOMAIN G[x] = 1..Len(G[x]) /\ Len(G[x]) \in Nat
  BY DEF Queues
<1>4. Stages = 1..11
  BY DEF Stages
<1> DEFINE Old(x, b, y, c) == /\ y \in Stages /\ c \in DOMAIN F[y] /\ G[x][b] = F[y][c]
                              /\ \/ /\ x = k /\ b = Len(F[k]) + 1 /\ y = j /\ c = a
                                 \/ /\ ~(x = k /\ b = Len(F[k]) + 1)
                                    /\ y = x /\ c = IF x = j /\ b >= a THEN b + 1 ELSE b
<1>5. ASSUME NEW x \in Stages, NEW b \in DOMAIN G[x], G[x][b] \in R
      PROVE  \E y \in Stages, c \in Nat : Old(x, b, y, c)
  <2>1. CASE x = k /\ b = Len(F[k]) + 1
    <3>1. G[x][b] = m
      BY <1>1, <1>3, <2>1 DEF Queues
    <3>2. j \in Stages /\ F[j][a] = m /\ a \in DOMAIN F[j]
      BY <1>1, <1>2, <1>4, <1>5, <2>1, <3>1 DEF Cut
    <3>3. a \in Nat
      BY <1>3, <3>2
    <3>4. Old(x, b, j, a)
      BY <2>1, <3>1, <3>2
    <3> HIDE DEF Old
    <3> QED BY <3>2, <3>3, <3>4
  <2>2. CASE x = k /\ b # Len(F[k]) + 1
    <3>1. G[x] = Append(F[x], m) /\ x # j /\ F[x] \in Queues
      BY <1>1, <2>2
    <3>2. b \in DOMAIN F[x] /\ G[x][b] = F[x][b]
      BY <1>3, <2>2, <3>1 DEF Queues
    <3>3. Old(x, b, x, b) /\ b \in Nat
      BY <1>3, <2>2, <3>1, <3>2
    <3> HIDE DEF Old
    <3> QED BY <3>3
  <2>3. CASE x = j /\ x # k
    <3>1. /\ a \in DOMAIN F[x] /\ Len(G[x]) = Len(F[x]) - 1
          /\ \A e \in 1..Len(G[x]) : G[x][e] = F[x][IF e < a THEN e ELSE e + 1]
      BY <1>1, <2>3 DEF Cut
    <3> DEFINE c == IF x = j /\ b >= a THEN b + 1 ELSE b
    <3>2. a \in Nat /\ b \in 1..Len(G[x]) /\ Len(G[x]) \in Nat /\ Len(F[x]) \in Nat
          /\ DOMAIN F[x] = 1..Len(F[x])
      BY SMTT(30), <1>3, <3>1
    <3>3. c = (IF b < a THEN b ELSE b + 1)
      BY <2>3, <3>2
    <3>4. c \in Nat /\ c \in DOMAIN F[x] /\ G[x][b] = F[x][c]
      <4>1. c \in Nat /\ c \in DOMAIN F[x]
        BY <3>1, <3>2, <3>3
      <4>2. G[x][b] = F[x][IF b < a THEN b ELSE b + 1]
        BY <3>1, <3>2
      <4> HIDE DEF c
      <4> QED BY <3>3, <4>1, <4>2
    <3> HIDE DEF c
    <3>5. Old(x, b, x, c)
      BY <2>3, <3>4 DEF c
    <3> HIDE DEF Old
    <3> QED BY <3>4, <3>5
  <2>4. CASE x # j /\ x # k
    <3>1. G[x] = F[x]
      BY <1>1, <2>4
    <3>2. Old(x, b, x, b) /\ b \in Nat
      BY <1>3, <2>4, <3>1
    <3> HIDE DEF Old
    <3> QED BY <3>2
  <2> QED BY <2>1, <2>2, <2>3, <2>4
<1>6. ASSUME NEW x \in Stages, NEW y \in Stages, NEW b \in DOMAIN G[x], NEW c \in DOMAIN G[y],
             G[x][b] \in R, G[y][c] \in R, x < y \/ (x = y /\ c < b)
      PROVE  G[x][b].i > G[y][c].i
  <2>1. PICK u \in Stages, d \in Nat : Old(x, b, u, d)
    BY <1>5, <1>6
  <2>2. PICK v \in Stages, e \in Nat : Old(y, c, v, e)
    BY <1>5, <1>6
  <2>3. b \in Int /\ c \in Int /\ d \in Int /\ e \in Int /\ x \in Int /\ y \in Int /\ u \in Int /\ v \in Int
    <3>1. DOMAIN G[x] = 1..Len(G[x]) /\ DOMAIN G[y] = 1..Len(G[y])
      BY <1>3
    <3>2. b \in Int /\ c \in Int
      BY <3>1
    <3> HIDE DEF Old
    <3> QED BY <1>4, <3>2
  <2>4. /\ F[u][d] \in R /\ F[v][e] \in R /\ G[x][b] = F[u][d] /\ G[y][c] = F[v][e]
        /\ d \in DOMAIN F[u] /\ e \in DOMAIN F[v]
    BY <1>6, <2>1, <2>2
  <2>5. u < v \/ (u = v /\ e < d)
    <3>1. CASE x = k /\ b = Len(F[k]) + 1
      <4>1. u = j /\ d = a /\ F[u][d] = m
        BY <1>1, <2>1, <3>1
      <4>2. j < k
        BY <1>2, <1>4, <2>4, <3>1, <4>1
      <4>3. ~(y = k /\ c = Len(F[k]) + 1) /\ y >= k /\ v = y
        BY <1>6, <2>2, <2>3, <3>1
      <4> QED BY <2>3, <4>1, <4>2, <4>3
    <3>2. CASE ~(x = k /\ b = Len(F[k]) + 1) /\ y = k /\ c = Len(F[k]) + 1
      <4>1. v = j /\ e = a /\ F[v][e] = m /\ u = x /\ d = (IF x = j /\ b >= a THEN b + 1 ELSE b)
        BY <1>1, <2>1, <2>2, <3>2
      <4>2. /\ j < k /\ (\A z \in DOMAIN F[j] : z < a => F[j][z] \notin R)
            /\ \A z \in Stages : j < z /\ z < k => \A w \in DOMAIN F[z] : F[z][w] \notin R
        <5>1. m \in R
          BY <2>4, <4>1
        <5>2. k # 0
          BY <1>4, <3>2
        <5> HIDE DEF Old
        <5> QED BY <1>2, <5>1, <5>2
      <4>3. x < k
        <5>1. x = k => b <= Len(F[k]) + 1
          BY SMTT(30), <1>1, <1>3 DEF Queues
        <5> QED BY <1>6, <2>3, <3>2, <5>1
      <4>4. x <= j
        <5> HIDE DEF Old
        <5>1. d \in DOMAIN F[x] /\ F[x][d] \in R
          BY <2>4, <4>1
        <5>2. ~(j < x /\ x < k)
          BY <4>2, <5>1
        <5> QED BY <2>3, <4>3, <5>2
      <4>5. x = j => a < d
        <5> HIDE DEF Old
        <5>1. x = j => d \in DOMAIN F[j] /\ F[j][d] \in R
          BY <2>4, <4>1
        <5>2. x = j => ~(d < a)
          BY <4>2, <5>1
        <5>3. a \in Int
          BY <2>3, <4>1
        <5> QED BY <2>3, <4>1, <5>2, <5>3
      <4> QED BY <2>3, <4>1, <4>4, <4>5
    <3>3. CASE ~(x = k /\ b = Len(F[k]) + 1) /\ ~(y = k /\ c = Len(F[k]) + 1)
      <4>1. /\ u = x /\ d = (IF x = j /\ b >= a THEN b + 1 ELSE b)
            /\ v = y /\ e = (IF y = j /\ c >= a THEN c + 1 ELSE c)
        BY <2>1, <2>2, <3>3
      <4>2. x = j => a \in Int
        <5>1. x = j => a \in DOMAIN F[x]
          BY <1>1 DEF Cut
        <5> QED BY <1>3, <5>1
      <4> QED BY <1>6, <2>3, <4>1, <4>2
    <3> QED BY <3>1, <3>2, <3>3
  <2> HIDE DEF Old
  <2> QED BY <2>4, <2>5 DEF Ordered
<1>7. ASSUME NEW x \in Stages, NEW b \in DOMAIN G[x], G[x][b] \in R PROVE G[x][b].i <= t
  BY <1>5, <1>7 DEF Ordered
<1> HIDE DEF Old
<1> QED BY <1>6, <1>7 DEF Ordered

(* What is appended comes last.                                            *)
LEMMA Appended ==
  ASSUME NEW S, NEW q \in Seq(S), NEW m \in S
  PROVE  /\ Len(Append(q, m)) = Len(q) + 1 /\ Append(q, m)[Len(q) + 1] = m
         /\ \A b \in 1..Len(q) : Append(q, m)[b] = q[b]
  OBVIOUS

(* A message that enters the route is later than all of it.                *)
LEMMA SentOrder ==
  ASSUME NEW F, NEW G, NEW R, R \subseteq Msg, NEW t \in Nat, NEW m \in Msg, m.i = t + 1,
         \A x \in Stages : F[x] \in Queues /\ G[x] \in Queues,
         G[1] = Append(F[1], m), \A x \in Stages : x # 1 => G[x] = F[x], Ordered(F, R, t)
  PROVE  Ordered(G, R, t + 1)
<1>1. Stages = 1..11 /\ F[1] \in Queues /\ 1 \in Stages
  BY DEF Stages
<1>8. \A x \in Stages : /\ DOMAIN F[x] = 1..Len(F[x]) /\ Len(F[x]) \in Nat
                         /\ DOMAIN G[x] = 1..Len(G[x]) /\ Len(G[x]) \in Nat
                         /\ \A b \in DOMAIN F[x] : F[x][b] \in Msg
  BY DEF Queues
<1>9. /\ Len(Append(F[1], m)) = Len(F[1]) + 1 /\ Append(F[1], m)[Len(F[1]) + 1] = m
       /\ \A b \in 1..Len(F[1]) : Append(F[1], m)[b] = F[1][b]
  <2>1. PICK f \in Seq(Msg) : f = F[1]
    BY <1>1 DEF Queues
  <2> QED BY <2>1, Appended
<1>2. ASSUME NEW x \in Stages, NEW b \in DOMAIN G[x], G[x][b] \in R
      PROVE  \/ x = 1 /\ b = Len(F[1]) + 1 /\ G[x][b].i = t + 1
             \/ /\ b \in DOMAIN F[x] /\ G[x][b] = F[x][b] /\ G[x][b].i <= t /\ G[x][b].i \in Nat
                /\ x = 1 => b <= Len(F[1])
  <2>1. CASE x # 1
    <3>1. G[x] = F[x] /\ b \in DOMAIN F[x] /\ F[x][b] \in Msg
      BY <1>2, <1>8, <2>1
    <3>2. F[x][b].i \in Nat /\ F[x][b].i <= t
      BY <1>2, <3>1 DEF Ordered, Msg
    <3> QED BY <2>1, <3>1, <3>2
  <2>2. CASE x = 1 /\ b = Len(F[1]) + 1
    <3>1. G[x][b] = m
      BY <1>9, <2>2
    <3> QED BY <2>2, <3>1
  <2>3. CASE x = 1 /\ b # Len(F[1]) + 1
    <3>1. b \in 1..Len(F[1]) + 1
      <4>1. Len(G[x]) = Len(F[1]) + 1 /\ DOMAIN G[x] = 1..Len(G[x])
        BY <1>8, <1>9, <2>3
      <4> QED BY <4>1
    <3>2. b \in 1..Len(F[1])
      BY SMTT(30), <1>1, <1>8, <2>3, <3>1
    <3>3. b \in DOMAIN F[x] /\ G[x][b] = F[x][b] /\ F[x][b] \in Msg
      BY <1>1, <1>8, <1>9, <2>3, <3>2
    <3>4. F[x][b].i \in Nat /\ F[x][b].i <= t
      BY <1>2, <3>3 DEF Ordered, Msg
    <3> QED BY <2>3, <3>2, <3>3, <3>4
  <2> QED BY <2>1, <2>2, <2>3
<1>3. ASSUME NEW x \in Stages, NEW y \in Stages, NEW b \in DOMAIN G[x], NEW c \in DOMAIN G[y],
             G[x][b] \in R, G[y][c] \in R, x < y \/ (x = y /\ c < b)
      PROVE  G[x][b].i > G[y][c].i
  <2>1. b \in Nat /\ c \in Nat /\ Len(F[1]) \in Nat /\ x \in Nat /\ y \in Nat /\ x >= 1 /\ y >= 1
    <3>1. b \in 1..Len(G[x]) /\ c \in 1..Len(G[y]) /\ Len(F[1]) \in Nat
          /\ Len(G[x]) \in Nat /\ Len(G[y]) \in Nat
      BY <1>1, <1>8
    <3>2. b \in Nat /\ c \in Nat
      BY <3>1
    <3>3. x \in 1..11 /\ y \in 1..11
      BY <1>1
    <3> QED BY <3>1, <3>2, <3>3
  <2>2. ~(y = 1 /\ c = Len(F[1]) + 1)
    BY <1>2, <1>3, <2>1
  <2>3. c \in DOMAIN F[y] /\ G[y][c] = F[y][c] /\ G[y][c].i <= t /\ G[y][c].i \in Nat
    BY <1>2, <1>3, <2>2
  <2>4. CASE x = 1 /\ b = Len(F[1]) + 1 /\ G[x][b].i = t + 1
    BY <2>3, <2>4
  <2>5. CASE b \in DOMAIN F[x] /\ G[x][b] = F[x][b]
    BY <1>3, <2>3, <2>5 DEF Ordered
  <2> QED BY <1>2, <1>3, <2>4, <2>5
<1>4. ASSUME NEW x \in Stages, NEW b \in DOMAIN G[x], G[x][b] \in R PROVE G[x][b].i <= t + 1
  BY <1>2, <1>4
<1> QED BY <1>3, <1>4 DEF Ordered

(* Nothing happens on the route.                                           *)
LEMMA SameOrder ==
  ASSUME NEW F, NEW G, NEW R, NEW t, \A x \in Stages : G[x] = F[x], Ordered(F, R, t)
  PROVE  Ordered(G, R, t)
  BY DEF Ordered
-----------------------------------------------------------------------------
(* The stages of a route are places of the model.                          *)
Laid(F, n, p, d, s) ==
  /\ F[1] = in[n][p] /\ F[2] = Carried(n, p) /\ F[3] = out[n][2] /\ F[4] = sq[n]["req"].q
  /\ F[5] = iport[n]["req"].queue /\ F[6] = oport[d]["req"] /\ F[7] = rq[d]["req"].q
  /\ F[8] = in[d][4] /\ F[9] = Carried(d, 4) /\ F[10] = out[d][s] /\ F[11] = got[d][s]

(* What holds of eleven stages holds of all of them.                       *)
LEMMA EachStage ==
  /\ Stages = 1..11
  /\ 1 \in Stages /\ 2 \in Stages /\ 3 \in Stages /\ 4 \in Stages /\ 5 \in Stages /\ 6 \in Stages
  /\ 7 \in Stages /\ 8 \in Stages /\ 9 \in Stages /\ 10 \in Stages /\ 11 \in Stages
  /\ \A x \in Stages : \/ x = 1 \/ x = 2 \/ x = 3 \/ x = 4 \/ x = 5 \/ x = 6
                       \/ x = 7 \/ x = 8 \/ x = 9 \/ x = 10 \/ x = 11
  BY DEF Stages

(* What a route holds are messages.                                        *)
LEMMA LaidTyped ==
  ASSUME NEW n \in Nodes, NEW d \in Nodes, NEW p \in Sources, NEW s \in {0, 6}, NEW F
  PROVE  /\ TypeOK /\ Laid(F, n, p, d, s) => \A x \in Stages : F[x] \in Queues
         /\ TypeOK' /\ Laid(F, n, p, d, s)' => \A x \in Stages : F[x] \in Queues
<1>1. /\ p \in InPorts /\ 4 \in InPorts /\ 2 \in OutPorts /\ s \in OutPorts /\ s \in Sinks
      /\ "req" \in Classes
  BY DEF InPorts, OutPorts, Sinks, Classes
<1>2. <<>> \in Queues /\ \A m \in Msg : <<m>> \in Queues
  BY DEF Queues
<1>3. ASSUME TypeOK, NEW k \in Nodes, NEW j \in InPorts PROVE Carried(k, j) \in Queues
  BY <1>2, <1>3, OfMessages DEF TypeOK, BusOK, Carried
<1>4. ASSUME TypeOK', NEW k \in Nodes, NEW j \in InPorts PROVE Carried(k, j)' \in Queues
  <2>1. \A i, q : AtBus(i, q)' \subseteq Msg
    BY DEF AtBus, Fresh, NetTo
  <2> QED BY <1>2, <1>4, <2>1 DEF TypeOK, BusOK, Carried
<1>5. TypeOK /\ Laid(F, n, p, d, s) => \A x \in Stages : F[x] \in Queues
  <2> SUFFICES ASSUME TypeOK, Laid(F, n, p, d, s) PROVE \A x \in Stages : F[x] \in Queues
    OBVIOUS
  <2>1. F[1] \in Queues /\ F[3] \in Queues /\ F[8] \in Queues /\ F[10] \in Queues /\ F[11] \in Queues
    BY <1>1 DEF Laid, TypeOK, InOK, OutOK, GotOK
  <2>2. F[4] \in Queues /\ F[5] \in Queues /\ F[6] \in Queues /\ F[7] \in Queues
    BY <1>1 DEF Laid, TypeOK, SqOK, IportOK, OportOK, RqOK
  <2>3. F[2] \in Queues /\ F[9] \in Queues
    BY <1>1, <1>3 DEF Laid
  <2> QED BY <2>1, <2>2, <2>3, EachStage
<1>6. TypeOK' /\ Laid(F, n, p, d, s)' => \A x \in Stages : F[x] \in Queues
  <2> SUFFICES ASSUME TypeOK', Laid(F, n, p, d, s)' PROVE \A x \in Stages : F[x] \in Queues
    OBVIOUS
  <2>1. F[1] \in Queues /\ F[3] \in Queues /\ F[8] \in Queues /\ F[10] \in Queues /\ F[11] \in Queues
    BY <1>1 DEF Laid, TypeOK, InOK, OutOK, GotOK
  <2>2. F[4] \in Queues /\ F[5] \in Queues /\ F[6] \in Queues /\ F[7] \in Queues
    BY <1>1 DEF Laid, TypeOK, SqOK, IportOK, OportOK, RqOK
  <2>3. F[2] \in Queues /\ F[9] \in Queues
    BY <1>1, <1>4 DEF Laid
  <2> QED BY <2>1, <2>2, <2>3, EachStage
<1> QED BY <1>5, <1>6

(* A route before a step and after it.                                     *)
RouteOK(n, p, d, s) == Ordered(Route(n, p, d, s), Mine(n, p, d, s), todo[n][p])

(* A route before and after a step, with the names the lemmas above use.   *)
LEMMA Routes ==
  ASSUME TypeOK, TypeOK', OrderOK, traffic' = traffic,
         NEW n \in Nodes, NEW d \in Nodes, NEW p \in Sources, NEW s \in {0, 6}
  PROVE  \E F, G, R : \E t \in Nat :
           /\ R = Mine(n, p, d, s) /\ R \subseteq Msg /\ t = todo[n][p]
           /\ \A x \in Stages : F[x] \in Queues /\ G[x] \in Queues
           /\ Laid(F, n, p, d, s) /\ Laid(G, n, p, d, s)' /\ Ordered(F, R, t)
           /\ \A u : u = todo'[n][p] /\ Ordered(G, R, u) => RouteOK(n, p, d, s)'
<1>1. PICK F, G, R : F = Route(n, p, d, s) /\ G = Route(n, p, d, s)' /\ R = Mine(n, p, d, s)
  OBVIOUS
<1>2. PICK t \in Nat : t = todo[n][p]
  BY DEF TypeOK
<1>3. Laid(F, n, p, d, s)
  BY <1>1 DEF Route, Laid
<1>4. Laid(G, n, p, d, s)'
  BY <1>1 DEF Route, Laid
<1>5. R = Mine(n, p, d, s)' /\ R \subseteq Msg
  <2>1. s \in Sinks
    BY DEF Sinks
  <2>2. Mine(n, p, d, s)' = Mine(n, p, d, s)
    BY <2>1, SameSets
  <2> QED BY <1>1, <2>2 DEF Mine
<1>6. Ordered(F, R, t)
  BY <1>1, <1>2 DEF OrderOK
<1>7. \A u : u = todo'[n][p] /\ Ordered(G, R, u) => RouteOK(n, p, d, s)'
  BY <1>1, <1>5 DEF RouteOK
<1>8. \A x \in Stages : F[x] \in Queues /\ G[x] \in Queues
  BY <1>3, <1>4, LaidTyped
<1> QED BY <1>1, <1>2, <1>3, <1>4, <1>5, <1>6, <1>7, <1>8

(* What a message of the route is.                                         *)
LEMMA OfRoute ==
  ASSUME TypeOK, NEW n \in Nodes, NEW d \in Nodes, NEW p \in Sources, NEW s \in {0, 6},
         NEW m \in Mine(n, p, d, s)
  PROVE  /\ m \in Msg /\ m.at = <<n, p>> /\ Entry(m).to = d /\ Class(m) = "req" /\ Goal(m) = <<d, s>>
         /\ \A k \in Nodes, q \in Sources : m \in Fresh(k, q) => k = n /\ q = p
         /\ \A k \in Nodes, c \in Classes :
              /\ m \in Leaving(k, c) => k # d
              /\ m \in NetFrom(k, c) => k = n /\ c = "req" /\ m.dest = d /\ n # d
              /\ m \in NetTo(k, c) => k = d /\ c = "req" /\ n # d
         /\ \A k \in Nodes, j \in Sinks : m \in There(k, j) => k = d /\ j = s
<1>1. m \in Msg /\ m.at = <<n, p>> /\ Class(m) = "req" /\ Goal(m) = <<d, s>> /\ Known(m)
  BY DEF Mine
<1>2. Entry(m).to = d
  BY <1>1 DEF Goal
<1>3. m.at[1] = n
  BY <1>1
<1> QED BY <1>1, <1>2, <1>3 DEF Fresh, Leaving, NetFrom, NetTo, There

(* Nothing that stays in its node is ever outside the bus.                 *)
LEMMA Homebound ==
  ASSUME TypeOK, NEW n \in Nodes, NEW p \in Sources, NEW s \in {0, 6}, NEW F, Laid(F, n, p, n, s)
  PROVE  \A x \in Stages : 2 < x /\ x < 10 => \A b \in DOMAIN F[x] : F[x][b] \notin Mine(n, p, n, s)
<1> DEFINE R == Mine(n, p, n, s)
<1>1. \A m \in R, c \in Classes : m \notin Leaving(n, c) /\ m \notin NetFrom(n, c) /\ m \notin NetTo(n, c)
  BY OfRoute
<1> HIDE DEF R
<1>2. /\ 2 \in OutPorts /\ PastBus(n, 2) = Leaving(n, "req") /\ "req" \in Classes
      /\ 4 \in InPorts /\ AtBus(n, 4) = NetTo(n, "req")
  BY DEF OutPorts, InPorts, PastBus, AtBus, Sinks, Sources, Classes
<1>3. F[3] \in Seq(Leaving(n, "req")) /\ F[8] \in Seq(NetTo(n, "req"))
  BY <1>2 DEF Laid, TypeOK, OutOK, InOK
<1>4. F[4] \in Seq(NetFrom(n, "req")) /\ F[5] \in Seq(NetFrom(n, "req"))
  BY <1>2 DEF Laid, TypeOK, SqOK, IportOK
<1>5. F[6] \in Seq(NetTo(n, "req")) /\ F[7] \in Seq(NetTo(n, "req"))
  BY <1>2 DEF Laid, TypeOK, OportOK, RqOK
<1>6. F[9] \in Seq(NetTo(n, "req"))
  <2>1. F[9] = Carried(n, 4)
    BY DEF Laid
  <2> QED BY <1>2, <2>1 DEF Carried, TypeOK, BusOK
<1>7. ASSUME NEW x \in Stages, 2 < x, x < 10, NEW b \in DOMAIN F[x] PROVE F[x][b] \notin R
  <2>1. x \in 3..9
    BY <1>7, EachStage
  <2>2. \/ F[x] \in Seq(Leaving(n, "req")) \/ F[x] \in Seq(NetFrom(n, "req"))
        \/ F[x] \in Seq(NetTo(n, "req"))
    <3>1. x = 3 \/ x = 4 \/ x = 5 \/ x = 6 \/ x = 7 \/ x = 8 \/ x = 9
      BY <2>1
    <3> QED BY <1>3, <1>4, <1>5, <1>6, <3>1
  <2>3. \/ F[x][b] \in Leaving(n, "req") \/ F[x][b] \in NetFrom(n, "req")
        \/ F[x][b] \in NetTo(n, "req")
    BY <2>2, QueueOf
  <2> QED BY <1>1, <1>2, <2>3
<1> QED BY <1>7 DEF R

(* What is not carried any more is the end of a queue of one message.      *)
LEMMA OneMessage ==
  ASSUME NEW m \in Msg
  PROVE  Cut(<<>>, <<m>>, 1) /\ Append(<<>>, m) = <<m>> /\ <<m>>[1] = m /\ <<m>> # <<>>
  BY DEF Cut

(* The first message of a stage gets over empty ones.                      *)
LEMMA HeadMoves ==
  ASSUME NEW F, NEW G, NEW R, NEW j \in Stages, NEW k \in Stages, NEW m \in Msg, j < k,
         F[j] \in Queues, Cut(G[j], F[j], 1), F[j][1] = m, G[k] = Append(F[k], m),
         \A x \in Stages : x \notin {j, k} => G[x] = F[x],
         \A x \in Stages : j < x /\ x < k => F[x] = <<>>
  PROVE  Moves(F, G, R, j, 1, k, m)
<1>1. j # k /\ j # 0 /\ k # 0
  BY EachStage
<1>2. \A b \in DOMAIN F[j] : ~(b < 1)
  BY DEF Queues
<1>3. \A x \in Stages : j < x /\ x < k => \A b \in DOMAIN F[x] : F[x][b] \notin R
  OBVIOUS
<1>4. \A x \in Stages : /\ x = j => Cut(G[x], F[x], 1) /\ F[x][1] = m
                        /\ x = k => G[x] = Append(F[x], m)
                        /\ x \notin {j, k} => G[x] = F[x]
  OBVIOUS
<1> QED BY <1>1, <1>2, <1>3, <1>4 DEF Moves

(* The parts of a bus's state that the stages see.                         *)
LEMMA CarriedIs ==
  ASSUME NEW k \in Nodes, NEW j
  PROVE  /\ bus[k].state # "deliver" => Carried(k, j) = <<>>
         /\ bus'[k].state # "deliver" => Carried(k, j)' = <<>>
         /\ bus[k].state = "deliver" =>
              Carried(k, j) = IF j = bus[k].port THEN <<bus[k].req>> ELSE <<>>
         /\ bus'[k].state = "deliver" =>
              Carried(k, j)' = IF j = bus'[k].port THEN <<bus'[k].req>> ELSE <<>>
         /\ bus'[k] = bus[k] => Carried(k, j)' = Carried(k, j)
  BY DEF Carried

(* Modules put and take messages in the order in which they were sent.     *)
LEMMA PutOrder ==
  ASSUME TypeOK, OrderOK, NEW k \in Nodes, NEW q \in Sources, Put(k, q) PROVE OrderOK'
<1>1. UNCHANGED <<traffic, out, send, sq, iport, oport, rq, got>>
  BY DEF Put
<1>2. PICK m \in Msg : /\ TypeOK' /\ m.i = todo[k][q] + 1 /\ in'[k][q] = Append(in[k][q], m)
                       /\ InSame(k, q) /\ \A i \in Nodes, j \in InPorts : Carried(i, j)' = Carried(i, j)
                       /\ todo'[k][q] = todo[k][q] + 1
                       /\ \A i \in Nodes, j \in Sources : i # k \/ j # q => todo'[i][j] = todo[i][j]
  BY PutTyped
<1>3. ASSUME NEW n \in Nodes, NEW d \in Nodes, NEW p \in Sources, NEW s \in {0, 6}
      PROVE  RouteOK(n, p, d, s)'
  <2>1. PICK F, G, R : \E t \in Nat :
           /\ R = Mine(n, p, d, s) /\ R \subseteq Msg /\ t = todo[n][p]
           /\ \A x \in Stages : F[x] \in Queues /\ G[x] \in Queues
           /\ Laid(F, n, p, d, s) /\ Laid(G, n, p, d, s)' /\ Ordered(F, R, t)
           /\ \A u : u = todo'[n][p] /\ Ordered(G, R, u) => RouteOK(n, p, d, s)'
    BY <1>1, <1>2, <1>3, Routes
  <2>2. PICK t \in Nat :
           /\ R \subseteq Msg /\ t = todo[n][p] /\ \A x \in Stages : F[x] \in Queues /\ G[x] \in Queues
           /\ Laid(F, n, p, d, s) /\ Laid(G, n, p, d, s)' /\ Ordered(F, R, t)
           /\ \A u : u = todo'[n][p] /\ Ordered(G, R, u) => RouteOK(n, p, d, s)'
    BY <2>1
  <2>3. p \in InPorts /\ 4 \in InPorts /\ 4 # q
    BY DEF InPorts, Sources
  <2>4. \A x \in Stages : x # 1 => G[x] = F[x]
    <3>1. G[8] = F[8] /\ G[2] = F[2] /\ G[9] = F[9]
      BY <1>2, <2>2, <2>3 DEF Laid, InSame
    <3>2. /\ G[3] = F[3] /\ G[4] = F[4] /\ G[5] = F[5] /\ G[6] = F[6] /\ G[7] = F[7]
          /\ G[10] = F[10] /\ G[11] = F[11]
      BY <1>1, <2>2 DEF Laid
    <3> QED BY <3>1, <3>2, EachStage
  <2>5. CASE n = k /\ p = q
    <3>1. G[1] = Append(F[1], m) /\ m.i = t + 1 /\ todo'[n][p] = t + 1
      BY <1>2, <2>2, <2>5 DEF Laid
    <3>2. Ordered(G, R, t + 1)
      BY <2>2, <2>4, <3>1, SentOrder
    <3> QED BY <2>2, <3>1, <3>2
  <2>6. CASE ~(n = k /\ p = q)
    <3>1. G[1] = F[1] /\ todo'[n][p] = t
      BY <1>2, <2>2, <2>3, <2>6 DEF Laid, InSame
    <3>2. Ordered(G, R, t)
      BY <2>2, <2>4, <3>1, SameOrder
    <3> QED BY <2>2, <3>1, <3>2
  <2> QED BY <2>5, <2>6
<1> QED BY <1>3 DEF OrderOK, RouteOK

(* The steps that send nothing new: it is enough to look at one route.     *)
On(F, G, R, n, p, d, s) ==
  /\ R = Mine(n, p, d, s) /\ R \subseteq Msg
  /\ \A x \in Stages : F[x] \in Queues /\ G[x] \in Queues
  /\ Laid(F, n, p, d, s) /\ Laid(G, n, p, d, s)'

(* A step that sends nothing keeps the order when it does along each route.*)
LEMMA ByRoutes ==
  ASSUME TypeOK, TypeOK', OrderOK, UNCHANGED <<traffic, todo>>,
         \A n, d \in Nodes, p \in Sources, s \in {0, 6} : \A F, G, R : \A t \in Nat :
           On(F, G, R, n, p, d, s) /\ Ordered(F, R, t) => Ordered(G, R, t)
  PROVE  OrderOK'
<1>1. ASSUME NEW n \in Nodes, NEW d \in Nodes, NEW p \in Sources, NEW s \in {0, 6}
      PROVE  RouteOK(n, p, d, s)'
  <2>1. PICK F, G, R : \E t \in Nat :
           /\ R = Mine(n, p, d, s) /\ R \subseteq Msg /\ t = todo[n][p]
           /\ \A x \in Stages : F[x] \in Queues /\ G[x] \in Queues
           /\ Laid(F, n, p, d, s) /\ Laid(G, n, p, d, s)' /\ Ordered(F, R, t)
           /\ \A u : u = todo'[n][p] /\ Ordered(G, R, u) => RouteOK(n, p, d, s)'
    BY <1>1, Routes
  <2>2. PICK t \in Nat : /\ On(F, G, R, n, p, d, s) /\ Ordered(F, R, t)
                         /\ Ordered(G, R, t) => RouteOK(n, p, d, s)'
    BY <2>1 DEF On
  <2> QED BY <2>2
<1> QED BY <1>1 DEF OrderOK, RouteOK

(* A module takes a message from the bus.                                  *)
LEMMA TakeOrder ==
  ASSUME TypeOK, OrderOK, NEW k \in Nodes, NEW q \in Sinks, Take(k, q) PROVE OrderOK'
<1>1. UNCHANGED <<traffic, in, bus, send, sq, iport, oport, rq, todo>>
  BY DEF Take
<1>2. /\ TypeOK' /\ out[k][q] # <<>> /\ out'[k][q] = Tail(out[k][q])
      /\ got'[k][q] = Append(got[k][q], Head(out[k][q])) /\ OutSame(k, q) /\ GotSame(k, q)
  BY TakeTyped
<1>3. ASSUME NEW n \in Nodes, NEW d \in Nodes, NEW p \in Sources, NEW s \in {0, 6},
             NEW F, NEW G, NEW R, NEW t \in Nat, On(F, G, R, n, p, d, s), Ordered(F, R, t)
      PROVE  Ordered(G, R, t)
  <2>1. /\ R \subseteq Msg /\ \A x \in Stages : F[x] \in Queues /\ G[x] \in Queues
        /\ Laid(F, n, p, d, s) /\ Laid(G, n, p, d, s)'
    BY <1>3 DEF On
  <2>2. 2 \in OutPorts /\ s \in OutPorts /\ s \in Sinks /\ 2 # q
    BY DEF OutPorts, Sinks
  <2>3. \A x \in Stages : x \notin {10, 11} => G[x] = F[x]
    <3>1. G[3] = F[3]
      BY <1>2, <2>1, <2>2 DEF Laid, OutSame
    <3>2. /\ G[1] = F[1] /\ G[2] = F[2] /\ G[4] = F[4] /\ G[5] = F[5] /\ G[6] = F[6] /\ G[7] = F[7]
          /\ G[8] = F[8] /\ G[9] = F[9]
      BY <1>1, <2>1 DEF Laid, Carried
    <3> QED BY <3>1, <3>2, EachStage
  <2>4. CASE d = k /\ s = q
    <3>1. PICK f \in Seq(Msg) : f = F[10]
      BY <2>1, EachStage DEF Queues
    <3>2. f # <<>> /\ G[10] = Tail(f) /\ G[11] = Append(F[11], Head(f))
      BY <1>2, <2>1, <2>4, <3>1 DEF Laid
    <3>3. PICK m \in Msg : m = Head(f) /\ f[1] = m
      BY <3>2, QueueOf
    <3>4. Cut(G[10], F[10], 1)
      BY <3>1, <3>2, TailCuts
    <3>5. Moves(F, G, R, 10, 1, 11, m)
      BY <2>3, <3>1, <3>2, <3>3, <3>4 DEF Moves, Stages
    <3>6. 10 \in 0..11 /\ 11 \in 0..11
      OBVIOUS
    <3> QED BY <1>3, <2>1, <3>5, <3>6, MoveOrder
  <2>5. CASE ~(d = k /\ s = q)
    <3>1. G[10] = F[10] /\ G[11] = F[11]
      BY <1>2, <2>1, <2>2, <2>5 DEF Laid, OutSame, GotSame
    <3>2. \A x \in Stages : G[x] = F[x]
      BY <2>3, <3>1
    <3> QED BY <1>3, <3>2, SameOrder
  <2> QED BY <2>4, <2>5
<1> QED BY <1>1, <1>2, <1>3, ByRoutes

(* SmnetSend moves messages of class req as they are.                      *)
LEMMA SmnetSendOrder ==
  ASSUME TypeOK, Awake, OrderOK, NEW k \in Nodes, SmnetSend(k) PROVE OrderOK'
<1>1. UNCHANGED <<traffic, in, bus, iport, oport, rq, todo, got>>
  BY Zenon DEF SmnetSend
<1>2. /\ TypeOK'
      /\ \/ UNCHANGED <<out, sq>>
         \/ \E c \in Classes, m \in Msg :
              /\ out[k][SendPort(c)] # <<>> /\ m = Head(out[k][SendPort(c)]) /\ m \in Leaving(k, c)
              /\ out'[k][SendPort(c)] = Tail(out[k][SendPort(c)]) /\ OutSame(k, SendPort(c))
              /\ sq'[k][c].q = Append(sq[k][c].q, Flipped(m)) /\ SqSame(k, c)
  BY AwakeParts, SmnetSendTyped
<1>3. ASSUME NEW n \in Nodes, NEW d \in Nodes, NEW p \in Sources, NEW s \in {0, 6},
             NEW F, NEW G, NEW R, NEW t \in Nat, On(F, G, R, n, p, d, s), Ordered(F, R, t)
      PROVE  Ordered(G, R, t)
  <2>1. /\ R \subseteq Msg /\ \A x \in Stages : F[x] \in Queues /\ G[x] \in Queues
        /\ Laid(F, n, p, d, s) /\ Laid(G, n, p, d, s)'
    BY <1>3 DEF On
  <2>2. 2 \in OutPorts /\ s \in OutPorts /\ s # 2 /\ s # 3 /\ "req" \in Classes
    BY DEF OutPorts, Sinks, Classes
  <2>3. /\ G[1] = F[1] /\ G[2] = F[2] /\ G[5] = F[5] /\ G[6] = F[6] /\ G[7] = F[7]
        /\ G[8] = F[8] /\ G[9] = F[9] /\ G[11] = F[11]
    BY <1>1, <2>1 DEF Laid, Carried
  <2>4. CASE UNCHANGED <<out, sq>>
    <3>1. G[3] = F[3] /\ G[4] = F[4] /\ G[10] = F[10]
      BY <2>1, <2>4 DEF Laid
    <3> QED BY <1>3, <2>3, <3>1, EachStage, SameOrder
  <2>5. CASE ~UNCHANGED <<out, sq>>
    <3>1. PICK c \in Classes, m \in Msg :
              /\ out[k][SendPort(c)] # <<>> /\ m = Head(out[k][SendPort(c)]) /\ m \in Leaving(k, c)
              /\ out'[k][SendPort(c)] = Tail(out[k][SendPort(c)]) /\ OutSame(k, SendPort(c))
              /\ sq'[k][c].q = Append(sq[k][c].q, Flipped(m)) /\ SqSame(k, c)
      BY Zenon, <1>2, <2>5
    <3>2. SendPort(c) \in {2, 3} /\ (SendPort(c) = 2 <=> c = "req")
      BY DEF SendPort, Classes
    <3>3. G[10] = F[10]
      BY <2>1, <2>2, <3>1, <3>2 DEF Laid, OutSame
    <3>4. CASE k = n /\ c = "req"
      <4>1. Flipped(m) = m
        <5>1. Class(m) = "req"
          BY <3>1, <3>4 DEF Leaving
        <5> QED BY <5>1 DEF Class, Flipped, Answers
      <4>2. PICK f \in Seq(Msg) : f = F[3]
        BY <2>1, EachStage DEF Queues
      <4>3. f # <<>> /\ G[3] = Tail(f) /\ G[4] = Append(F[4], m) /\ f[1] = m
        BY <2>1, <3>1, <3>2, <3>4, <4>1, <4>2 DEF Laid
      <4>4. Cut(G[3], F[3], 1)
        BY <4>2, <4>3, TailCuts
      <4>5. Moves(F, G, R, 3, 1, 4, m)
        BY <2>3, <3>3, <4>2, <4>3, <4>4 DEF Moves, Stages
      <4>6. 3 \in 0..11 /\ 4 \in 0..11
        OBVIOUS
      <4> QED BY <1>3, <2>1, <4>5, <4>6, MoveOrder
    <3>5. CASE ~(k = n /\ c = "req")
      <4>1. G[3] = F[3] /\ G[4] = F[4]
        BY <2>1, <2>2, <3>1, <3>2, <3>5 DEF Laid, OutSame, SqSame
      <4> QED BY <1>3, <2>3, <3>3, <4>1, EachStage, SameOrder
    <3> QED BY <3>4, <3>5
  <2> QED BY <2>4, <2>5
<1> QED BY <1>1, <1>2, <1>3, ByRoutes

(* So does the event that sends.                                           *)
LEMMA SendSemaWaitOrder ==
  ASSUME TypeOK, Awake, OrderOK, NEW k \in Nodes, NEW c \in Classes, SendSemaWait(k, c) PROVE OrderOK'
<1>1. UNCHANGED <<traffic, in, out, bus, send, oport, rq, todo, got>>
  BY DEF SendSemaWait
<1>2. /\ TypeOK' /\ SqSame(k, c) /\ IportSame(k, c)
      /\ \/ sq'[k][c].q = sq[k][c].q /\ iport'[k][c].queue = iport[k][c].queue
         \/ /\ sq[k][c].q # <<>> /\ sq'[k][c].q = Tail(sq[k][c].q)
            /\ iport'[k][c].queue = Append(iport[k][c].queue, Head(sq[k][c].q))
  BY AwakeParts, SendSemaWaitTyped
<1>3. ASSUME NEW n \in Nodes, NEW d \in Nodes, NEW p \in Sources, NEW s \in {0, 6},
             NEW F, NEW G, NEW R, NEW t \in Nat, On(F, G, R, n, p, d, s), Ordered(F, R, t)
      PROVE  Ordered(G, R, t)
  <2>1. /\ R \subseteq Msg /\ \A x \in Stages : F[x] \in Queues /\ G[x] \in Queues
        /\ Laid(F, n, p, d, s) /\ Laid(G, n, p, d, s)' /\ "req" \in Classes
    BY <1>3 DEF On, Classes
  <2>2. /\ G[1] = F[1] /\ G[2] = F[2] /\ G[3] = F[3] /\ G[6] = F[6] /\ G[7] = F[7]
        /\ G[8] = F[8] /\ G[9] = F[9] /\ G[10] = F[10] /\ G[11] = F[11]
    BY <1>1, <2>1 DEF Laid, Carried
  <2>3. CASE G[4] = F[4] /\ G[5] = F[5]
    BY <1>3, <2>2, <2>3, EachStage, SameOrder
  <2>4. CASE ~(G[4] = F[4] /\ G[5] = F[5])
    <3>1. k = n /\ c = "req"
      BY <1>2, <2>1, <2>4 DEF Laid, SqSame, IportSame
    <3>2. PICK f \in Seq(Msg) : f = F[4]
      BY <2>1, EachStage DEF Queues
    <3>3. f # <<>> /\ G[4] = Tail(f) /\ G[5] = Append(F[5], Head(f))
      BY <1>2, <2>1, <2>4, <3>1, <3>2 DEF Laid
    <3>4. PICK m \in Msg : m = Head(f) /\ f[1] = m
      BY <3>3, QueueOf
    <3>5. Cut(G[4], F[4], 1)
      BY <3>2, <3>3, TailCuts
    <3>6. Moves(F, G, R, 4, 1, 5, m)
      BY <2>2, <3>2, <3>3, <3>4, <3>5 DEF Moves, Stages
    <3>7. 4 \in 0..11 /\ 5 \in 0..11
      OBVIOUS
    <3> QED BY <1>3, <2>1, <3>6, <3>7, MoveOrder
  <2> QED BY <2>3, <2>4
<1> QED BY <1>1, <1>2, <1>3, ByRoutes

(* A network keeps the order of messages with the same destination.        *)
LEMMA TravelOrder ==
  ASSUME TypeOK, Awake, OrderOK, NEW k \in Nodes, NEW c \in Classes, NEW i, Travel(k, c, i)
  PROVE  OrderOK'
<1>1. UNCHANGED <<traffic, in, out, bus, send, todo, got>>
  BY Zenon DEF Travel
<1>2. PICK f \in Queues, e \in Nodes :
        /\ f = iport[k][c].queue /\ i \in DOMAIN f /\ e = f[i].dest /\ TypeOK'
        /\ f[i] \in NetFrom(k, c) /\ f[i] \in NetTo(e, c) /\ \A j \in 1..i - 1 : f[j].dest # e
        /\ Cut(iport'[k][c].queue, f, i) /\ oport'[e][c] = Append(oport[e][c], f[i])
        /\ sq'[k][c].q = sq[k][c].q /\ rq'[e][c].q = rq[e][c].q
        /\ SqSame(k, c) /\ IportSame(k, c) /\ OportSame(e, c) /\ RqSame(e, c)
  BY AwakeParts, TravelTyped
<1>3. PICK m \in Msg : m = f[i] /\ m \in NetFrom(k, c) /\ m \in NetTo(e, c)
  BY Zenon, <1>2, OfMessages
<1>4. ASSUME NEW n \in Nodes, NEW d \in Nodes, NEW p \in Sources, NEW s \in {0, 6},
             NEW F, NEW G, NEW R, NEW t \in Nat, On(F, G, R, n, p, d, s), Ordered(F, R, t)
      PROVE  Ordered(G, R, t)
  <2>1. /\ R \subseteq Msg /\ \A x \in Stages : F[x] \in Queues /\ G[x] \in Queues
        /\ Laid(F, n, p, d, s) /\ Laid(G, n, p, d, s)' /\ "req" \in Classes
        /\ R = Mine(n, p, d, s)
    BY <1>4 DEF On, Classes
  <2>2. /\ G[1] = F[1] /\ G[2] = F[2] /\ G[3] = F[3]
        /\ G[8] = F[8] /\ G[9] = F[9] /\ G[10] = F[10] /\ G[11] = F[11]
    BY <1>1, <2>1 DEF Laid, Carried
  <2>3. G[4] = F[4] /\ G[7] = F[7]
    <3>1. SqSame(k, c) /\ RqSame(e, c) /\ sq'[k][c].q = sq[k][c].q /\ rq'[e][c].q = rq[e][c].q
      BY Zenon, <1>2
    <3>2. sq'[n]["req"].q = sq[n]["req"].q /\ rq'[d]["req"].q = rq[d]["req"].q
      BY <2>1, <3>1 DEF SqSame, RqSame
    <3> QED BY <2>1, <3>2 DEF Laid
  <2>4. CASE c # "req"
    <3>1. IportSame(k, c) /\ OportSame(e, c)
      BY Zenon, <1>2
    <3>2. iport'[n]["req"] = iport[n]["req"] /\ oport'[d]["req"] = oport[d]["req"]
      BY <2>1, <2>4, <3>1 DEF IportSame, OportSame
    <3>3. G[5] = F[5] /\ G[6] = F[6]
      BY <2>1, <3>2 DEF Laid
    <3> QED BY <1>4, <2>2, <2>3, <3>3, EachStage, SameOrder
  <2>5. CASE c = "req"
    <3>1. PICK y \in 0..11, z \in 0..11 : y = (IF k = n THEN 5 ELSE 0) /\ z = (IF e = d THEN 6 ELSE 0)
      <4>1. (IF k = n THEN 5 ELSE 0) \in 0..11 /\ (IF e = d THEN 6 ELSE 0) \in 0..11
        OBVIOUS
      <4> QED BY <4>1
    <3>2. IF k = n THEN F[5] = f /\ Cut(G[5], F[5], i) ELSE G[5] = F[5]
      <4>1. F[5] = iport[n]["req"].queue /\ G[5] = iport'[n]["req"].queue
        BY <2>1 DEF Laid
      <4>2. CASE k = n
        BY Zenon, <1>2, <2>5, <4>1, <4>2
      <4>3. CASE k # n
        <5>1. IportSame(k, c)
          BY Zenon, <1>2
        <5>2. iport'[n]["req"] = iport[n]["req"]
          BY <2>1, <4>3, <5>1 DEF IportSame
        <5> QED BY <4>1, <4>3, <5>2
      <4> QED BY <4>2, <4>3
    <3>3. IF e = d THEN G[6] = Append(F[6], m) ELSE G[6] = F[6]
      <4>1. F[6] = oport[d]["req"] /\ G[6] = oport'[d]["req"]
        BY <2>1 DEF Laid
      <4>2. CASE e = d
        <5>1. oport'[e][c] = Append(oport[e][c], m)
          BY Zenon, <1>2, <1>3
        <5> QED BY <2>5, <4>1, <4>2, <5>1
      <4>3. CASE e # d
        <5>1. oport'[d]["req"] = oport[d]["req"]
          BY Zenon, <1>2, <2>1, <4>3 DEF OportSame
        <5> QED BY <4>1, <4>3, <5>1
      <4> QED BY <4>2, <4>3
    <3>4. m \in R => k = n
      BY <1>3, <2>1, OfRoute
    <3>5. ASSUME k = n, e = d, NEW b \in DOMAIN F[5], b < i PROVE F[5][b] \notin R
      <4>1. DOMAIN f = 1..Len(f) /\ Len(f) \in Nat /\ b \in DOMAIN f
        BY <3>2, <3>5 DEF Queues
      <4>2. b \in 1..i - 1
        <5>1. i \in 1..Len(f)
          BY Zenon, <1>2, <4>1
        <5> QED BY <3>5, <4>1, <5>1
      <4>3. f[b].dest # d
        BY Zenon, <1>2, <3>5, <4>2
      <4>4. f[b] \in NetFrom(k, c)
        <5>1. f \in Seq(NetFrom(k, c))
          BY Zenon, <1>2 DEF TypeOK, IportOK
        <5> QED BY <4>1, <5>1, QueueOf
      <4>5. f[b] \in R => f[b].dest = d
        BY <2>1, <4>4, OfRoute
      <4> QED BY <3>2, <3>5, <4>3, <4>5
    <3>6. \A x \in Stages : /\ x = y => Cut(G[x], F[x], i) /\ F[x][i] = m
                            /\ x = z => G[x] = Append(F[x], m)
                            /\ x \notin {y, z} => G[x] = F[x]
      <4>1. y = 5 \/ (y = 0 /\ G[5] = F[5])
        BY <3>1, <3>2
      <4>2. z = 6 \/ (z = 0 /\ G[6] = F[6])
        BY <3>1, <3>3
      <4>3. y = 5 => Cut(G[5], F[5], i) /\ F[5][i] = m
        BY <1>3, <3>1, <3>2
      <4>4. z = 6 => G[6] = Append(F[6], m)
        BY <3>1, <3>3
      <4>5. \A x \in Stages : x # 5 /\ x # 6 => G[x] = F[x]
        BY <2>2, <2>3, EachStage
      <4>6. 0 \notin Stages
        BY DEF Stages
      <4> QED BY <4>1, <4>2, <4>3, <4>4, <4>5, <4>6
    <3>7. y = z => y = 0
      BY <3>1
    <3>8. m \in R /\ z # 0 =>
            /\ y # 0 /\ y < z
            /\ \A b \in DOMAIN F[y] : b < i => F[y][b] \notin R
            /\ \A x \in Stages : y < x /\ x < z => \A b \in DOMAIN F[x] : F[x][b] \notin R
      BY <3>1, <3>4, <3>5, EachStage
    <3>9. Moves(F, G, R, y, i, z, m)
      BY <3>6, <3>7, <3>8 DEF Moves
    <3> QED BY <1>4, <2>1, <3>9, MoveOrder
  <2> QED BY <2>4, <2>5
<1>5. TypeOK' /\ UNCHANGED <<traffic, todo>>
  BY Zenon, <1>1, <1>2
<1>6. \A n, d \in Nodes, p \in Sources, s \in {0, 6} : \A F, G, R : \A t \in Nat :
        On(F, G, R, n, p, d, s) /\ Ordered(F, R, t) => Ordered(G, R, t)
  BY <1>4
<1> QED BY <1>5, <1>6, ByRoutes

(* The event that receives puts a message into the port of the bus only    *)
(* when SmnetRcv holds none.                                               *)
LEMMA RcvSemaWaitOrder ==
  ASSUME TypeOK, Awake, OrderOK, NEW k \in Nodes, NEW c \in Classes, RcvSemaWait(k, c) PROVE OrderOK'
<1>1. UNCHANGED <<traffic, out, send, sq, iport, todo, got>>
  BY DEF RcvSemaWait
<1>2. /\ TypeOK' /\ RqSame(k, c) /\ (\A i \in Nodes, j \in InPorts : Carried(i, j)' = Carried(i, j))
      /\ \/ UNCHANGED <<in, bus, oport>> /\ rq'[k][c].q = rq[k][c].q
         \/ /\ oport[k][c] # <<>> /\ oport'[k][c] = Tail(oport[k][c]) /\ OportSame(k, c)
            /\ rq'[k][c].q = Append(rq[k][c].q, Head(oport[k][c])) /\ UNCHANGED <<in, bus>>
         \/ /\ oport[k][c] # <<>> /\ oport'[k][c] = Tail(oport[k][c]) /\ OportSame(k, c)
            /\ in'[k][RcvPort(c)] = AddReq(c, in[k][RcvPort(c)], Head(oport[k][c]))
            /\ InSame(k, RcvPort(c)) /\ rq' = rq /\ rq[k][c].q = <<>>
  BY AwakeParts, RcvSemaWaitTyped
<1>3. ASSUME NEW n \in Nodes, NEW d \in Nodes, NEW p \in Sources, NEW s \in {0, 6},
             NEW F, NEW G, NEW R, NEW t \in Nat, On(F, G, R, n, p, d, s), Ordered(F, R, t)
      PROVE  Ordered(G, R, t)
  <2>1. /\ R \subseteq Msg /\ \A x \in Stages : F[x] \in Queues /\ G[x] \in Queues
        /\ Laid(F, n, p, d, s) /\ Laid(G, n, p, d, s)' /\ "req" \in Classes
    BY <1>3 DEF On, Classes
  <2>2. p \in InPorts /\ 4 \in InPorts /\ RcvPort(c) \in {4, 5} /\ p \notin {4, 5}
        /\ (RcvPort(c) = 4 <=> c = "req")
    BY DEF InPorts, Sources, RcvPort, Classes
  <2>3. G[2] = F[2] /\ G[9] = F[9]
    BY <1>2, <2>1, <2>2 DEF Laid
  <2>4. G[3] = F[3] /\ G[4] = F[4] /\ G[5] = F[5] /\ G[10] = F[10] /\ G[11] = F[11]
    BY <1>1, <2>1 DEF Laid
  <2>5. G[1] = F[1]
    <3>1. in'[n][p] = in[n][p]
      BY <1>2, <2>2 DEF InSame
    <3> QED BY <2>1, <3>1 DEF Laid
  <2>6. CASE G[6] = F[6] /\ G[7] = F[7] /\ G[8] = F[8]
    BY <1>3, <2>3, <2>4, <2>5, <2>6, EachStage, SameOrder
  <2>7. CASE ~(G[6] = F[6] /\ G[7] = F[7] /\ G[8] = F[8])
    <3>1. k = d /\ c = "req"
      <4>1. SUFFICES ASSUME ~(k = d /\ c = "req") PROVE FALSE
        OBVIOUS
      <4>2. oport'[d]["req"] = oport[d]["req"]
        BY <1>2, <2>1, <4>1 DEF OportSame
      <4>3. rq'[d]["req"] = rq[d]["req"]
        BY <1>2, <2>1, <4>1 DEF RqSame
      <4>4. in'[d][4] = in[d][4]
        BY <1>2, <2>2, <4>1 DEF InSame
      <4> QED BY <2>1, <2>7, <4>2, <4>3, <4>4 DEF Laid
    <3>2. PICK f \in Seq(Msg) : f = F[6]
      BY <2>1, EachStage DEF Queues
    <3>3. /\ f # <<>> /\ G[6] = Tail(f)
          /\ \/ G[7] = Append(F[7], Head(f)) /\ G[8] = F[8]
             \/ G[7] = F[7] /\ F[7] = <<>> /\ G[8] = Append(F[8], Head(f))
      <4>1. /\ F[6] = oport[k][c] /\ G[6] = oport'[k][c] /\ F[7] = rq[k][c].q /\ G[7] = rq'[k][c].q
            /\ F[8] = in[k][RcvPort(c)] /\ G[8] = in'[k][RcvPort(c)]
        BY <2>1, <2>2, <3>1 DEF Laid
      <4>2. AddReq(c, F[8], Head(f)) = Append(F[8], Head(f))
        BY <3>1 DEF AddReq
      <4> QED BY <1>2, <2>7, <3>2, <4>1, <4>2
    <3>4. PICK m \in Msg : m = Head(f) /\ f[1] = m
      BY <3>3, QueueOf
    <3>5. Cut(G[6], F[6], 1) /\ F[6][1] = m
      BY <3>2, <3>3, <3>4, TailCuts
    <3>6. 6 \in 0..11 /\ 7 \in 0..11 /\ 8 \in 0..11
      OBVIOUS
    <3>7. CASE G[7] = Append(F[7], m) /\ G[8] = F[8]
      <4>1. \A x \in Stages : x \notin {6, 7} => G[x] = F[x]
        BY <2>3, <2>4, <2>5, <3>7, EachStage
      <4>2. 6 < 7 /\ \A x \in Stages : ~(6 < x /\ x < 7)
        BY EachStage
      <4>3. Moves(F, G, R, 6, 1, 7, m)
        BY <2>1, <3>5, <3>7, <4>1, <4>2, EachStage, HeadMoves
      <4> QED BY <1>3, <2>1, <3>6, <4>3, MoveOrder
    <3>8. CASE G[7] = F[7] /\ F[7] = <<>> /\ G[8] = Append(F[8], m)
      <4>1. \A x \in Stages : x \notin {6, 8} => G[x] = F[x]
        BY SMTT(30), <2>3, <2>4, <2>5, <3>8, EachStage
      <4>2. 6 < 8 /\ \A x \in Stages : 6 < x /\ x < 8 => F[x] = <<>>
        BY <3>8, EachStage
      <4>3. Moves(F, G, R, 6, 1, 8, m)
        BY <2>1, <3>5, <3>8, <4>1, <4>2, EachStage, HeadMoves
      <4> QED BY <1>3, <2>1, <3>6, <4>3, MoveOrder
    <3> QED BY <3>3, <3>4, <3>7, <3>8
  <2> QED BY <2>6, <2>7
<1> QED BY <1>1, <1>2, <1>3, ByRoutes

(* The bus delivers a message to SmnetSend or, when it stays in its node   *)
(* or has come to it, to a module.                                         *)
LEMMA BusDeliverOrder ==
  ASSUME TypeOK, Awake, OrderOK, NEW k \in Nodes, BusDeliver(k) PROVE OrderOK'
<1>1. UNCHANGED <<traffic, in, sq, iport, oport, rq, todo, got>>
  BY DEF BusDeliver
<1>2. PICK q \in InPorts, to \in OutPorts, m \in Msg :
        /\ TypeOK' /\ bus[k].state = "deliver" /\ bus'[k].state = "start"
        /\ (\A i \in Nodes : i # k => bus'[i] = bus[i])
        /\ bus[k].port = q /\ bus[k].req = m /\ m \in AtBus(k, q) /\ m \in PastBus(k, to)
        /\ out'[k][to] = Append(out[k][to], m) /\ OutSame(k, to)
  BY AwakeParts, BusDeliverTyped, OfMessages
<1>3. \A j : Carried(k, j) = (IF j = q THEN <<m>> ELSE <<>>) /\ Carried(k, j)' = <<>>
  BY <1>2, CarriedIs
<1>4. \A i \in Nodes : \A j : i # k => Carried(i, j)' = Carried(i, j)
  BY <1>2, CarriedIs
<1>5. ASSUME NEW n \in Nodes, NEW d \in Nodes, NEW p \in Sources, NEW s \in {0, 6},
             NEW F, NEW G, NEW R, NEW t \in Nat, On(F, G, R, n, p, d, s), Ordered(F, R, t)
      PROVE  Ordered(G, R, t)
  <2>1. /\ R \subseteq Msg /\ \A x \in Stages : F[x] \in Queues /\ G[x] \in Queues
        /\ Laid(F, n, p, d, s) /\ Laid(G, n, p, d, s)' /\ R = Mine(n, p, d, s)
    BY <1>5 DEF On
  <2>2. 2 \in OutPorts /\ s \in OutPorts /\ s # 2 /\ p # 4
    BY DEF OutPorts, Sinks, Sources
  <2>3. /\ G[1] = F[1] /\ G[4] = F[4] /\ G[5] = F[5] /\ G[6] = F[6] /\ G[7] = F[7]
        /\ G[8] = F[8] /\ G[11] = F[11]
    BY <1>1, <2>1 DEF Laid
  <2>4. PICK y \in 0..11 : y = IF k = n /\ q = p THEN 2 ELSE IF k = d /\ q = 4 THEN 9 ELSE 0
    <3>1. (IF k = n /\ q = p THEN 2 ELSE IF k = d /\ q = 4 THEN 9 ELSE 0) \in 0..11
      OBVIOUS
    <3> QED BY <3>1
  <2>5. PICK z \in 0..11 : z = IF k = n /\ to = 2 THEN 3 ELSE IF k = d /\ to = s THEN 10 ELSE 0
    <3>1. (IF k = n /\ to = 2 THEN 3 ELSE IF k = d /\ to = s THEN 10 ELSE 0) \in 0..11
      OBVIOUS
    <3> QED BY <3>1
  <2>6. Cut(<<>>, <<m>>, 1) /\ <<m>>[1] = m
    BY OneMessage
  <2>7. IF y = 2 THEN Cut(G[2], F[2], 1) /\ F[2][1] = m ELSE G[2] = F[2]
    <3>1. F[2] = Carried(n, p) /\ G[2] = Carried(n, p)'
      BY <2>1 DEF Laid
    <3>2. CASE k = n /\ q = p
      <4>1. F[2] = <<m>> /\ G[2] = <<>> /\ y = 2
        BY <1>3, <2>4, <3>1, <3>2
      <4> QED BY <2>6, <4>1
    <3>3. CASE ~(k = n /\ q = p)
      <4>1. G[2] = F[2]
        BY <1>3, <1>4, <3>1, <3>3
      <4>2. y # 2
        BY <2>4, <3>3
      <4> QED BY <4>1, <4>2
    <3> QED BY <3>2, <3>3
  <2>8. IF y = 9 THEN Cut(G[9], F[9], 1) /\ F[9][1] = m ELSE G[9] = F[9]
    <3>1. F[9] = Carried(d, 4) /\ G[9] = Carried(d, 4)'
      BY <2>1 DEF Laid
    <3>2. CASE k = d /\ q = 4
      <4>1. F[9] = <<m>> /\ G[9] = <<>> /\ y = 9
        BY <1>3, <2>2, <2>4, <3>1, <3>2
      <4> QED BY <2>6, <4>1
    <3>3. CASE ~(k = d /\ q = 4)
      <4>1. G[9] = F[9]
        BY <1>3, <1>4, <3>1, <3>3
      <4>2. y # 9
        BY <2>4, <3>3
      <4> QED BY <4>1, <4>2
    <3> QED BY <3>2, <3>3
  <2>9. IF z = 3 THEN G[3] = Append(F[3], m) ELSE G[3] = F[3]
    <3>1. F[3] = out[n][2] /\ G[3] = out'[n][2]
      BY <2>1 DEF Laid
    <3>2. CASE k = n /\ to = 2
      <4>1. out'[k][to] = Append(out[k][to], m) /\ z = 3
        BY <1>2, <2>5, <3>2
      <4> QED BY <3>1, <3>2, <4>1
    <3>3. CASE ~(k = n /\ to = 2)
      <4>1. out'[n][2] = out[n][2] /\ z # 3
        BY <1>2, <2>2, <2>5, <3>3 DEF OutSame
      <4> QED BY <3>1, <4>1
    <3> QED BY <3>2, <3>3
  <2>10. IF z = 10 THEN G[10] = Append(F[10], m) ELSE G[10] = F[10]
    <3>1. F[10] = out[d][s] /\ G[10] = out'[d][s]
      BY <2>1 DEF Laid
    <3>2. CASE k = d /\ to = s
      <4>1. out'[k][to] = Append(out[k][to], m) /\ z = 10
        BY <1>2, <2>2, <2>5, <3>2
      <4> QED BY <3>1, <3>2, <4>1
    <3>3. CASE ~(k = d /\ to = s)
      <4>1. out'[d][s] = out[d][s] /\ z # 10
        BY <1>2, <2>2, <2>5, <3>3 DEF OutSame
      <4> QED BY <3>1, <4>1
    <3> QED BY <3>2, <3>3
  <2>11. m \in R /\ z # 0 => (y = 2 /\ z = 3) \/ (y = 2 /\ z = 10 /\ n = d) \/ (y = 9 /\ z = 10)
    <3> SUFFICES ASSUME m \in R, z # 0
                 PROVE  (y = 2 /\ z = 3) \/ (y = 2 /\ z = 10 /\ n = d) \/ (y = 9 /\ z = 10)
      OBVIOUS
    <3>1. m \in Mine(n, p, d, s)
      BY <2>1
    <3>2. CASE q \in Sources
      <4>1. k = n /\ q = p
        BY <1>2, <3>1, <3>2, OfRoute DEF AtBus
      <4>2. y = 2 /\ (z = 3 \/ (z = 10 /\ k = d))
        BY <2>4, <2>5, <4>1
      <4> QED BY <4>1, <4>2
    <3>3. CASE q \notin Sources
      <4>1. m \in NetTo(k, IF q = 4 THEN "req" ELSE "rep") /\ (IF q = 4 THEN "req" ELSE "rep") \in Classes
        BY <1>2, <3>3 DEF AtBus, Classes
      <4>2. k = d /\ q = 4 /\ n # d
        BY <3>1, <4>1, OfRoute
      <4>3. y = 9 /\ z = 10
        BY <2>2, <2>4, <2>5, <4>2
      <4> QED BY <4>3
    <3> QED BY <3>2, <3>3
  <2>12. \A x \in Stages : /\ x = y => Cut(G[x], F[x], 1) /\ F[x][1] = m
                           /\ x = z => G[x] = Append(F[x], m)
                           /\ x \notin {y, z} => G[x] = F[x]
    <3>1. y \in {0, 2, 9} /\ z \in {0, 3, 10} /\ 0 \notin Stages
      BY <2>4, <2>5 DEF Stages
    <3>2. \A x \in Stages : x \notin {2, 3, 9, 10} => G[x] = F[x]
      BY <2>3, EachStage
    <3> QED BY <2>7, <2>8, <2>9, <2>10, <3>1, <3>2
  <2>13. m \in R /\ z # 0 =>
            /\ y # 0 /\ y < z
            /\ \A b \in DOMAIN F[y] : b < 1 => F[y][b] \notin R
            /\ \A x \in Stages : y < x /\ x < z => \A b \in DOMAIN F[x] : F[x][b] \notin R
    <3> SUFFICES ASSUME m \in R, z # 0
                 PROVE  /\ y # 0 /\ y < z
                        /\ \A b \in DOMAIN F[y] : b < 1 => F[y][b] \notin R
                        /\ \A x \in Stages : y < x /\ x < z => \A b \in DOMAIN F[x] : F[x][b] \notin R
      OBVIOUS
    <3>1. y \in Stages /\ z \in Stages /\ y < z
      BY <2>11, EachStage
    <3>2. \A b \in DOMAIN F[y] : ~(b < 1)
      <4>1. F[y] \in Seq(Msg)
        BY <2>1, <3>1 DEF Queues
      <4> QED BY <4>1
    <3>3. ASSUME NEW x \in Stages, y < x, x < z PROVE \A b \in DOMAIN F[x] : F[x][b] \notin R
      <4>1. y = 2 /\ z = 10 /\ n = d
        BY <2>11, <3>3, EachStage
      <4> QED BY <2>1, <3>3, <4>1, Homebound
    <3>4. y # 0
      BY <2>11
    <3> QED BY <3>1, <3>2, <3>3, <3>4
  <2>14. y = z => y = 0
    BY <2>4, <2>5
  <2>15. Moves(F, G, R, y, 1, z, m)
    BY <2>12, <2>13, <2>14 DEF Moves
  <2> QED BY <1>5, <2>1, <2>15, MoveOrder
<1> QED BY <1>1, <1>2, <1>5, ByRoutes

(* The bus takes a message, and the handshake refills the port behind it.  *)
LEMMA BusStartOrder ==
  ASSUME TypeOK, Awake, OrderOK, NEW k \in Nodes, BusStart(k) PROVE OrderOK'
<1>1. UNCHANGED <<traffic, out, send, sq, iport, oport, todo, got>>
  BY Zenon DEF BusStart
<1>2. /\ TypeOK' /\ bus[k].state = "start" /\ (\A i \in Nodes : i # k => bus'[i] = bus[i])
      /\ \/ UNCHANGED <<in, rq>> /\ bus'[k].state # "deliver"
         \/ \E q \in InPorts, m \in Msg :
              /\ in[k][q] # <<>> /\ m = Head(in[k][q]) /\ InSame(k, q)
              /\ bus'[k].state = "deliver" /\ bus'[k].req = m /\ bus'[k].port = q
              /\ \/ in'[k][q] = Tail(in[k][q]) /\ rq' = rq
                 \/ \E c \in Classes :
                      /\ q = RcvPort(c) /\ rq[k][c].q # <<>> /\ rq'[k][c].q = Tail(rq[k][c].q)
                      /\ in'[k][q] = AddReq(c, Tail(in[k][q]), Head(rq[k][c].q)) /\ RqSame(k, c)
  BY AwakeParts, BusStartTyped
<1>3. /\ \A j : Carried(k, j) = <<>>
      /\ \A i \in Nodes : \A j : i # k => Carried(i, j)' = Carried(i, j)
  BY <1>2, CarriedIs
<1>4. ASSUME NEW n \in Nodes, NEW d \in Nodes, NEW p \in Sources, NEW s \in {0, 6},
             NEW F, NEW G, NEW R, NEW t \in Nat, On(F, G, R, n, p, d, s), Ordered(F, R, t)
      PROVE  Ordered(G, R, t)
  <2>1. /\ R \subseteq Msg /\ \A x \in Stages : F[x] \in Queues /\ G[x] \in Queues
        /\ Laid(F, n, p, d, s) /\ Laid(G, n, p, d, s)' /\ "req" \in Classes
    BY <1>4 DEF On, Classes
  <2>2. p \in InPorts /\ 4 \in InPorts /\ p # 4 /\ p # 5
    BY DEF InPorts, Sources
  <2>3. /\ G[3] = F[3] /\ G[4] = F[4] /\ G[5] = F[5] /\ G[6] = F[6] /\ G[10] = F[10] /\ G[11] = F[11]
    BY <1>1, <2>1 DEF Laid
  <2>4. CASE UNCHANGED <<in, rq>> /\ bus'[k].state # "deliver"
    <3>1. \A i \in Nodes : \A j : Carried(i, j)' = Carried(i, j)
      BY <1>3, <2>4, CarriedIs
    <3>2. G[1] = F[1] /\ G[2] = F[2] /\ G[7] = F[7] /\ G[8] = F[8] /\ G[9] = F[9]
      BY <2>1, <2>4, <3>1 DEF Laid
    <3> QED BY <1>4, <2>3, <3>2, EachStage, SameOrder
  <2>5. CASE ~(UNCHANGED <<in, rq>> /\ bus'[k].state # "deliver")
    <3>1. PICK q \in InPorts, m \in Msg :
              /\ in[k][q] # <<>> /\ m = Head(in[k][q]) /\ InSame(k, q)
              /\ bus'[k].state = "deliver" /\ bus'[k].req = m /\ bus'[k].port = q
              /\ \/ in'[k][q] = Tail(in[k][q]) /\ rq' = rq
                 \/ \E c \in Classes :
                      /\ q = RcvPort(c) /\ rq[k][c].q # <<>> /\ rq'[k][c].q = Tail(rq[k][c].q)
                      /\ in'[k][q] = AddReq(c, Tail(in[k][q]), Head(rq[k][c].q)) /\ RqSame(k, c)
      BY <1>2, <2>5
    <3>2. \A j : Carried(k, j)' = IF j = q THEN <<m>> ELSE <<>>
      BY <3>1, CarriedIs
    <3>3. Append(<<>>, m) = <<m>>
      BY OneMessage
    <3>4. IF k = n /\ q = p THEN F[2] = <<>> /\ G[2] = Append(F[2], m) ELSE G[2] = F[2]
      <4>1. F[2] = Carried(n, p) /\ G[2] = Carried(n, p)'
        BY <2>1 DEF Laid
      <4>2. CASE k = n /\ q = p
        BY <1>3, <3>2, <3>3, <4>1, <4>2
      <4>3. CASE ~(k = n /\ q = p)
        BY <1>3, <3>2, <4>1, <4>3
      <4> QED BY <4>2, <4>3
    <3>5. IF k = d /\ q = 4 THEN F[9] = <<>> /\ G[9] = Append(F[9], m) ELSE G[9] = F[9]
      <4>1. F[9] = Carried(d, 4) /\ G[9] = Carried(d, 4)'
        BY <2>1 DEF Laid
      <4>2. CASE k = d /\ q = 4
        BY <1>3, <3>2, <3>3, <4>1, <4>2
      <4>3. CASE ~(k = d /\ q = 4)
        BY <1>3, <3>2, <4>1, <4>3
      <4> QED BY <4>2, <4>3
    <3>6. /\ ~(k = n /\ q = p) => G[1] = F[1]
          /\ ~(k = d /\ q = 4) => G[8] = F[8]
      <4>1. F[1] = in[n][p] /\ G[1] = in'[n][p] /\ F[8] = in[d][4] /\ G[8] = in'[d][4]
        BY <2>1 DEF Laid
      <4> QED BY <2>2, <3>1, <4>1 DEF InSame
    <3>7. ~(k = d /\ q = 4) => G[7] = F[7]
      <4>1. SUFFICES ASSUME ~(k = d /\ q = 4) PROVE rq'[d]["req"].q = rq[d]["req"].q
        BY <2>1 DEF Laid
      <4>2. CASE rq' = rq
        BY <4>2
      <4>3. CASE rq' # rq
        <5>1. PICK c \in Classes : q = RcvPort(c) /\ RqSame(k, c)
          BY <3>1, <4>3
        <5>2. k # d \/ c # "req"
          BY <4>1, <5>1 DEF RcvPort
        <5> QED BY <2>1, <5>1, <5>2 DEF RqSame
      <4> QED BY <4>2, <4>3
    <3>8. CASE k = n /\ q = p
      <4>1. PICK f \in Seq(Msg) : f = F[1]
        BY <2>1, EachStage DEF Queues
      <4>2. f # <<>> /\ m = Head(f) /\ G[1] = Tail(f)
        <5>1. F[1] = in[k][q] /\ G[1] = in'[k][q]
          BY <2>1, <3>8 DEF Laid
        <5>2. in'[k][q] = Tail(in[k][q])
          BY <2>2, <3>1, <3>8 DEF RcvPort
        <5> QED BY <3>1, <4>1, <5>1, <5>2
      <4>3. Cut(G[1], F[1], 1) /\ F[1][1] = m
        BY <4>1, <4>2, TailCuts, QueueOf
      <4>4. \A x \in Stages : x \notin {1, 2} => G[x] = F[x]
        BY <2>2, <2>3, <3>5, <3>6, <3>7, <3>8, EachStage
      <4>5. \A x \in Stages : ~(1 < x /\ x < 2)
        BY EachStage
      <4>6. G[2] = Append(F[2], m) /\ 1 < 2
        BY <3>4, <3>8
      <4>7. Moves(F, G, R, 1, 1, 2, m)
        BY <2>1, <4>3, <4>4, <4>5, <4>6, EachStage, HeadMoves
      <4>8. 1 \in 0..11 /\ 2 \in 0..11
        OBVIOUS
      <4> QED BY <1>4, <2>1, <4>7, <4>8, MoveOrder
    <3>9. CASE ~(k = n /\ q = p) /\ ~(k = d /\ q = 4)
      BY <1>4, <2>3, <3>4, <3>5, <3>6, <3>7, <3>9, EachStage, SameOrder
    <3>10. CASE k = d /\ q = 4
      <4>1. ~(k = n /\ q = p)
        BY <2>2, <3>10
      <4>2. PICK f \in Seq(Msg), e \in Seq(Msg) : f = F[8] /\ e = F[7]
        BY <2>1, EachStage DEF Queues
      <4>3. /\ f # <<>> /\ m = Head(f)
            /\ \/ G[8] = Tail(f) /\ G[7] = F[7]
               \/ e # <<>> /\ G[7] = Tail(e) /\ G[8] = Append(Tail(f), Head(e))
        <5>1. /\ F[8] = in[k][q] /\ G[8] = in'[k][q] /\ F[7] = rq[k]["req"].q /\ G[7] = rq'[k]["req"].q
          BY <2>1, <3>10 DEF Laid
        <5>2. \A c \in Classes : q = RcvPort(c) => c = "req" /\ \A u, v : AddReq(c, u, v) = Append(u, v)
          BY <3>10 DEF Classes, RcvPort, AddReq
        <5>3. CASE in'[k][q] = Tail(in[k][q]) /\ rq' = rq
          BY SMTT(30), <3>1, <4>2, <5>1, <5>3
        <5>4. CASE ~(in'[k][q] = Tail(in[k][q]) /\ rq' = rq)
          <6>1. PICK c \in Classes :
                  /\ q = RcvPort(c) /\ rq[k][c].q # <<>> /\ rq'[k][c].q = Tail(rq[k][c].q)
                  /\ in'[k][q] = AddReq(c, Tail(in[k][q]), Head(rq[k][c].q))
            BY <3>1, <5>4
          <6>2. c = "req" /\ in'[k][q] = Append(Tail(in[k][q]), Head(rq[k][c].q))
            BY <5>2, <6>1
          <6> QED BY <3>1, <4>2, <5>1, <6>1, <6>2
        <5> QED BY <5>3, <5>4
      <4>4. Tail(f) \in Queues /\ Cut(Tail(f), f, 1) /\ f[1] = m
        BY <4>2, <4>3, TailCuts, QueueOf DEF Queues
      <4>5. PICK H : /\ H[8] = Tail(f) /\ H[9] = Append(F[9], m)
                     /\ \A x \in Stages : x \notin {8, 9} => H[x] = F[x]
        <5> DEFINE h == [x \in Stages |-> IF x = 8 THEN Tail(f) ELSE IF x = 9 THEN Append(F[9], m) ELSE F[x]]
        <5>1. /\ h[8] = Tail(f) /\ h[9] = Append(F[9], m)
              /\ \A x \in Stages : x \notin {8, 9} => h[x] = F[x]
          BY EachStage
        <5> QED BY <5>1
      <4>6. \A x \in Stages : H[x] \in Queues
        <5>1. H[9] \in Queues /\ H[8] \in Queues
          <6>1. H[9] = G[9]
            BY <3>5, <3>10, <4>5
          <6> QED BY <2>1, <4>4, <4>5, <6>1, EachStage
        <5> QED BY <2>1, <4>5, <5>1
      <4>7. \A x \in Stages : ~(8 < x /\ x < 9) /\ ~(7 < x /\ x < 8)
        BY EachStage
      <4>8. 8 < 9 /\ 7 < 8 /\ 7 \in 0..11 /\ 8 \in 0..11 /\ 9 \in 0..11
        OBVIOUS
      <4>9. Moves(F, H, R, 8, 1, 9, m)
        <5>1. Cut(H[8], F[8], 1) /\ F[8][1] = m
          BY <4>2, <4>4, <4>5
        <5> QED BY <2>1, <4>5, <4>7, <4>8, <5>1, EachStage, HeadMoves
      <4>10. Ordered(H, R, t)
        BY <1>4, <2>1, <4>6, <4>8, <4>9, MoveOrder
      <4>11. G[1] = F[1] /\ G[2] = F[2] /\ G[9] = H[9]
        BY <3>4, <3>5, <3>6, <3>10, <4>1, <4>5
      <4>12. \A x \in Stages : x \notin {7, 8} => G[x] = H[x]
        <5>1. \A x \in Stages : x \notin {7, 8, 9} => G[x] = F[x] /\ H[x] = F[x]
          BY <2>3, <4>5, <4>11, EachStage
        <5> QED BY <4>11, <5>1
      <4>13. CASE G[8] = Tail(f) /\ G[7] = F[7]
        <5>1. H[7] = F[7]
          BY <4>5, EachStage
        <5>2. \A x \in Stages : G[x] = H[x]
          BY <4>5, <4>12, <4>13, <5>1
        <5> QED BY <4>10, <5>2, SameOrder
      <4>14. CASE e # <<>> /\ G[7] = Tail(e) /\ G[8] = Append(Tail(f), Head(e))
        <5>1. H[7] = e
          BY <4>2, <4>5, EachStage
        <5>2. PICK w \in Msg : w = Head(e) /\ e[1] = w
          BY <4>14, QueueOf
        <5>3. Cut(G[7], H[7], 1) /\ H[7][1] = w
          BY <4>14, <5>1, <5>2, TailCuts
        <5>4. G[8] = Append(H[8], w)
          BY SMTT(30), <4>5, <4>14, <5>2
        <5>5. Moves(H, G, R, 7, 1, 8, w)
          BY <4>6, <4>7, <4>8, <4>12, <5>3, <5>4, EachStage, HeadMoves
        <5> QED BY <2>1, <4>6, <4>8, <4>10, <5>5, MoveOrder
      <4> QED BY <4>3, <4>13, <4>14
    <3> QED BY <3>8, <3>9, <3>10
  <2> QED BY <2>4, <2>5
<1> QED BY <1>1, <1>2, <1>4, ByRoutes
-----------------------------------------------------------------------------

(* The places are empty at first.                                          *)
LEMMA InitIInv ==
  ASSUME Init PROVE IInv
<1>1. TypeOK /\ Awake
  BY InitAwake
<1>2. ASSUME NEW n \in Nodes, NEW d \in Nodes, NEW p \in Sources, NEW s \in {0, 6}
      PROVE  Ordered(Route(n, p, d, s), Mine(n, p, d, s), todo[n][p])
  <2>1. PICK F : F = Route(n, p, d, s)
    OBVIOUS
  <2>2. p \in InPorts /\ 4 \in InPorts /\ 2 \in OutPorts /\ s \in OutPorts /\ s \in Sinks /\ "req" \in Classes
    BY DEF InPorts, OutPorts, Sinks, Classes
  <2>3. F[1] = <<>> /\ F[3] = <<>> /\ F[8] = <<>> /\ F[10] = <<>> /\ F[11] = <<>>
    BY <2>1, <2>2 DEF Init, Route
  <2>4. F[4] = <<>> /\ F[5] = <<>> /\ F[6] = <<>> /\ F[7] = <<>>
    BY <2>1, <2>2 DEF Init, Route
  <2>5. F[2] = <<>> /\ F[9] = <<>>
    BY <2>1 DEF Init, Route, Carried
  <2>6. \A x \in Stages : F[x] = <<>>
    BY <2>3, <2>4, <2>5, EachStage
  <2> QED BY <2>1, <2>6 DEF Ordered
<1> QED BY <1>1, <1>2 DEF IInv, OrderOK

(* A step that changes nothing.                                            *)
LEMMA StutterIInv ==
  ASSUME IInv, UNCHANGED vars PROVE IInv'
<1>1. TypeOK' /\ Awake'
  BY StutterAwake DEF IInv
<1>3. UNCHANGED <<traffic, in, out, bus, sq, iport, oport, rq, todo, got>>
  BY DEF vars
<1>4. ASSUME NEW n \in Nodes, NEW d \in Nodes, NEW p \in Sources, NEW s \in {0, 6}
      PROVE  /\ Route(n, p, d, s)' = Route(n, p, d, s) /\ Mine(n, p, d, s)' = Mine(n, p, d, s)
             /\ todo'[n][p] = todo[n][p]
  <2>1. Route(n, p, d, s)' = Route(n, p, d, s) /\ todo'[n][p] = todo[n][p]
    BY <1>3 DEF Route, Carried
  <2>2. s \in Sinks
    BY DEF Sinks
  <2> QED BY <1>3, <2>1, <2>2, SameSets
<1>5. OrderOK'
  BY <1>4 DEF IInv, OrderOK
<1> QED BY <1>1, <1>5 DEF IInv

(* Every step keeps the invariant.                                         *)
LEMMA NextIInv ==
  ASSUME IInv, [Next]_vars PROVE IInv'
<1>1. TypeOK /\ Awake /\ OrderOK
  BY DEF IInv
<1>2. CASE Next
  <2>1. TypeOK' /\ Awake'
    BY <1>1, <1>2, AwakeStep
  <2>2. OrderOK'
    BY <1>1, <1>2, BusStartOrder, BusDeliverOrder, SmnetSendOrder, SendSemaWaitOrder, RcvSemaWaitOrder,
       TravelOrder, PutOrder, TakeOrder DEF Next, Other
  <2> QED BY <2>1, <2>2 DEF IInv
<1>3. CASE UNCHANGED vars
  BY <1>3, StutterIInv
<1> QED BY <1>2, <1>3

(* No message is lost to the routing or to a full port, none gets to a     *)
(* module that it is not for, and none overtakes one of its sender when    *)
(* both are requests or coherence messages.                                *)
LEMMA IInvDelivers ==
  ASSUME IInv PROVE Delivery
<1>1. TypeOK /\ OrderOK
  BY DEF IInv
<1>2. NoFatal
  <2>1. ASSUME NEW n \in Nodes PROVE bus[n].state # "fatal" /\ send[n].state # "fatal"
    <3>1. bus[n].state \in {"asleep", "start", "deliver"} /\ send[n].state \in {"asleep", "awake"}
      BY <1>1 DEF TypeOK, BusOK
    <3> QED BY <3>1
  <2>2. ASSUME NEW n \in Nodes, NEW c \in Classes PROVE sq[n][c].ev # "fatal"
    <3>1. sq[n][c].ev \in {"idle", "start", "ready", "waiting"}
      BY <1>1 DEF TypeOK, SqOK
    <3> QED BY <3>1
  <2> QED BY Zenon, <2>1, <2>2 DEF NoFatal
<1>3. ASSUME NEW n \in Nodes, NEW p \in Sinks, NEW i \in DOMAIN got[n][p] PROVE got[n][p][i] \in There(n, p)
  <2>1. got[n][p] \in Seq(There(n, p))
    BY <1>1 DEF TypeOK, GotOK
  <2> QED BY <2>1, QueueOf
<1>4. ASSUME NEW n \in Nodes, NEW p \in Sinks, NEW i \in DOMAIN got[n][p], NEW j \in DOMAIN got[n][p],
             Class(got[n][p][i]) = "req", i < j, got[n][p][i].at = got[n][p][j].at
      PROVE  got[n][p][i].i < got[n][p][j].i
  <2>1. PICK l, m \in There(n, p) : l = got[n][p][i] /\ m = got[n][p][j]
    BY <1>3
  <2>2. PICK k \in Nodes, q \in Sources : l.at = <<k, q>> /\ m.at = <<k, q>>
    BY <1>4, <2>1 DEF There, Msg
  <2>3. p \in {0, 6}
    <3>1. Entry(l).type \in {"REQUEST", "COHE"} /\ Goal(l) = <<n, p>>
      BY <1>4, <2>1 DEF Class, There
    <3> QED BY <3>1 DEF Goal
  <2>4. Class(m) = "req"
    <3>1. Goal(m) = <<n, p>> /\ m \in Msg /\ Known(m)
      BY <2>1 DEF There
    <3>2. Entry(m).type \in Types
      BY <1>1, <3>1, EntryType
    <3> QED BY <2>3, <3>1, <3>2 DEF Goal, Class, Types
  <2>5. l \in Mine(k, q, n, p) /\ m \in Mine(k, q, n, p)
    BY <1>4, <2>1, <2>2, <2>4 DEF There, Mine
  <2>6. Ordered(Route(k, q, n, p), Mine(k, q, n, p), todo[k][q])
    BY <1>1, <2>3 DEF OrderOK
  <2>7. PICK F : F = Route(k, q, n, p) /\ F[11] = got[n][p]
    <3>1. Route(k, q, n, p)[11] = got[n][p]
      BY SMTT(30) DEF Route
    <3> QED BY <3>1
  <2>8. F[11][j].i > F[11][i].i
    BY <1>4, <2>1, <2>5, <2>6, <2>7, EachStage DEF Ordered
  <2>9. l.i \in Nat /\ m.i \in Nat
    BY <2>5 DEF Mine, Msg
  <2> QED BY <2>1, <2>7, <2>8, <2>9
<1>5. InOrder
  BY <1>3, <1>4 DEF InOrder, There
<1> QED BY <1>2, <1>5 DEF Delivery

(* The invariant holds in every state.                                     *)
THEOREM Invariant == Spec => []IInv
  BY InitIInv, NextIInv, PTL DEF Spec

(* None of the fatal errors of bus.c, smnet.c and route.c is reached, and  *)
(* requests and coherence messages keep their order from module to module. *)
THEOREM DeliveredInOrder == Spec => []Delivery
<1>1. IInv => Delivery
  BY IInvDelivers
<1> QED BY <1>1, Invariant, PTL
=============================================================================

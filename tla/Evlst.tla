------------------------------- MODULE Evlst -------------------------------
(***************************************************************************)
(* The event list of the simulator's driver (src/src/MemSys/evlst.c), in   *)
(* both implementations: a linear list, and a calendar queue, an array of  *)
(* bins, each a list ordered by time, whose number and width follow the    *)
(* number of activities on the list.                                       *)
(*                                                                         *)
(* Insert, GetHead and Delete are one action each, up to the point where   *)
(* the calendar queue resizes itself; resizing is one action per turn of   *)
(* its loops: samples are taken out and put back, to find the width of the *)
(* new bins, and the old bins are copied one element at a time into an     *)
(* array at the other end of the same space.  Nothing else runs until it   *)
(* has ended (pc = "idle").  Times and widths are multiples of a unit of   *)
(* time, and bintop counts half units.  An element carries the number of   *)
(* its insertion, which the code does not know.                            *)
(***************************************************************************)
EXTENDS Integers, SequencesExt

CONSTANTS
  Activities,
  Times,       \* at which activities can be scheduled
  NULL,
  CALQSZ,      \* a third of the space for bin arrays
  Widths,      \* bin widths that sampling may find
  InitBins     \* numbers of bins at EventListInit

ASSUME EvlstAssumption ==
  /\ Times \subseteq Nat
  /\ CALQSZ \in Nat \ {0}
  /\ Widths \subseteq Nat \ {0}
  /\ 1 \in Widths
  /\ InitBins \subseteq 2..(2 * CALQSZ)

VARIABLES
  type,       \* CALQUE or LINQUE
  autosize,   \* the calendar queue resizes itself
  list,       \* LINQUE: the elements from head to tail
  space,      \* headspace and tailspace: the lists of all bins
  base,       \* where the bin array begins in space: 0 or toparray
  nbins, binwidth, cqsize,
  lastbin, bintop, lastprio,  \* bin and time of the next element, see FindHead
  pc,         \* idle, or the loop of CalQueResize that runs
  newsize,    \* the number of bins CalQueResize was called with
  samples,    \* elements taken out by CalQueNewWidth
  savelastprio,
  old,        \* [base, n] of the bin array that is copied
  serial,     \* number of insertions so far
  returned    \* what the last EventListGetHead returned

binVars    == <<space, base, nbins, binwidth, cqsize, lastbin, bintop, lastprio>>
resizeVars == <<newsize, samples, savelastprio, old>>
kindVars   == <<type, autosize>>
evlstVars  == <<kindVars, list, binVars, pc, resizeVars, serial, returned>>

Entry == [act : Activities, time : Times, no : Nat]

thbot == (nbins \div 2) - 1
thtop == 2 * nbins

(* (int)(t / w) and i % n as C computes them; t is -1 when the list is     *)
(* empty.                                                                  *)
Trunc(t, w) == IF t >= 0 THEN t \div w ELSE -((-t) \div w)
Rem(i, n)   == IF i >= 0 THEN i % n ELSE -((-i) % n)

MutPlace(s, t, resizeon) ==  \* samples go back behind those of their own time
  LET Stops == {k \in 1..Len(s) : t < s[k].time}
  IN IF s = <<>> \/ 1 \in Stops THEN 1
     ELSE IF t >= Last(s).time THEN Len(s) + 1
     ELSE Min(Stops)

(* Where the list s takes an element of time t: behind the elements of its *)
(* own time, but before those when resizing is off and the tail is later.  *)
Place(s, t, resizeon) ==
  LET Stops == {k \in 1..Len(s) : t < s[k].time \/ (~resizeon /\ t = s[k].time)}
  IN IF s = <<>> \/ 1 \in Stops THEN 1
     ELSE IF t >= Last(s).time THEN Len(s) + 1
     ELSE Min(Stops)

(***************************************************************************)
(* The calendar queue, on the array sp of lists.                           *)
(***************************************************************************)
BinOf(t) == Trunc(t, binwidth) % nbins

MutPut(sp, e, resizeon) ==  \* an element before the current head is not noticed
  LET i   == BinOf(e.time)
      new == cqsize = 0
  IN /\ space' = [sp EXCEPT ![base + i] = InsertAt(@, Place(@, e.time, resizeon), e)]
     /\ cqsize' = cqsize + 1
     /\ lastprio' = IF new THEN e.time ELSE lastprio
     /\ lastbin' = IF new THEN i ELSE lastbin
     /\ bintop' = IF new THEN (2 * i + 3) * binwidth ELSE bintop
     /\ UNCHANGED <<base, nbins, binwidth>>

Put(sp, e, resizeon) ==
  LET i   == BinOf(e.time)
      new == cqsize = 0 \/ e.time < lastprio
  IN /\ space' = [sp EXCEPT ![base + i] = InsertAt(@, Place(@, e.time, resizeon), e)]
     /\ cqsize' = cqsize + 1
     /\ lastprio' = IF new THEN e.time ELSE lastprio
     /\ lastbin' = IF new THEN i ELSE lastbin
     /\ bintop' = IF new THEN (2 * i + 3) * binwidth ELSE bintop
     /\ UNCHANGED <<base, nbins, binwidth>>

(* YS__CalQueFindHead: one round over the bins for an element of the bin's *)
(* current span of time, and failing that the least element of all.        *)
Slot(j) == IF lastbin + j < nbins THEN lastbin + j ELSE lastbin + j - nbins

FindHead(sp) ==
  LET Full == {i \in 0..(nbins - 1) : sp[base + i] # <<>>}
      Hits == {j \in 0..(nbins - 1) :
                 /\ Slot(j) \in Full
                 /\ 2 * sp[base + Slot(j)][1].time < bintop + 2 * j * binwidth}
      Set(i, t, top) == lastbin' = i /\ lastprio' = t /\ bintop' = top
      Direct(i, t)   == Set(i, t, (2 * (Trunc(t, binwidth) + 1) + 1) * binwidth)
      Least(i) == \A k \in Full :
                    \/ sp[base + i][1].time < sp[base + k][1].time
                    \/ sp[base + i][1].time = sp[base + k][1].time /\ i <= k
  IN \/ \E j \in Hits :
          /\ \A k \in Hits : j <= k
          /\ Set(Slot(j), sp[base + Slot(j)][1].time, bintop + 2 * j * binwidth)
     \/ Hits = {} /\ \E i \in Full : Least(i) /\ Direct(i, sp[base + i][1].time)
     \/ Full = {} /\ Direct(0, -1)

(* Takes the head of the current bin. *)
NextElement == space[base + lastbin][1]

TakeHead ==
  LET sp == [space EXCEPT ![base + lastbin] = Tail(@)]
  IN /\ space' = sp
     /\ cqsize' = cqsize - 1
     /\ IF cqsize = 1 THEN UNCHANGED <<lastbin, bintop, lastprio>> ELSE FindHead(sp)
     /\ UNCHANGED <<base, nbins, binwidth>>

CalQueInit(sp, qbase, bins, width, startprio) ==
  LET n == Trunc(startprio, width)
  IN /\ space' = [k \in DOMAIN sp |-> IF k \in qbase..(qbase + bins - 1) THEN <<>> ELSE sp[k]]
     /\ base' = qbase
     /\ nbins' = bins
     /\ binwidth' = width
     /\ cqsize' = 0
     /\ lastprio' = startprio
     /\ lastbin' = Rem(n, bins)
     /\ bintop' = (2 * (n + 1) + 1) * width

(***************************************************************************)
(* The operations.  CalQueResize is called last in each, when the new size *)
(* passes a threshold, and returns at once when the space is used up.      *)
(***************************************************************************)
Resizing(full, bins) ==
  IF autosize /\ full /\ bins <= 2 * CALQSZ
  THEN pc' = "take" /\ newsize' = bins /\ UNCHANGED <<samples, savelastprio, old>>
  ELSE UNCHANGED <<pc, resizeVars>>

EventListInsert(a, t) ==
  LET e == [act |-> a, time |-> t, no |-> serial]
  IN /\ pc = "idle"
     /\ serial' = serial + 1
     /\ IF type = "CALQUE"
        THEN /\ Put(space, e, TRUE)
             /\ Resizing(cqsize + 1 > thtop, 2 * nbins)
             /\ UNCHANGED list
        ELSE /\ list' = InsertAt(list, Place(list, t, TRUE), e)
             /\ UNCHANGED <<binVars, pc, resizeVars>>
     /\ UNCHANGED <<kindVars, returned>>

EventListSize == IF type = "CALQUE" THEN cqsize ELSE Len(list)

EventListHeadval ==
  IF EventListSize = 0 THEN -1
  ELSE IF type = "CALQUE" THEN lastprio ELSE list[1].time

EventListGetHead ==
  /\ pc = "idle"
  /\ IF EventListSize = 0
     THEN returned' = NULL /\ UNCHANGED <<binVars, list, pc, resizeVars>>
     ELSE IF type = "CALQUE"
     THEN /\ returned' = NextElement
          /\ TakeHead
          /\ Resizing(cqsize > 1 /\ cqsize - 1 < thbot, nbins \div 2)
          /\ UNCHANGED list
     ELSE /\ returned' = list[1]
          /\ list' = Tail(list)
          /\ UNCHANGED <<binVars, pc, resizeVars>>
  /\ UNCHANGED <<kindVars, serial>>

(* No part of the simulator calls YS__EventListDelete. *)
EventListDelete(e) ==
  /\ pc = "idle"
  /\ IF type = "CALQUE"
     THEN \E k \in 1..Len(space[base + BinOf(e.time)]) :
            LET sp == [space EXCEPT ![base + BinOf(e.time)] = RemoveAt(@, k)]
            IN /\ space[base + BinOf(e.time)][k] = e
               /\ space' = sp
               /\ cqsize' = cqsize - 1
               /\ FindHead(sp)
               /\ Resizing(cqsize - 1 < thbot, nbins \div 2)
               /\ UNCHANGED <<base, nbins, binwidth, list>>
     ELSE \E k \in 1..Len(list) : /\ list[k] = e
                                  /\ list' = RemoveAt(list, k)
                                  /\ UNCHANGED <<binVars, pc, resizeVars>>
  /\ UNCHANGED <<kindVars, serial, returned>>

EventListInit ==
  /\ pc = "idle"
  /\ IF type = "CALQUE"
     THEN CalQueInit(space, 0, nbins, binwidth, 0) /\ UNCHANGED list
     ELSE list' = <<>> /\ UNCHANGED binVars
  /\ UNCHANGED <<kindVars, pc, resizeVars, serial, returned>>

(***************************************************************************)
(* CalQueResize: CalQueNewWidth's two loops, then the copy.                *)
(***************************************************************************)
restVars == <<kindVars, list, serial, returned>>

Return == /\ pc' = "idle"
          /\ newsize' = 0 /\ samples' = <<>> /\ savelastprio' = 0
          /\ old' = [base |-> 0, n |-> 0]

total == cqsize + Len(samples)

NSamples(n) == IF n <= 5 THEN n ELSE Min({5 + (n \div 10), 25})

TakeSample ==
  /\ pc = "take"
  /\ total >= 2
  /\ savelastprio' = IF samples = <<>> THEN lastprio ELSE savelastprio
  /\ samples' = Append(samples, NextElement)
  /\ TakeHead
  /\ pc' = IF Len(samples) + 1 = NSamples(total) THEN "put" ELSE "take"
  /\ UNCHANGED <<newsize, old, restVars>>

PutSample ==
  /\ pc = "put"
  /\ samples # <<>>
  /\ Put(space, Last(samples), FALSE)
  /\ samples' = Front(samples)
  /\ UNCHANGED <<pc, newsize, savelastprio, old, restVars>>

(* The new array lies at the other end of the space. *)
NewBase == IF base = 0 THEN 3 * CALQSZ - newsize ELSE 0

NewArray(width, startprio) ==
  /\ CalQueInit(space, NewBase, newsize, width, startprio)
  /\ IF cqsize = 0 THEN Return
     ELSE /\ old' = [base |-> base, n |-> nbins]
          /\ pc' = "copy"
          /\ UNCHANGED <<newsize, samples, savelastprio>>
  /\ UNCHANGED restVars

NewWidth == \/ pc = "take" /\ total < 2 /\ NewArray(1, lastprio)
            \/ pc = "put" /\ samples = <<>> /\ \E w \in Widths : NewArray(w, savelastprio)

(* The copy takes the old bins from the last to the first, each from head  *)
(* to tail.  An old list is not read again once its elements are copied:   *)
(* the model takes each element off as it goes.                            *)
Left == {k \in old.base..(old.base + old.n - 1) : space[k] # <<>>}

CopyElement ==
  /\ pc = "copy"
  /\ \E k \in Left :
       /\ \A j \in Left : j <= k
       /\ Put([space EXCEPT ![k] = Tail(@)], space[k][1], TRUE)
       /\ IF autosize /\ cqsize + 1 > thtop THEN pc' = "nested" /\ UNCHANGED resizeVars
          ELSE IF Left = {k} /\ Len(space[k]) = 1 THEN Return
          ELSE UNCHANGED <<pc, resizeVars>>
  /\ UNCHANGED restVars

CalQueResize == TakeSample \/ PutSample \/ NewWidth \/ CopyElement

(***************************************************************************)
(* EventListSelect is called before anything uses the list; a number of    *)
(* bins or a width that it fixes turns autosizing off.  With autosizing    *)
(* the list may also start with the bins that it had grown to before       *)
(* DriverReset called EventListInit.                                       *)
(***************************************************************************)
EventListSelect ==
  /\ type \in {"CALQUE", "LINQUE"}
  /\ autosize \in IF type = "CALQUE" THEN BOOLEAN ELSE {TRUE}
  /\ nbins \in IF type = "CALQUE" THEN InitBins ELSE {2}
  /\ binwidth \in IF autosize THEN {1} ELSE Widths

Init ==
  /\ EventListSelect
  /\ list = <<>>
  /\ space = [k \in 0..(3 * CALQSZ - 1) |-> <<>>]
  /\ base = 0
  /\ cqsize = 0
  /\ lastbin = 0 /\ bintop = 3 * binwidth /\ lastprio = 0
  /\ pc = "idle"
  /\ newsize = 0 /\ samples = <<>> /\ savelastprio = 0
  /\ old = [base |-> 0, n |-> 0]
  /\ serial = 0 /\ returned = NULL

(***************************************************************************)
(* The elements on the list.                                               *)
(***************************************************************************)
InArray(sp, b, n) == UNION {Range(sp[k]) : k \in b..(b + n - 1)}

Elements ==
  IF type = "LINQUE" THEN Range(list)
  ELSE InArray(space, base, nbins) \cup Range(samples)
         \cup (IF pc = "copy" THEN InArray(space, old.base, old.n) ELSE {})

(* The callers schedule an activity that is not on the list, at a time     *)
(* that is not negative.                                                   *)
Next == \/ CalQueResize
        \/ EventListGetHead
        \/ EventListInit
        \/ \E a \in Activities \ {e.act : e \in Elements}, t \in Times : EventListInsert(a, t)
        \/ \E e \in Elements : EventListDelete(e)

Spec == Init /\ [][Next]_evlstVars

(* Both implementations are an event list: resizing changes nothing that   *)
(* is seen from outside.                                                   *)
Abstract == INSTANCE EventList WITH pending <- Elements
ListSpec == Abstract!Spec
=============================================================================

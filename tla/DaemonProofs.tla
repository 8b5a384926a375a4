---------------------------- MODULE DaemonProofs ----------------------------
(***************************************************************************)
(* For any number of connections and signals: the daemon's WaitGroup       *)
(* counts exactly the connections that are being served, and the process   *)
(* does not end under one of them.                                         *)
(***************************************************************************)
EXTENDS Daemon, FiniteSetTheorems, TLAPS

-----------------------------------------------------------------------------
(* The inductive invariant.                                                *)

InFlight == {c \in Conns : handler[c] \notin {"none", "ended"}}
Starting == main \in {"add", "go"}

\* The counter is the number of goroutines, and one that is about to start.
Counted == wg = Cardinality(InFlight) + (IF main = "go" THEN 1 ELSE 0)

\* The kernel's queue holds each waiting connection once.
Queue ==
  /\ \A i \in DOMAIN backlog : conn[backlog[i]] = "backlog"
  /\ \A i, j \in DOMAIN backlog : backlog[i] = backlog[j] => i = j

\* Who is served: the goroutine of an open connection runs or is about to.
Served ==
  \A c \in Conns :
    /\ conn[c] = "accepted" <=>
         handler[c] \in {"route", "run", "dial", "relay", "drain", "close"} \/ (Starting /\ c = cur)
    /\ conn[c] = "closed" <=> handler[c] \in {"done", "ended"}
    /\ Starting /\ c = cur => handler[c] = "none"

Inv == TypeOK /\ Counted /\ Queue /\ Served /\ ServedToTheEnd

-----------------------------------------------------------------------------
(* The number of goroutines.                                               *)

\* The connections in flight are finitely many.
LEMMA InFlightFinite == IsFiniteSet(InFlight) /\ Cardinality(InFlight) \in Nat
<1>1. InFlight \subseteq Conns BY DEF InFlight
<1>2. IsFiniteSet(InFlight) BY <1>1, FS_Subset, ConnsAssumption
<1> QED BY <1>2, FS_CardinalityType

\* A goroutine that starts adds one, in the next state.
LEMMA OneMore ==
  ASSUME NEW c \in Conns, c \notin InFlight, InFlight' = InFlight \cup {c}
  PROVE  Cardinality(InFlight') = Cardinality(InFlight) + 1
BY InFlightFinite, FS_AddElement

\* A goroutine that ends takes one away, and there is one to take.
LEMMA OneLess ==
  ASSUME NEW c \in Conns, c \in InFlight, InFlight' = InFlight \ {c}
  PROVE  /\ Cardinality(InFlight') = Cardinality(InFlight) - 1
         /\ Cardinality(InFlight) \in Nat \ {0}
<1>1. Cardinality(InFlight \ {c}) = Cardinality(InFlight) - 1
  BY InFlightFinite, FS_RemoveElement
<1>2. InFlight # {} OBVIOUS
<1>3. Cardinality(InFlight) # 0 BY <1>2, InFlightFinite, FS_EmptySet
<1> QED BY <1>1, <1>3, InFlightFinite

\* A goroutine that goes on to another place leaves their number alone.
LEMMA SameFlight ==
  ASSUME TypeOK, NEW c \in Conns, handler[c] \notin {"none", "ended"},
         NEW to, to \notin {"none", "ended"}, handler' = [handler EXCEPT ![c] = to]
  PROVE  InFlight' = InFlight
BY DEF InFlight, TypeOK

-----------------------------------------------------------------------------
(* The initial states.                                                     *)

\* The daemon starts in a state of the invariant.
LEMMA InitInv == Init => Inv
<1> SUFFICES ASSUME Init PROVE Inv OBVIOUS
<1>1. TypeOK
  BY NobodyAssumption, SignalsAssumption, ConfigsAssumption DEF Init, TypeOK
<1>2. Counted
  <2>1. InFlight = {} BY DEF Init, InFlight
  <2> QED BY <2>1, FS_EmptySet DEF Init, Counted
<1>3. Queue BY DEF Init, Queue
<1>4. Served BY DEF Init, Served, Starting
<1>5. ServedToTheEnd BY DEF Init, ServedToTheEnd
<1> QED BY <1>1, <1>2, <1>3, <1>4, <1>5 DEF Inv

-----------------------------------------------------------------------------
(* The peers, and the signals.                                             *)

\* A client that connects joins the end of the queue.
LEMMA ConnectsInv == ASSUME Inv, NEW c \in Conns, ClientConnects(c) PROVE Inv'
<1> USE DEF Inv
<1>1. TypeOK' BY DEF TypeOK, ClientConnects
<1>2. Counted' BY DEF Counted, InFlight, ClientConnects
<1>3. Queue'
  <2>1. backlog \in Seq(Conns) /\ backlog' = Append(backlog, c)
    BY DEF TypeOK, ClientConnects
  <2>2. /\ DOMAIN backlog' = 1 .. Len(backlog) + 1 /\ backlog'[Len(backlog) + 1] = c
        /\ \A i \in 1 .. Len(backlog) : backlog'[i] = backlog[i]
        /\ DOMAIN backlog = 1 .. Len(backlog) /\ Len(backlog) \in Nat
        /\ \A i \in DOMAIN backlog : backlog[i] \in Conns
    BY <2>1
  <2>3. conn[c] = "none" /\ conn' = [conn EXCEPT ![c] = "backlog"]
    BY DEF ClientConnects
  <2>4. \A i \in DOMAIN backlog : backlog[i] # c BY <2>2, <2>3 DEF Queue
  <2>5. \A i \in DOMAIN backlog' : conn'[backlog'[i]] = "backlog"
    BY <2>2, <2>3, <2>4 DEF Queue, TypeOK
  <2>6. \A i, j \in DOMAIN backlog' : backlog'[i] = backlog'[j] => i = j
    BY <2>2, <2>4 DEF Queue
  <2> QED BY <2>5, <2>6 DEF Queue
<1>4. Served' BY DEF Served, Starting, ClientConnects, TypeOK
<1>5. ServedToTheEnd' BY DEF ServedToTheEnd, ClientConnects, TypeOK
<1> QED BY <1>1, <1>2, <1>3, <1>4, <1>5

\* What a peer does later does not touch the daemon.
LEMMA PeersInv ==
  ASSUME Inv, NEW c \in Conns, PeerSends(c) \/ PeerLeaves(c) PROVE Inv'
<1> USE DEF Inv
<1>1. TypeOK' BY DEF TypeOK, PeerSends, PeerLeaves, daemonVars
<1>2. UNCHANGED <<main, cur, wg, backlog, conn, handler>>
  BY DEF PeerSends, PeerLeaves, daemonVars
<1>3. Counted' /\ Queue' /\ Served' /\ ServedToTheEnd'
  BY <1>2 DEF Counted, InFlight, Queue, Served, Starting, ServedToTheEnd
<1> QED BY <1>1, <1>3

\* Nor does a signal, until the listener is closed.
LEMMA SignalInv == ASSUME Inv, Signal \/ Receive \/ TakeSignal PROVE Inv'
<1> USE DEF Inv
<1>1. TypeOK'
  BY SignalsAssumption DEF TypeOK, Signal, Receive, TakeSignal, HasRoom, connVars
<1>2. UNCHANGED <<main, cur, wg, backlog, conn, handler>>
  BY DEF Signal, Receive, TakeSignal, connVars
<1>3. Counted' /\ Queue' /\ Served' /\ ServedToTheEnd'
  BY <1>2 DEF Counted, InFlight, Queue, Served, Starting, ServedToTheEnd
<1> QED BY <1>1, <1>3

\* Refusing the queue leaves those alone that are served.
LEMMA CloseListenerInv == ASSUME Inv, CloseListener PROVE Inv'
<1> USE DEF Inv
<1>1. TypeOK' BY DEF TypeOK, CloseListener
<1>2. Counted' BY DEF Counted, InFlight, CloseListener
<1>3. Queue' BY DEF Queue, CloseListener
<1>4. Served' BY DEF Served, Starting, CloseListener, TypeOK
<1>5. ServedToTheEnd' BY DEF ServedToTheEnd, CloseListener, TypeOK
<1> QED BY <1>1, <1>2, <1>3, <1>4, <1>5

-----------------------------------------------------------------------------
(* The accept loop.                                                        *)

\* Accept takes the first of the queue, whom nobody serves yet.
LEMMA AcceptInv == ASSUME Inv, Accept PROVE Inv'
<1> USE DEF Inv
<1> DEFINE c == Head(backlog)
<1>1. /\ backlog \in Seq(Conns) /\ backlog # <<>> /\ backlog' = Tail(backlog)
      /\ conn' = [conn EXCEPT ![c] = "accepted"] /\ cur' = c /\ main' = "add"
      /\ main = "accept" /\ UNCHANGED <<wg, handler>>
  BY DEF Accept, TypeOK
<1>2. /\ c \in Conns /\ c = backlog[1] /\ 1 \in DOMAIN backlog
      /\ DOMAIN backlog' = 1 .. Len(backlog) - 1 /\ DOMAIN backlog = 1 .. Len(backlog)
      /\ Len(backlog) \in Nat \ {0}
      /\ \A i \in DOMAIN backlog' : backlog'[i] = backlog[i + 1] /\ backlog'[i] \in Conns
  BY <1>1
<1>3. conn[c] = "backlog" BY <1>2 DEF Queue
<1> HIDE DEF c
<1>4. TypeOK' BY <1>1, <1>2, NobodyAssumption DEF TypeOK, Accept
<1>5. Counted' BY <1>1 DEF Counted, InFlight
<1>6. Queue'
  <2>1. \A i \in DOMAIN backlog' : i + 1 \in DOMAIN backlog /\ backlog'[i] # c
    BY <1>2 DEF Queue
  <2>2. \A i \in DOMAIN backlog' : conn'[backlog'[i]] = "backlog"
    BY <1>1, <1>2, <2>1 DEF Queue, TypeOK
  <2>3. \A i, j \in DOMAIN backlog' : backlog'[i] = backlog'[j] => i = j
    BY <1>2, <2>1 DEF Queue
  <2> QED BY <2>2, <2>3 DEF Queue
<1>7. Served' BY <1>1, <1>2, <1>3 DEF Served, Starting, TypeOK
<1>8. ServedToTheEnd' BY <1>1 DEF ServedToTheEnd
<1> QED BY <1>4, <1>5, <1>6, <1>7, <1>8

\* The failure of Accept only ends the loop.
LEMMA AcceptFailsInv == ASSUME Inv, AcceptFails PROVE Inv'
<1> USE DEF Inv
<1>1. TypeOK' BY DEF TypeOK, AcceptFails, connVars
<1>2. Counted' /\ Queue' /\ Served' /\ ServedToTheEnd'
  BY DEF Counted, InFlight, Queue, Served, Starting, ServedToTheEnd, AcceptFails, connVars
<1> QED BY <1>1, <1>2

\* wg.Add counts the goroutine that is about to start.
LEMMA AddInv == ASSUME Inv, Add PROVE Inv'
<1> USE DEF Inv
<1>1. TypeOK' BY DEF TypeOK, Add, connVars
<1>2. Counted'
  <2>1. InFlight' = InFlight /\ wg' = wg + 1 /\ main = "add" /\ main' = "go"
    BY DEF InFlight, Add, connVars
  <2>2. wg = Cardinality(InFlight) BY <2>1, InFlightFinite DEF Counted
  <2>3. Cardinality(InFlight') = Cardinality(InFlight) BY <2>1
  <2>4. wg' = Cardinality(InFlight') + 1 BY <2>1, <2>2, <2>3
  <2> QED BY <2>1, <2>4 DEF Counted
<1>3. Queue' /\ Served' /\ ServedToTheEnd'
  BY DEF Queue, Served, Starting, ServedToTheEnd, Add, connVars
<1> QED BY <1>1, <1>2, <1>3

\* The goroutine starts: now it is one of those in flight.
LEMMA GoInv == ASSUME Inv, Go PROVE Inv'
<1> USE DEF Inv
<1>1. /\ main = "go" /\ main' = "accept" /\ cur' = Nobody /\ cur \in Conns
      /\ handler' = [handler EXCEPT ![cur] = "route"] /\ UNCHANGED <<wg, backlog, conn>>
  BY DEF Go, TypeOK
<1>2. conn[cur] = "accepted" BY <1>1 DEF Served, Starting
<1>3. handler[cur] = "none" BY <1>1 DEF Served, Starting
<1>4. TypeOK' BY <1>1, NobodyAssumption DEF TypeOK, Go
<1>5. Counted'
  <2>1. cur \notin InFlight BY <1>3 DEF InFlight
  <2>2. InFlight' = InFlight \cup {cur} BY <1>1 DEF InFlight, TypeOK
  <2>3. Cardinality(InFlight') = Cardinality(InFlight) + 1 BY <1>1, <2>1, <2>2, OneMore
  <2>4. wg = Cardinality(InFlight) + 1 BY <1>1 DEF Counted
  <2> QED BY <1>1, <2>3, <2>4, InFlightFinite DEF Counted
<1>6. Queue' BY <1>1 DEF Queue
<1>7. Served' BY <1>1, <1>2, <1>3, NobodyAssumption DEF Served, Starting, TypeOK
<1>8. ServedToTheEnd' BY <1>1 DEF ServedToTheEnd
<1> QED BY <1>4, <1>5, <1>6, <1>7, <1>8

\* The process ends when nobody is in flight, and refuses the queue.
LEMMA ReturnInv == ASSUME Inv, Return PROVE Inv'
<1> USE DEF Inv
<1>1. /\ main = "wait" /\ main' = "returned" /\ wg = 0 /\ UNCHANGED <<wg, handler, cur>>
      /\ backlog' = <<>>
      /\ conn' = [c \in Conns |-> IF conn[c] = "backlog" THEN "refused" ELSE conn[c]]
  BY DEF Return
<1>2. TypeOK' BY <1>1 DEF TypeOK, Return
<1>3. Counted' BY <1>1 DEF Counted, InFlight
<1>4. Queue' BY <1>1 DEF Queue
<1>5. InFlight = {}
  <2>1. Cardinality(InFlight) = 0 BY <1>1, InFlightFinite DEF Counted
  <2> QED BY <2>1, InFlightFinite, FS_EmptySet
<1>6. Served' BY <1>1 DEF Served, Starting, TypeOK
<1>7. ServedToTheEnd'
  <2>1. \A c \in Conns : handler[c] \in {"none", "ended"} BY <1>5 DEF InFlight
  <2>2. \A c \in Conns : conn[c] # "accepted" BY <1>1, <2>1 DEF Served, Starting
  <2> QED BY <1>1, <2>2 DEF ServedToTheEnd, TypeOK
<1> QED BY <1>2, <1>3, <1>4, <1>6, <1>7

-----------------------------------------------------------------------------
(* The goroutines.                                                         *)

\* A command's process and its copies change nothing that the daemon counts.
LEMMA CommandInv ==
  ASSUME Inv, NEW c \in Conns,
         IdleTimeout(c) \/ CommandExits(c) \/ \E s \in {"stdin", "stdout"} : CopyEnds(c, s)
  PROVE  Inv'
<1> USE DEF Inv
<1>1. TypeOK'
  BY DEF TypeOK, IdleTimeout, CommandExits, CopyEnds, Runs, daemonVars
<1>2. UNCHANGED <<main, cur, wg, backlog, conn, handler>>
  BY DEF IdleTimeout, CommandExits, CopyEnds, daemonVars
<1>3. Counted' /\ Queue' /\ Served' /\ ServedToTheEnd'
  BY <1>2 DEF Counted, InFlight, Queue, Served, Starting, ServedToTheEnd
<1> QED BY <1>1, <1>3

MovesOn(c) == Route(c) \/ RunReturns(c) \/ DialEnds(c) \/ DirectionEnds(c) \/ RelayReturns(c)

\* A goroutine that has not closed its connection yet goes on.
LEMMA MovesInv ==
  ASSUME Inv, NEW c \in Conns, MovesOn(c) PROVE Inv'
<1> USE DEF Inv
<1>1. TypeOK'
  BY DEF TypeOK, MovesOn, Route, RunReturns, DialEnds, DirectionEnds, RelayReturns, Runs,
     daemonVars
<1>2. PICK to \in {"run", "dial", "relay", "drain", "close"} : handler' = [handler EXCEPT ![c] = to]
  BY DEF MovesOn, Route, RunReturns, DialEnds, DirectionEnds, RelayReturns
<1>3. /\ handler[c] \in {"route", "run", "dial", "relay", "drain"}
      /\ UNCHANGED <<main, cur, wg, backlog, conn>>
  BY DEF MovesOn, Route, RunReturns, DialEnds, DirectionEnds, RelayReturns, Runs, daemonVars
<1>4. Counted' BY <1>2, <1>3, SameFlight DEF Counted
<1>5. Served' BY <1>2, <1>3 DEF Served, Starting, TypeOK
<1>6. Queue' /\ ServedToTheEnd' BY <1>3 DEF Queue, ServedToTheEnd
<1> QED BY <1>1, <1>4, <1>5, <1>6

\* Router closes the connection before its goroutine is counted out.
LEMMA CloseInv == ASSUME Inv, NEW c \in Conns, Close(c) PROVE Inv'
<1> USE DEF Inv
<1>1. /\ handler[c] = "close" /\ handler' = [handler EXCEPT ![c] = "done"]
      /\ conn' = [conn EXCEPT ![c] = "closed"]
      /\ main # "returned" /\ UNCHANGED <<main, cur, wg, backlog>>
  BY DEF Close, Runs, daemonVars
<1>2. TypeOK' BY DEF TypeOK, Close, daemonVars
<1>3. Counted' BY <1>1, SameFlight DEF Counted
<1>4. conn[c] = "accepted" BY <1>1 DEF Served
<1>5. Queue'
  <2>1. \A i \in DOMAIN backlog : backlog[i] # c BY <1>4 DEF Queue
  <2> QED BY <1>1, <2>1 DEF Queue, TypeOK
<1>6. Served' BY <1>1 DEF Served, Starting, TypeOK
<1>7. ServedToTheEnd' BY <1>1 DEF ServedToTheEnd
<1> QED BY <1>2, <1>3, <1>5, <1>6, <1>7

\* wg.Done counts it out.
LEMMA DoneInv == ASSUME Inv, NEW c \in Conns, Done(c) PROVE Inv'
<1> USE DEF Inv
<1>1. /\ handler[c] = "done" /\ handler' = [handler EXCEPT ![c] = "ended"]
      /\ wg' = wg - 1 /\ main # "returned" /\ UNCHANGED <<main, cur, conn, backlog>>
  BY DEF Done, Runs
<1>2. c \in InFlight /\ InFlight' = InFlight \ {c} BY <1>1 DEF InFlight, TypeOK
<1>3. /\ Cardinality(InFlight') = Cardinality(InFlight) - 1
      /\ Cardinality(InFlight) \in Nat \ {0}
  BY <1>2, OneLess
<1>4. wg' \in Nat BY <1>1, <1>3 DEF Counted
<1>5. TypeOK' BY <1>4 DEF TypeOK, Done
<1>6. Counted' BY <1>1, <1>3 DEF Counted
<1>7. Queue' /\ ServedToTheEnd' BY <1>1 DEF Queue, ServedToTheEnd
<1>8. Served' BY <1>1 DEF Served, Starting, TypeOK
<1> QED BY <1>5, <1>6, <1>7, <1>8

-----------------------------------------------------------------------------
(* The theorems.                                                           *)

\* Every step keeps the invariant.
LEMMA NextInv == Inv /\ [Next]_vars => Inv'
<1> SUFFICES ASSUME Inv, [Next]_vars PROVE Inv' OBVIOUS
<1>1. CASE Peers BY <1>1, ConnectsInv, PeersInv DEF Peers
<1>2. CASE Signal BY <1>2, SignalInv
<1>3. CASE Notifier BY <1>3, SignalInv, CloseListenerInv DEF Notifier
<1>4. CASE Serve BY <1>4, AcceptInv, AddInv, GoInv, ReturnInv DEF Serve
<1>5. CASE AcceptFails BY <1>5, AcceptFailsInv
<1>6. ASSUME NEW c \in Conns, Handle(c) \/ IdleTimeout(c) \/ CommandExits(c) \/ DialEnds(c)
                             \/ DirectionEnds(c)
       PROVE  Inv'
  BY <1>6, MovesInv, CloseInv, DoneInv, CommandInv DEF Handle, MovesOn
<1>7. CASE UNCHANGED vars
  BY <1>7 DEF vars, daemonVars, connVars, Inv, TypeOK, Counted, InFlight, Queue, Served,
     Starting, ServedToTheEnd
<1> QED BY <1>1, <1>2, <1>3, <1>4, <1>5, <1>6, <1>7 DEF Next

\* The invariant holds of every reachable state.
LEMMA Invariant == Spec => []Inv
BY InitInv, NextInv, PTL DEF Spec

\* The daemon's state is of its type; in particular the WaitGroup's counter is
\* never negative, for any number of connections.
THEOREM TypeCorrect == Spec => []TypeOK
<1>1. Inv => TypeOK BY DEF Inv
<1> QED BY <1>1, Invariant, PTL

\* The daemon never ends under a connection it has accepted.
THEOREM NobodyCutOff == Spec => []ServedToTheEnd
<1>1. Inv => ServedToTheEnd BY DEF Inv
<1> QED BY <1>1, Invariant, PTL
=============================================================================

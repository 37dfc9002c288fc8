------------------------------- MODULE Spork -------------------------------
(***************************************************************************)
(* One spork on a network of nodes: src/src/spork.cpp and sporkdb.cpp.     *)
(* A signer changes its value by RPC; the other nodes learn it from        *)
(* inventory announcements and, after a start, by asking with getsporks.   *)
(*                                                                         *)
(* ProcessSpork runs on the message thread and holds cs only while it      *)
(* compares times and while it stores, so it is three actions: check,      *)
(* store and relay, write.  UpdateSpork runs on the RPC thread, announces  *)
(* before it stores, and is two; a signer's operator makes one update at a *)
(* time.  The sporks are independent of each other.  All nodes are         *)
(* connected and share a clock, so the check for times far in the future   *)
(* (97-102) never refuses, and every message is signed by a signer.        *)
(***************************************************************************)
EXTENDS Integers, FiniteSets

CONSTANTS
    Node,
    Signer,        \* the nodes started with -sporkkey
    Restarting,    \* the nodes that may stop and start again
    Value,         \* the values an update may set
    Default,       \* CSporkDef::defaultValue
    MaxTime,       \* bound on the clock
    MaxRestarts    \* bound on the restarts of a node

ASSUME NodeAssumption == Signer \subseteq Node /\ Restarting \subseteq Node
ASSUME BoundAssumption == MaxTime \in Nat \ {0} /\ MaxRestarts \in Nat

(* CSporkMessage, and the absence of one.  Times start at 1, so the        *)
(* absent one is older than any.                                           *)
Message == [nValue : Value, nTimeSigned : 1..MaxTime]
NoSpork == [nValue |-> Default, nTimeSigned |-> 0]
MaybeSpork == Message \cup {NoSpork}

VARIABLES
    now,              \* GetTime()
    mapSporks,        \* every message a node can serve
    mapSporksActive,  \* the spork each node goes by
    sporkDB,          \* what its database holds
    handler,          \* where ProcessSpork is: its step and its message
    update,           \* announced by UpdateSpork and not yet stored
    net,              \* messages between nodes
    known,            \* setInventoryKnown: a node's peers and what each has seen
    asked,            \* the peers a node has sent getsporks to
    starts,           \* how often a node has restarted
    early             \* sporks asked for between the two halves of UpdateSpork

vars == <<now, mapSporks, mapSporksActive, sporkDB, handler, update, net, known, asked, starts, early>>

Idle == [step |-> "idle", spork |-> NoSpork]
Packet == [kind : {"inv", "spork"}, from : Node, to : Node, spork : Message]

(* The maps hold messages, and the handler one that it is working on.      *)
TypeOK ==
    /\ now \in 1..MaxTime
    /\ mapSporks \in [Node -> SUBSET Message]
    /\ mapSporksActive \in [Node -> MaybeSpork]
    /\ sporkDB \in [Node -> MaybeSpork]
    /\ handler \in [Node -> [step : {"store", "write"}, spork : Message] \cup {Idle}]
    /\ update \in [Node -> MaybeSpork]
    /\ net \subseteq Packet
    /\ known \in [Node -> SUBSET (Node \X Message)]
    /\ asked \in [Node -> SUBSET Node]
    /\ starts \in [Node -> 0..MaxRestarts]
    /\ early \subseteq Message

(* No spork was ever signed, and every node has asked its peers for it.    *)
Init ==
    /\ now = 1
    /\ mapSporks = [n \in Node |-> {}]
    /\ mapSporksActive = [n \in Node |-> NoSpork]
    /\ sporkDB = [n \in Node |-> NoSpork]
    /\ handler = [n \in Node |-> Idle]
    /\ update = [n \in Node |-> NoSpork]
    /\ net = {}
    /\ known = [n \in Node |-> {}]
    /\ asked = [n \in Node |-> Node \ {n}]
    /\ starts = [n \in Node |-> 0]
    /\ early = {}

-----------------------------------------------------------------------------
(* Announce m to every peer that has not announced it here or been told.   *)
Relay(n, m) ==
    LET peers == {p \in Node \ {n} : <<p, m>> \notin known[n]}
    IN  /\ net' = net \cup {[kind |-> "inv", from |-> n, to |-> p, spork |-> m] : p \in peers}
        /\ known' = [known EXCEPT ![n] = @ \cup (peers \X {m})]

(* The message in memory is older.  Mutation: no comparison.               *)
AlwaysFresh(n, m) == TRUE
Fresh(n, m) == mapSporksActive[n].nTimeSigned < m.nTimeSigned

(* Mutation: one message per spork is enough.                              *)
HaveAny(n, m) == mapSporks[n] # {}
AlreadyHave(n, m) == m \in mapSporks[n]

(* When an update is signed.                                               *)
TimeSigned == now

(* Mutation: a value is written once and never replaced.                   *)
WriteOnce(n, m) == IF sporkDB[n] = NoSpork THEN m ELSE sporkDB[n]
WriteSpork(n, m) == m

LoadSporksFromDB(n) == sporkDB[n]

-----------------------------------------------------------------------------
UpdateSporkRelay(n, v) ==
    LET m == [nValue |-> v, nTimeSigned |-> TimeSigned]
    IN  /\ update[n] = NoSpork
        /\ Relay(n, m)
        /\ update' = [update EXCEPT ![n] = m]
        /\ UNCHANGED <<now, mapSporks, mapSporksActive, sporkDB, handler, asked, starts, early>>

UpdateSporkStore(n) ==
    /\ update[n] # NoSpork
    /\ mapSporks' = [mapSporks EXCEPT ![n] = @ \cup {update[n]}]
    /\ mapSporksActive' = [mapSporksActive EXCEPT ![n] = update[n]]
    /\ update' = [update EXCEPT ![n] = NoSpork]
    /\ UNCHANGED <<now, sporkDB, handler, net, known, asked, starts, early>>

(* An announcement: dropped if the message is here already, else asked     *)
(* for and served by the peer that announced it, if that peer has it.      *)
Inventory(p) ==
    /\ p.kind = "inv"
    /\ IF AlreadyHave(p.to, p.spork)
       THEN net' = net \ {p} /\ early' = early
       ELSE IF p.spork \in mapSporks[p.from]
       THEN net' = (net \ {p}) \cup {[p EXCEPT !.kind = "spork"]} /\ early' = early
       ELSE net' = net \ {p} /\ early' = early \cup {p.spork}
    /\ known' = [known EXCEPT ![p.to] = @ \cup {<<p.from, p.spork>>}]
    /\ UNCHANGED <<now, mapSporks, mapSporksActive, sporkDB, handler, update, asked, starts>>

(* getsporks to a peer and its answer, once for each peer after a start.   *)
GetSporks(n, p) ==
    /\ p # n /\ p \notin asked[n]
    /\ asked' = [asked EXCEPT ![n] = @ \cup {p}]
    /\ net' = IF mapSporksActive[p] = NoSpork THEN net
              ELSE net \cup {[kind |-> "spork", from |-> p, to |-> n, spork |-> mapSporksActive[p]]}
    /\ early' = early \cup ({update[p]} \ {NoSpork})
    /\ UNCHANGED <<now, mapSporks, mapSporksActive, sporkDB, handler, update, known, starts>>

(* ProcessSpork, first and second critical section, and what follows.      *)
ProcessSporkCheck(p) ==
    /\ p.kind = "spork" /\ handler[p.to] = Idle
    /\ net' = net \ {p}
    /\ handler' = IF Fresh(p.to, p.spork)
                  THEN [handler EXCEPT ![p.to] = [step |-> "store", spork |-> p.spork]]
                  ELSE handler
    /\ UNCHANGED <<now, mapSporks, mapSporksActive, sporkDB, update, known, asked, starts, early>>

ProcessSporkStore(n) ==
    LET m == handler[n].spork
    IN  /\ handler[n].step = "store"
        /\ mapSporks' = [mapSporks EXCEPT ![n] = @ \cup {m}]
        /\ mapSporksActive' = [mapSporksActive EXCEPT ![n] = m]
        /\ Relay(n, m)
        /\ handler' = [handler EXCEPT ![n] = [step |-> "write", spork |-> m]]
        /\ UNCHANGED <<now, sporkDB, update, asked, starts, early>>

ProcessSporkWrite(n) ==
    /\ handler[n].step = "write"
    /\ sporkDB' = [sporkDB EXCEPT ![n] = WriteSpork(n, handler[n].spork)]
    /\ handler' = [handler EXCEPT ![n] = Idle]
    /\ UNCHANGED <<now, mapSporks, mapSporksActive, update, net, known, asked, starts, early>>

(* The process ends, anywhere, and starts again: LoadSporksFromDB on empty *)
(* maps; its connections and what was under way on them are gone.          *)
Restart(n) ==
    LET loaded == LoadSporksFromDB(n)
    IN  /\ starts[n] < MaxRestarts
        /\ starts' = [starts EXCEPT ![n] = @ + 1]
        /\ mapSporks' = [mapSporks EXCEPT ![n] = IF loaded = NoSpork THEN {} ELSE {loaded}]
        /\ mapSporksActive' = [mapSporksActive EXCEPT ![n] = loaded]
        /\ handler' = [handler EXCEPT ![n] = Idle]
        /\ update' = [update EXCEPT ![n] = NoSpork]
        /\ net' = {p \in net : p.from # n /\ p.to # n}
        /\ known' = [p \in Node |-> IF p = n THEN {} ELSE known[p] \ ({n} \X Message)]
        /\ asked' = [asked EXCEPT ![n] = {}]
        /\ UNCHANGED <<now, sporkDB, early>>

Tick ==
    /\ now < MaxTime
    /\ now' = now + 1
    /\ UNCHANGED <<mapSporks, mapSporksActive, sporkDB, handler, update, net, known, asked, starts, early>>

Next ==
    \/ \E n \in Signer : UpdateSporkStore(n) \/ \E v \in Value : UpdateSporkRelay(n, v)
    \/ \E p \in net : Inventory(p) \/ ProcessSporkCheck(p)
    \/ \E n \in Node :
          \/ ProcessSporkStore(n)
          \/ ProcessSporkWrite(n)
          \/ \E p \in Node : GetSporks(n, p)
    \/ \E n \in Restarting : Restart(n)
    \/ Tick

Spec == Init /\ [][Next]_vars

-----------------------------------------------------------------------------
Time(m) == m.nTimeSigned
SameSession(n) == starts'[n] = starts[n]
AtRest(n) == handler[n] = Idle /\ update[n] = NoSpork

(* Until it restarts, a node that is no signer never goes back to a spork  *)
(* signed earlier, although ProcessSpork lets go of cs between comparing   *)
(* the times (119) and storing (157).                                      *)
OnlyNewer(n) == SameSession(n) => Time(mapSporksActive'[n]) >= Time(mapSporksActive[n])
PeersOnlyNewer == \A n \in Node \ Signer : OnlyNewer(n)
NeverOlder == [][PeersOnlyNewer]_vars

(* A node that is no signer and is stopped while no spork is being         *)
(* processed goes by the same spork after LoadSporksFromDB (48-73).        *)
ReloadsTheSame(n) == ~ SameSession(n) /\ AtRest(n) => mapSporksActive'[n] = mapSporksActive[n]
PeersReload == \A n \in Node \ Signer : ReloadsTheSame(n)
RestartKeeps == [][PeersReload]_vars

(* When nothing is under way and every node has asked its peers, no node   *)
(* is behind another: inventory and getsporks together leave nobody out,   *)
(* also one that crashed before WriteSpork (162).  An update that somebody *)
(* asked for between its announcement (187) and its storing (190), and was *)
(* told notfound or sent the spork before, may be missed, but it takes     *)
(* along neither the ones before it nor the next.                          *)
Quiet ==
    /\ net = {}
    /\ \A n \in Node : AtRest(n) /\ asked[n] = Node \ {n}
QuietAgree ==
    Quiet => \A n, p \in Node :
        mapSporksActive[p] \notin early => Time(mapSporksActive[p]) <= Time(mapSporksActive[n])

(* The inductive invariant of the nodes that are no signers, besides the   *)
(* type: only the handler changes what they go by, so what it compared     *)
(* still holds when it stores, and it leaves memory and database equal.    *)
PeerInv ==
    \A n \in Node \ Signer :
        /\ update[n] = NoSpork
        /\ handler[n].step = "store" => Fresh(n, handler[n].spork)
        /\ IF handler[n].step = "write"
           THEN mapSporksActive[n] = handler[n].spork
           ELSE mapSporksActive[n] = sporkDB[n]
=============================================================================

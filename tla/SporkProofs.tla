---------------------------- MODULE SporkProofs ----------------------------
(* Proofs about Spork, for any network, values and bounds: what            *)
(* ProcessSpork and LoadSporksFromDB guarantee on the nodes that are no    *)
(* signers, and that the nodes agree once nothing is on its way.  The      *)
(* second part is about MasternodeSync, for any peers and limits.          *)
EXTENDS Spork, MasternodeSync, FiniteSetTheorems, SequenceTheorems, WellFoundedInduction, TLAPS

LEMMA SporkFields ==
    ASSUME NEW m \in MaybeSpork
    PROVE  Time(m) \in Int /\ (m \in Message <=> m # NoSpork)
BY BoundAssumption DEF MaybeSpork, Message, NoSpork, Time

(* Relay sends well-formed announcements, and remembers to whom.           *)
LEMMA RelayTyped ==
    ASSUME TypeOK, NEW n \in Node, NEW m \in Message, Relay(n, m)
    PROVE  net' \subseteq Packet /\ known' \in [Node -> SUBSET (Node \X Message)]
<1> DEFINE peers == {p \in Node \ {n} : <<p, m>> \notin known[n]}
           told == {[kind |-> "inv", from |-> n, to |-> p, spork |-> m] : p \in peers}
<1>1. told \subseteq Packet
  <2>1. \A p \in peers : [kind |-> "inv", from |-> n, to |-> p, spork |-> m] \in Packet
    BY DEF Packet
  <2> HIDE DEF peers
  <2> QED
    BY <2>1
<1>2. peers \X {m} \subseteq Node \X Message
  OBVIOUS
<1>3. net' = net \cup told /\ known' = [known EXCEPT ![n] = known[n] \cup (peers \X {m})]
  BY DEF Relay
<1> HIDE DEF told, peers
<1> QED
  BY <1>1, <1>2, <1>3 DEF TypeOK

(* Every step keeps the maps, the handlers and the packets well formed.    *)
THEOREM TypeCorrect == Spec => []TypeOK
<1>1. Init => TypeOK
  <2> SUFFICES ASSUME Init PROVE TypeOK
    OBVIOUS
  <2>1. now \in 1..MaxTime /\ starts \in [Node -> 0..MaxRestarts]
    BY BoundAssumption DEF Init
  <2>2. asked \in [Node -> SUBSET Node] /\ known \in [Node -> SUBSET (Node \X Message)]
    BY DEF Init
  <2> QED
    BY <2>1, <2>2 DEF Init, TypeOK, MaybeSpork
<1>2. TypeOK /\ [Next]_vars => TypeOK'
  <2> SUFFICES ASSUME TypeOK, [Next]_vars PROVE TypeOK'
    OBVIOUS
  <2> USE NodeAssumption, BoundAssumption
  <2>1. ASSUME NEW n \in Signer, NEW v \in Value, UpdateSporkRelay(n, v) PROVE TypeOK'
    <3>1. [nValue |-> v, nTimeSigned |-> now] \in Message
      BY DEF TypeOK, Message
    <3>2. net' \subseteq Packet /\ known' \in [Node -> SUBSET (Node \X Message)]
      BY <2>1, <3>1, RelayTyped DEF UpdateSporkRelay, TimeSigned
    <3> QED
      BY <2>1, <3>1, <3>2 DEF TypeOK, UpdateSporkRelay, TimeSigned, MaybeSpork
  <2>2. ASSUME NEW n \in Signer, UpdateSporkStore(n) PROVE TypeOK'
    <3>1. update[n] \in Message
      BY <2>2, SporkFields DEF TypeOK, UpdateSporkStore
    <3> QED
      BY <2>2, <3>1 DEF TypeOK, UpdateSporkStore, MaybeSpork
  <2>3. ASSUME NEW p \in net, Inventory(p) PROVE TypeOK'
    <3>1. p \in Packet /\ [p EXCEPT !.kind = "spork"] \in Packet
      BY DEF TypeOK, Packet
    <3>2. net' \subseteq Packet /\ early' \subseteq Message
      BY <2>3, <3>1 DEF TypeOK, Inventory, Packet
    <3>3. known' \in [Node -> SUBSET (Node \X Message)]
      BY <2>3, <3>1 DEF TypeOK, Inventory, Packet
    <3> QED
      BY <2>3, <3>2, <3>3 DEF TypeOK, Inventory
  <2>4. ASSUME NEW p \in net, ProcessSporkCheck(p) PROVE TypeOK'
    <3>1. p.to \in Node /\ p.spork \in Message
      BY DEF TypeOK, Packet
    <3>2. [step |-> "store", spork |-> p.spork] \in [step : {"store", "write"}, spork : Message]
      BY <3>1
    <3>3. handler' \in [Node -> [step : {"store", "write"}, spork : Message] \cup {Idle}]
      BY <2>4, <3>1, <3>2 DEF TypeOK, ProcessSporkCheck
    <3> QED
      BY <2>4, <3>3 DEF TypeOK, ProcessSporkCheck
  <2>5. ASSUME NEW n \in Node, ProcessSporkStore(n) PROVE TypeOK'
    <3>1. handler[n] \in [step : {"store", "write"}, spork : Message]
      BY <2>5 DEF TypeOK, ProcessSporkStore, Idle
    <3>2. handler[n].spork \in Message
      BY <3>1
    <3>3. net' \subseteq Packet /\ known' \in [Node -> SUBSET (Node \X Message)]
      BY <2>5, <3>2, RelayTyped DEF ProcessSporkStore
    <3>4. [step |-> "write", spork |-> handler[n].spork] \in [step : {"store", "write"}, spork : Message]
      BY <3>2
    <3> QED
      BY <2>5, <3>2, <3>3, <3>4 DEF TypeOK, ProcessSporkStore, MaybeSpork
  <2>6. ASSUME NEW n \in Node, ProcessSporkWrite(n) PROVE TypeOK'
    <3>1. handler[n] \in [step : {"store", "write"}, spork : Message]
      BY <2>6 DEF TypeOK, ProcessSporkWrite, Idle
    <3>2. handler[n].spork \in Message
      BY <3>1
    <3> QED
      BY <2>6, <3>2 DEF TypeOK, ProcessSporkWrite, WriteSpork, MaybeSpork
  <2>7. ASSUME NEW n \in Node, NEW p \in Node, GetSporks(n, p) PROVE TypeOK'
    <3>1. mapSporksActive[p] \in MaybeSpork
      BY DEF TypeOK
    <3>2. net' \subseteq Packet
      BY <2>7, <3>1, SporkFields DEF TypeOK, GetSporks, Packet
    <3>3. early' \subseteq Message
      BY <2>7, SporkFields DEF TypeOK, GetSporks
    <3> QED
      BY <2>7, <3>2, <3>3 DEF TypeOK, GetSporks
  <2>8. ASSUME NEW n \in Restarting, Restart(n) PROVE TypeOK'
    <3>1. sporkDB[n] \in MaybeSpork /\ (sporkDB[n] # NoSpork => sporkDB[n] \in Message)
      BY SporkFields DEF TypeOK
    <3>2. mapSporks' \in [Node -> SUBSET Message]
      BY <2>8, <3>1 DEF TypeOK, Restart, LoadSporksFromDB
    <3>3. known' \in [Node -> SUBSET (Node \X Message)]
      BY <2>8 DEF TypeOK, Restart
    <3> QED
      BY <2>8, <3>1, <3>2, <3>3 DEF TypeOK, Restart, LoadSporksFromDB, MaybeSpork
  <2>9. CASE Tick
    BY <2>9 DEF TypeOK, Tick
  <2>10. CASE UNCHANGED vars
    BY <2>10 DEF TypeOK, vars
  <2> QED
    BY <2>1, <2>2, <2>3, <2>4, <2>5, <2>6, <2>7, <2>8, <2>9, <2>10 DEF Next
<1> QED
  BY <1>1, <1>2, PTL DEF Spec

(* PeerInv is inductive, given the types.                                  *)
LEMMA PeerInduction == TypeOK /\ PeerInv /\ [Next]_vars => PeerInv'
<1> SUFFICES ASSUME TypeOK, PeerInv, [Next]_vars, NEW q \in Node \ Signer
             PROVE  /\ update'[q] = NoSpork
                    /\ handler'[q].step = "store" => Time(mapSporksActive'[q]) < Time(handler'[q].spork)
                    /\ IF handler'[q].step = "write"
                       THEN mapSporksActive'[q] = handler'[q].spork
                       ELSE mapSporksActive'[q] = sporkDB'[q]
  BY DEF PeerInv, Fresh, Time
<1> USE NodeAssumption DEF PeerInv, Fresh, Time
<1>1. ASSUME NEW n \in Signer, NEW v \in Value, UpdateSporkRelay(n, v) PROVE PeerInv'
  BY <1>1 DEF TypeOK, UpdateSporkRelay
<1>2. ASSUME NEW n \in Signer, UpdateSporkStore(n) PROVE PeerInv'
  BY <1>2 DEF TypeOK, UpdateSporkStore
<1>3. ASSUME NEW p \in net, Inventory(p) PROVE PeerInv'
  BY <1>3 DEF Inventory
<1>4. ASSUME NEW p \in net, ProcessSporkCheck(p) PROVE PeerInv'
  BY <1>4 DEF TypeOK, ProcessSporkCheck, Idle
<1>5. ASSUME NEW n \in Node, ProcessSporkStore(n) PROVE PeerInv'
  BY <1>5 DEF TypeOK, ProcessSporkStore
<1>6. ASSUME NEW n \in Node, ProcessSporkWrite(n) PROVE PeerInv'
  BY <1>6 DEF TypeOK, ProcessSporkWrite, WriteSpork, Idle
<1>7. ASSUME NEW n \in Node, NEW p \in Node, GetSporks(n, p) PROVE PeerInv'
  BY <1>7 DEF GetSporks
<1>8. ASSUME NEW n \in Restarting, Restart(n) PROVE PeerInv'
  BY <1>8 DEF TypeOK, Restart, LoadSporksFromDB, Idle
<1>9. CASE Tick
  BY <1>9 DEF Tick
<1>10. CASE UNCHANGED vars
  BY <1>10 DEF vars
<1> QED
  BY <1>1, <1>2, <1>3, <1>4, <1>5, <1>6, <1>7, <1>8, <1>9, <1>10 DEF Next

(* Nodes that are no signers: what ProcessSpork compared still holds when  *)
(* it stores, and memory and database agree once it has written.           *)
THEOREM PeersCorrect == Spec => []PeerInv
<1>1. Init => PeerInv
  BY DEF Init, PeerInv, Idle
<1> QED
  BY <1>1, PeerInduction, TypeCorrect, PTL DEF Spec

(* What such a node goes by never gets older before it restarts, and a     *)
(* restart at rest brings the same spork back.                             *)
LEMMA PeerSteps == TypeOK /\ PeerInv /\ [Next]_vars => [PeersOnlyNewer /\ PeersReload]_vars
<1> SUFFICES ASSUME TypeOK, PeerInv, Next, NEW q \in Node \ Signer
             PROVE  OnlyNewer(q) /\ ReloadsTheSame(q)
  BY DEF PeersOnlyNewer, PeersReload
<1>1. mapSporksActive[q] \in MaybeSpork /\ Time(mapSporksActive[q]) \in Int
  BY SporkFields DEF TypeOK
<1>2. CASE mapSporksActive'[q] = mapSporksActive[q]
  BY <1>1, <1>2 DEF OnlyNewer, ReloadsTheSame
<1>3. ASSUME NEW n \in Signer, UpdateSporkStore(n) PROVE mapSporksActive'[q] = mapSporksActive[q]
  BY <1>3 DEF UpdateSporkStore, TypeOK
<1>4. ASSUME NEW n \in Node, ProcessSporkStore(n) PROVE OnlyNewer(q) /\ ReloadsTheSame(q)
  <2>1. CASE n = q
    <3>1. handler[q].spork = mapSporksActive'[q] /\ Time(mapSporksActive[q]) < Time(mapSporksActive'[q])
      BY <1>4, <2>1 DEF ProcessSporkStore, PeerInv, Fresh, Time, TypeOK
    <3>2. handler[q] \in [step : {"store", "write"}, spork : Message]
      BY <1>4, <2>1 DEF TypeOK, ProcessSporkStore, Idle
    <3>3. Time(mapSporksActive'[q]) \in Int
      BY <3>1, <3>2, BoundAssumption DEF Message, Time
    <3> QED
      BY <1>1, <1>4, <3>1, <3>3 DEF OnlyNewer, ReloadsTheSame, SameSession, ProcessSporkStore
  <2>2. CASE n # q
    BY <1>2, <1>4, <2>2 DEF ProcessSporkStore, TypeOK
  <2> QED
    BY <2>1, <2>2
<1>5. ASSUME NEW n \in Restarting, Restart(n) PROVE OnlyNewer(q) /\ ReloadsTheSame(q)
  <2>1. CASE n = q
    <3>1. mapSporksActive'[q] = sporkDB[q] /\ ~ SameSession(q)
      BY <1>5, <2>1 DEF Restart, LoadSporksFromDB, TypeOK, SameSession
    <3> QED
      BY <3>1 DEF OnlyNewer, ReloadsTheSame, AtRest, Idle, PeerInv
  <2>2. CASE n # q
    BY <1>2, <1>5, <2>2, NodeAssumption DEF Restart, TypeOK
  <2> QED
    BY <2>1, <2>2
<1> QED
  BY <1>2, <1>3, <1>4, <1>5
  DEF Next, UpdateSporkRelay, Inventory, ProcessSporkCheck, ProcessSporkWrite, GetSporks, Tick

(* NeverOlder, for every network.                                          *)
THEOREM PeersNeverOlder == Spec => NeverOlder
<1>1. TypeOK /\ PeerInv /\ [Next]_vars => [PeersOnlyNewer]_vars
  BY PeerSteps
<1> QED
  BY <1>1, TypeCorrect, PeersCorrect, PTL DEF Spec, NeverOlder

(* RestartKeeps, for every network.                                        *)
THEOREM PeersKeepOverRestart == Spec => RestartKeeps
<1>1. TypeOK /\ PeerInv /\ [Next]_vars => [PeersReload]_vars
  BY PeerSteps
<1> QED
  BY <1>1, TypeCorrect, PeersCorrect, PTL DEF Spec, RestartKeeps

-----------------------------------------------------------------------------
(* Agreement, with one signer s that does not restart: it has every        *)
(* message there is, but for the one it has announced and not yet stored,  *)
(* and goes by the latest.                                                 *)
Stored(s) ==
    /\ \A n \in Node :
          /\ mapSporks[n] \subseteq mapSporks[s]
          /\ mapSporksActive[n] \in mapSporks[s] \cup {NoSpork}
          /\ sporkDB[n] \in mapSporks[s] \cup {NoSpork}
          /\ handler[n] = Idle \/ handler[n].spork \in mapSporks[s]
    /\ \A p \in net :
          /\ p.spork \in mapSporks[s] \/ (p.kind = "inv" /\ p.from = s /\ p.spork = update[s])
          /\ p.from # p.to /\ (p.to = s => p.kind = "inv")
    /\ handler[s] = Idle /\ asked[s] = Node \ {s}

Latest(s) ==
    /\ \A m \in mapSporks[s] : Time(m) <= Time(mapSporksActive[s])
    /\ Time(mapSporksActive[s]) <= now
    /\ update[s] # NoSpork => Time(mapSporksActive[s]) <= Time(update[s]) /\ Time(update[s]) <= now

(* The others have nothing and announce nothing later than what they go by. *)
Owned(s) ==
    \A n \in Node \ {s} :
        /\ \A m \in mapSporks[n] : Time(m) <= Time(mapSporksActive[n])
        /\ \A p \in net : p.from = n /\ p.kind = "inv" => Time(p.spork) <= Time(mapSporksActive[n])

(* n goes by a spork no older than m, or is about to, or the signer's      *)
(* announcement or answer is on its way: of m, or of a later spork that    *)
(* the signer can serve.                                                   *)
Owed(s, n, m) ==
    \/ Time(m) <= Time(mapSporksActive[n])
    \/ handler[n].step = "store" /\ Time(m) <= Time(handler[n].spork)
    \/ \E p \in net :
          /\ p.from = s /\ p.to = n
          /\ p.spork = m \/ (p.spork \in mapSporks[s] /\ Time(m) <= Time(p.spork))

(* What the signer has to see to it that n gets: all it has, once n has    *)
(* asked, and what it announced to n.                                      *)
Promised(s, n, m) ==
    \/ s \in asked[n] /\ m \in mapSporks[s] \cup {update[s]}
    \/ <<n, m>> \in known[s]
Delivery(s) == \A n \in Node \ {s}, m \in Message \ early : Promised(s, n, m) => Owed(s, n, m)

AgreeInv(s) == Stored(s) /\ Latest(s) /\ Owned(s) /\ Delivery(s)

LEMMA Times ==
    /\ \A m \in MaybeSpork : Time(m) \in Nat
    /\ Time(NoSpork) = 0 /\ NoSpork \notin Message /\ Message \subseteq MaybeSpork
    /\ Idle.step = "idle"
BY BoundAssumption DEF MaybeSpork, Message, NoSpork, Time, Idle

(* The packets that Relay sends, and to whom.                              *)
LEMMA RelayFacts ==
    ASSUME TypeOK, NEW n \in Node, NEW m \in Message, Relay(n, m)
    PROVE  /\ net \subseteq net'
           /\ \A p \in net' \ net : p.kind = "inv" /\ p.from = n /\ p.to \in Node \ {n} /\ p.spork = m
           /\ \A q \in Node \ {n} : <<q, m>> \in known[n] \/ \E p \in net' : p.from = n /\ p.to = q /\ p.spork = m
           /\ \A q \in Node \ {n}, k \in Message : <<q, k>> \in known'[n] => <<q, k>> \in known[n] \/ k = m
           /\ \A q \in Node \ {n} : known'[q] = known[q]
<1> DEFINE peers == {p \in Node \ {n} : <<p, m>> \notin known[n]}
           told == {[kind |-> "inv", from |-> n, to |-> p, spork |-> m] : p \in peers}
<1>1. net' = net \cup told /\ known' = [known EXCEPT ![n] = known[n] \cup (peers \X {m})]  BY DEF Relay
<1>2. ASSUME NEW q \in Node \ {n}, <<q, m>> \notin known[n]
      PROVE  \E p \in net' : p.from = n /\ p.to = q /\ p.spork = m
  <2>1. [kind |-> "inv", from |-> n, to |-> q, spork |-> m] \in told  BY <1>2
  <2> HIDE DEF told
  <2> QED  BY <1>1, <2>1
<1>3. ASSUME NEW p \in told  PROVE p.kind = "inv" /\ p.from = n /\ p.to \in Node \ {n} /\ p.spork = m
  <2>1. PICK q \in peers : p = [kind |-> "inv", from |-> n, to |-> q, spork |-> m]  OBVIOUS
  <2> QED  BY <2>1
<1>4. \A q, k : <<q, k>> \in peers \X {m} => k = m  OBVIOUS
<1> HIDE DEF told, peers
<1>5. known'[n] = known[n] \cup (peers \X {m}) /\ \A q \in Node \ {n} : known'[q] = known[q]  BY <1>1 DEF TypeOK
<1> QED  BY <1>1, <1>2, <1>3, <1>4, <1>5

(* What is owed to n stays owed while n and what is on its way to it do    *)
(* not change.                                                             *)
LEMMA OwedKept ==
    ASSUME NEW s, NEW n, NEW m, Owed(s, n, m), mapSporksActive'[n] = mapSporksActive[n], handler'[n] = handler[n],
           mapSporks[s] \subseteq mapSporks'[s], \A p \in net : p.from = s /\ p.to = n => p \in net'
    PROVE  Owed(s, n, m)'
BY DEF Owed

LEMMA RelayAgree ==
    ASSUME NEW s \in Node, TypeOK, AgreeInv(s), NEW v \in Value, UpdateSporkRelay(s, v)
    PROVE  AgreeInv(s)'
<1>0. PICK m \in Message : m = [nValue |-> v, nTimeSigned |-> now]  BY DEF TypeOK, Message
<1>1. Time(m) = now /\ now \in Nat  BY <1>0, BoundAssumption DEF Time, TypeOK
<1>2. /\ Relay(s, m) /\ update[s] = NoSpork /\ update' = [update EXCEPT ![s] = m]
      /\ UNCHANGED <<now, mapSporks, mapSporksActive, sporkDB, handler, asked, early>>
  BY <1>0 DEF UpdateSporkRelay, TimeSigned
<1>3. update'[s] = m  BY <1>2 DEF TypeOK
<1>4. /\ net \subseteq net'
      /\ \A p \in net' \ net : p.kind = "inv" /\ p.from = s /\ p.to \in Node \ {s} /\ p.spork = m
      /\ \A q \in Node \ {s} : <<q, m>> \in known[s] \/ \E p \in net' : p.from = s /\ p.to = q /\ p.spork = m
      /\ \A q \in Node \ {s}, k \in Message : <<q, k>> \in known'[s] => <<q, k>> \in known[s] \/ k = m
  BY <1>1, <1>2, RelayFacts
<1>5. \A p \in net : p.spork \in mapSporks[s]
  BY <1>2, Times DEF AgreeInv, Stored, TypeOK, Packet
<1>6. Stored(s)'
  <2>1. \A n \in Node :
          /\ mapSporks'[n] \subseteq mapSporks'[s]
          /\ mapSporksActive'[n] \in mapSporks'[s] \cup {NoSpork}
          /\ sporkDB'[n] \in mapSporks'[s] \cup {NoSpork}
          /\ handler'[n] = Idle \/ handler'[n].spork \in mapSporks'[s]
    BY <1>2 DEF AgreeInv, Stored
  <2>2. \A p \in net' :
          /\ p.spork \in mapSporks'[s] \/ (p.kind = "inv" /\ p.from = s /\ p.spork = update'[s])
          /\ p.from # p.to /\ (p.to = s => p.kind = "inv")
    BY <1>2, <1>3, <1>4, <1>5 DEF AgreeInv, Stored
  <2>3. handler'[s] = Idle /\ asked'[s] = Node \ {s}  BY <1>2 DEF AgreeInv, Stored
  <2> QED  BY <2>1, <2>2, <2>3 DEF Stored
<1>7. Latest(s)'
  BY <1>1, <1>2, <1>3 DEF AgreeInv, Latest
<1>8. Owned(s)'
  BY <1>2, <1>4 DEF AgreeInv, Owned
<1>9. Delivery(s)'
  <2> SUFFICES ASSUME NEW n \in Node \ {s}, NEW k \in Message \ early, Promised(s, n, k)'  PROVE Owed(s, n, k)'
    BY <1>2 DEF Delivery
  <2>1. Promised(s, n, k) => Owed(s, n, k)'
    <3>1. Promised(s, n, k) => Owed(s, n, k)  BY DEF AgreeInv, Delivery
    <3> QED  BY <1>2, <1>4, <3>1, OwedKept
  <2>2. CASE k = m
    <3>1. CASE <<n, m>> \in known[s]  BY <2>1, <2>2, <3>1 DEF Promised
    <3>2. CASE \E p \in net' : p.from = s /\ p.to = n /\ p.spork = m  BY <2>2, <3>2 DEF Owed
    <3> QED  BY <1>4, <3>1, <3>2
  <2>3. CASE k # m
    <3>1. Promised(s, n, k)  BY <1>2, <1>3, <1>4, <2>3 DEF Promised
    <3> QED  BY <2>1, <3>1
  <2> QED  BY <2>2, <2>3
<1> QED  BY <1>6, <1>7, <1>8, <1>9 DEF AgreeInv

LEMMA StoreAgree ==
    ASSUME NEW s \in Node, TypeOK, AgreeInv(s), UpdateSporkStore(s)
    PROVE  AgreeInv(s)'
<1>0. PICK m \in Message : m = update[s]  BY SporkFields DEF TypeOK, UpdateSporkStore
<1>1. m # NoSpork  BY Times
<1>2. /\ mapSporks' = [mapSporks EXCEPT ![s] = mapSporks[s] \cup {m}]
      /\ mapSporksActive' = [mapSporksActive EXCEPT ![s] = m]
      /\ update' = [update EXCEPT ![s] = NoSpork]
      /\ UNCHANGED <<now, sporkDB, handler, net, known, asked, early>>
  BY <1>0 DEF UpdateSporkStore
<1>3. /\ mapSporks'[s] = mapSporks[s] \cup {m} /\ mapSporksActive'[s] = m /\ update'[s] = NoSpork
      /\ \A n \in Node \ {s} : mapSporks'[n] = mapSporks[n] /\ mapSporksActive'[n] = mapSporksActive[n]
  BY <1>2 DEF TypeOK
<1>4. Stored(s)'
  <2>1. \A n \in Node :
          /\ mapSporks'[n] \subseteq mapSporks'[s]
          /\ mapSporksActive'[n] \in mapSporks'[s] \cup {NoSpork}
          /\ sporkDB'[n] \in mapSporks'[s] \cup {NoSpork}
          /\ handler'[n] = Idle \/ handler'[n].spork \in mapSporks'[s]
    BY <1>2, <1>3 DEF AgreeInv, Stored
  <2>2. \A p \in net' :
          /\ p.spork \in mapSporks'[s] \/ (p.kind = "inv" /\ p.from = s /\ p.spork = update'[s])
          /\ p.from # p.to /\ (p.to = s => p.kind = "inv")
    BY <1>0, <1>2, <1>3 DEF AgreeInv, Stored
  <2>3. handler'[s] = Idle /\ asked'[s] = Node \ {s}  BY <1>2 DEF AgreeInv, Stored
  <2> QED  BY <2>1, <2>2, <2>3 DEF Stored
<1>5. Time(m) <= now
  BY <1>0, <1>1 DEF AgreeInv, Latest
<1>6. Latest(s)'
  <2>1. Time(mapSporksActive[s]) <= Time(m) /\ Time(mapSporksActive[s]) \in Nat /\ Time(m) \in Nat
    BY <1>0, <1>1, Times DEF AgreeInv, Latest, TypeOK
  <2>2. \A k \in mapSporks[s] : Time(k) \in Nat  BY Times DEF TypeOK
  <2> QED  BY <1>2, <1>3, <1>5, <2>1, <2>2 DEF AgreeInv, Latest
<1>7. Owned(s)'
  BY <1>2, <1>3 DEF AgreeInv, Owned
<1>8. Delivery(s)'
  <2> SUFFICES ASSUME NEW n \in Node \ {s}, NEW k \in Message \ early, Promised(s, n, k)'  PROVE Owed(s, n, k)'
    BY <1>2 DEF Delivery
  <2>1. Promised(s, n, k)  BY <1>0, <1>2, <1>3, Times DEF Promised
  <2>2. Owed(s, n, k)  BY <2>1 DEF AgreeInv, Delivery
  <2> QED  BY <1>2, <1>3, <2>2, OwedKept
<1> QED  BY <1>4, <1>6, <1>7, <1>8 DEF AgreeInv

(* The signer has what is announced to it; what it announced to another    *)
(* node is there, or sent, or the answer was early.                        *)
LEMMA InventoryAgree ==
    ASSUME NEW s \in Node, TypeOK, AgreeInv(s), NEW p \in net, Inventory(p)
    PROVE  AgreeInv(s)'
<1> DEFINE q == [p EXCEPT !.kind = "spork"]
<1>1. /\ p.kind = "inv" /\ p \in Packet /\ p.from \in Node /\ p.to \in Node /\ p.spork \in Message
      /\ q.kind = "spork" /\ q.from = p.from /\ q.to = p.to /\ q.spork = p.spork
  BY DEF Inventory, TypeOK, Packet
<1>2. /\ known' = [known EXCEPT ![p.to] = known[p.to] \cup {<<p.from, p.spork>>}]
      /\ UNCHANGED <<now, mapSporks, mapSporksActive, sporkDB, handler, update, asked>>
      /\ \/ p.spork \in mapSporks[p.to] /\ net' = net \ {p} /\ early' = early
         \/ p.spork \notin mapSporks[p.to] /\ p.spork \in mapSporks[p.from] /\ net' = (net \ {p}) \cup {q} /\ early' = early
         \/ /\ p.spork \notin mapSporks[p.to] /\ p.spork \notin mapSporks[p.from]
            /\ net' = net \ {p} /\ early' = early \cup {p.spork}
  BY DEF Inventory, AlreadyHave
<1> HIDE DEF q
<1>3. p.to = s => p.from # s /\ p.spork \in mapSporks[s]  BY DEF AgreeInv, Stored
<1>4. mapSporks[p.from] \subseteq mapSporks[s]  BY <1>1 DEF AgreeInv, Stored
<1>5. Stored(s)'
  <2>1. \A r \in net' :
          /\ r.spork \in mapSporks'[s] \/ (r.kind = "inv" /\ r.from = s /\ r.spork = update'[s])
          /\ r.from # r.to /\ (r.to = s => r.kind = "inv")
    BY <1>1, <1>2, <1>3, <1>4 DEF AgreeInv, Stored
  <2> QED  BY <1>2, <2>1 DEF AgreeInv, Stored
<1>6. Latest(s)'  BY <1>2 DEF AgreeInv, Latest
<1>7. Owned(s)'  BY <1>1, <1>2 DEF AgreeInv, Owned
<1>8. ASSUME NEW n \in Node \ {s}, NEW m \in Message \ early', Owed(s, n, m)  PROVE Owed(s, n, m)'
  <2>1. CASE p.to # n
    <3>1. \A r \in net : r.from = s /\ r.to = n => r \in net'  BY <1>2, <2>1
    <3> QED  BY <1>2, <1>8, <3>1, OwedKept
  <2>2. CASE p.to = n /\ p.spork \in mapSporks[n]
    <3>1. Time(p.spork) <= Time(mapSporksActive[n])  BY <2>2 DEF AgreeInv, Owned
    <3>2. Time(m) \in Nat /\ Time(p.spork) \in Nat /\ Time(mapSporksActive[n]) \in Nat  BY <1>1, Times DEF TypeOK
    <3>3. p.spork = m \/ Time(m) <= Time(p.spork) => Time(m) <= Time(mapSporksActive[n])  BY <3>1, <3>2
    <3> QED  BY <1>2, <1>8, <3>3 DEF Owed
  <2>3. CASE net' = (net \ {p}) \cup {q}  BY <1>1, <1>2, <1>8, <2>3 DEF Owed
  <2>4. CASE p.spork \notin mapSporks[p.from] /\ net' = net \ {p} /\ early' = early \cup {p.spork}
    <3>1. ~ (p.from = s /\ (p.spork = m \/ p.spork \in mapSporks[s]))  BY <1>8, <2>4
    <3> QED  BY <1>2, <1>8, <2>4, <3>1 DEF Owed
  <2> QED  BY <1>2, <2>1, <2>2, <2>3, <2>4
<1>9. Delivery(s)'
  <2> SUFFICES ASSUME NEW n \in Node \ {s}, NEW m \in Message \ early', Promised(s, n, m)'  PROVE Owed(s, n, m)'
    BY DEF Delivery
  <2>1. CASE Promised(s, n, m)
    <3>1. m \notin early  BY <1>2
    <3>2. Owed(s, n, m)  BY <2>1, <3>1 DEF AgreeInv, Delivery
    <3> QED  BY <1>8, <3>2
  <2>2. CASE ~ Promised(s, n, m)
    <3>1. <<n, m>> \in known'[s] \ known[s]  BY <1>2, <2>2 DEF Promised
    <3>2. p.to = s /\ n = p.from /\ m = p.spork  BY <1>1, <1>2, <3>1 DEF TypeOK
    <3>3. Time(m) <= Time(mapSporksActive[n])  BY <1>1, <3>2 DEF AgreeInv, Owned
    <3> QED  BY <1>2, <3>3 DEF Owed
  <2> QED  BY <2>1, <2>2
<1> QED  BY <1>5, <1>6, <1>7, <1>9 DEF AgreeInv

(* Steps that leave the signer alone and keep what is owed to the others.  *)
LEMMA OthersDelivered ==
    ASSUME NEW s \in Node, AgreeInv(s), mapSporks'[s] = mapSporks[s], update'[s] = update[s],
           early' = early, known'[s] \subseteq known[s], \A n \in Node \ {s} : s \in asked'[n] => s \in asked[n],
           \A n \in Node \ {s}, m \in Message : Promised(s, n, m)' /\ Owed(s, n, m) => Owed(s, n, m)'
    PROVE  Delivery(s)'
<1> SUFFICES ASSUME NEW n \in Node \ {s}, NEW m \in Message \ early, Promised(s, n, m)'  PROVE Owed(s, n, m)'
  BY DEF Delivery
<1>1. Promised(s, n, m)  BY DEF Promised
<1>2. Owed(s, n, m)  BY <1>1 DEF AgreeInv, Delivery
<1> QED  BY <1>2

LEMMA CheckAgree ==
    ASSUME NEW s \in Node, TypeOK, AgreeInv(s), NEW p \in net, ProcessSporkCheck(p)
    PROVE  AgreeInv(s)'
<1>1. /\ p.kind = "spork" /\ p.from \in Node /\ p.to \in Node /\ p.spork \in Message /\ handler[p.to] = Idle
      /\ net' = net \ {p}
      /\ \/ Time(mapSporksActive[p.to]) < Time(p.spork)
            /\ handler' = [handler EXCEPT ![p.to] = [step |-> "store", spork |-> p.spork]]
         \/ ~ (Time(mapSporksActive[p.to]) < Time(p.spork)) /\ handler' = handler
      /\ UNCHANGED <<now, mapSporks, mapSporksActive, sporkDB, update, known, asked, early>>
  BY DEF ProcessSporkCheck, TypeOK, Packet, Fresh, Time
<1>2. p.to # s /\ p.spork \in mapSporks[s]  BY <1>1 DEF AgreeInv, Stored
<1>3. \A n \in Node : handler'[n] = handler[n] \/ (n = p.to /\ handler'[n] = [step |-> "store", spork |-> p.spork])
  BY <1>1 DEF TypeOK
<1>4. Stored(s)'
  <2>1. \A n \in Node : handler'[n] = Idle \/ handler'[n].spork \in mapSporks[s]
    BY <1>2, <1>3 DEF AgreeInv, Stored
  <2>2. handler'[s] = Idle  BY <1>2, <1>3 DEF AgreeInv, Stored
  <2> QED  BY <1>1, <2>1, <2>2 DEF AgreeInv, Stored
<1>5. Latest(s)' /\ Owned(s)'  BY <1>1 DEF AgreeInv, Latest, Owned
<1>6. ASSUME NEW n \in Node \ {s}, NEW m \in Message, Owed(s, n, m)  PROVE Owed(s, n, m)'
  <2>1. CASE p.to # n
    <3>1. \A r \in net : r.from = s /\ r.to = n => r \in net'  BY <1>1, <2>1
    <3> QED  BY <1>1, <1>3, <1>6, <2>1, <3>1, OwedKept
  <2>2. CASE p.to = n
    <3>1. Time(m) \in Nat /\ Time(p.spork) \in Nat /\ Time(mapSporksActive[n]) \in Nat  BY <1>1, Times DEF TypeOK
    <3>2. handler[n].step # "store"  BY <1>1, <2>2, Times
    <3>3. p.spork = m \/ Time(m) <= Time(p.spork) =>
              \/ Time(m) <= Time(mapSporksActive[n])
              \/ handler'[n].step = "store" /\ Time(m) <= Time(handler'[n].spork)
      BY <1>1, <2>2, <3>1 DEF TypeOK
    <3> QED  BY <1>1, <1>6, <3>2, <3>3 DEF Owed
  <2> QED  BY <2>1, <2>2
<1>7. Delivery(s)'  BY <1>1, <1>6, OthersDelivered
<1> QED  BY <1>4, <1>5, <1>7 DEF AgreeInv

LEMMA ProcessAgree ==
    ASSUME NEW s \in Node, TypeOK, PeerInv, Signer = {s}, AgreeInv(s), NEW n \in Node, ProcessSporkStore(n)
    PROVE  AgreeInv(s)'
<1>1. n # s  BY Times DEF AgreeInv, Stored, ProcessSporkStore
<1>2. handler[n] # Idle /\ handler[n].step = "store"  BY Times DEF ProcessSporkStore
<1>3. PICK m \in Message : m = handler[n].spork /\ m \in mapSporks[s] /\ Time(mapSporksActive[n]) < Time(m)
  BY <1>1, <1>2 DEF AgreeInv, Stored, PeerInv, Fresh, Time, TypeOK
<1>4. /\ mapSporks' = [mapSporks EXCEPT ![n] = mapSporks[n] \cup {m}]
      /\ mapSporksActive' = [mapSporksActive EXCEPT ![n] = m] /\ Relay(n, m)
      /\ handler' = [handler EXCEPT ![n] = [step |-> "write", spork |-> m]]
      /\ UNCHANGED <<now, sporkDB, update, asked, early>>
  BY <1>3 DEF ProcessSporkStore
<1>5. /\ net \subseteq net'
      /\ \A p \in net' \ net : p.kind = "inv" /\ p.from = n /\ p.to \in Node \ {n} /\ p.spork = m
      /\ \A q \in Node \ {n} : known'[q] = known[q]
  BY <1>4, RelayFacts
<1>6. /\ mapSporks'[n] = mapSporks[n] \cup {m} /\ mapSporksActive'[n] = m
      /\ handler'[n] = [step |-> "write", spork |-> m]
      /\ \A q \in Node \ {n} : mapSporks'[q] = mapSporks[q] /\ mapSporksActive'[q] = mapSporksActive[q] /\ handler'[q] = handler[q]
  BY <1>4 DEF TypeOK
<1>7. Stored(s)'
  <2>1. \A q \in Node :
          /\ mapSporks'[q] \subseteq mapSporks'[s]
          /\ mapSporksActive'[q] \in mapSporks'[s] \cup {NoSpork}
          /\ sporkDB'[q] \in mapSporks'[s] \cup {NoSpork}
          /\ handler'[q] = Idle \/ handler'[q].spork \in mapSporks'[s]
    <3> SUFFICES ASSUME NEW q \in Node
                 PROVE  /\ mapSporks'[q] \subseteq mapSporks[s]
                        /\ mapSporksActive'[q] \in mapSporks[s] \cup {NoSpork}
                        /\ sporkDB[q] \in mapSporks[s] \cup {NoSpork}
                        /\ handler'[q] = Idle \/ handler'[q].spork \in mapSporks[s]
      BY <1>1, <1>4, <1>6
    <3>1. CASE q = n  BY <1>3, <1>6, <3>1 DEF AgreeInv, Stored
    <3>2. CASE q # n  BY <1>6, <3>2 DEF AgreeInv, Stored
    <3> QED  BY <3>1, <3>2
  <2>2. \A p \in net' :
          /\ p.spork \in mapSporks'[s] \/ (p.kind = "inv" /\ p.from = s /\ p.spork = update'[s])
          /\ p.from # p.to /\ (p.to = s => p.kind = "inv")
    BY <1>1, <1>3, <1>4, <1>5, <1>6 DEF AgreeInv, Stored
  <2>3. handler'[s] = Idle /\ asked'[s] = Node \ {s}  BY <1>1, <1>4, <1>6 DEF AgreeInv, Stored
  <2> QED  BY <2>1, <2>2, <2>3 DEF Stored
<1>8. Latest(s)'  BY <1>1, <1>4, <1>6 DEF AgreeInv, Latest
<1>9. Time(m) \in Nat /\ Time(mapSporksActive[n]) \in Nat /\ \A k \in MaybeSpork : Time(k) \in Nat  BY Times DEF TypeOK
<1>10. Owned(s)'
  <2> SUFFICES ASSUME NEW q \in Node \ {s}
               PROVE  /\ \A k \in mapSporks'[q] : Time(k) <= Time(mapSporksActive'[q])
                      /\ \A p \in net' : p.from = q /\ p.kind = "inv" => Time(p.spork) <= Time(mapSporksActive'[q])
    BY DEF Owned
  <2>1. CASE q # n  BY <1>5, <1>6, <2>1 DEF AgreeInv, Owned
  <2>2. CASE q = n
    <3>1. \A k \in mapSporks[n] : k \in MaybeSpork  BY Times DEF TypeOK
    <3>2. \A p \in net : p.spork \in MaybeSpork  BY Times DEF TypeOK, Packet
    <3>3. \A k \in MaybeSpork : Time(k) <= Time(mapSporksActive[n]) => Time(k) <= Time(m)  BY <1>3, <1>9
    <3>4. \A k \in mapSporks[n] : Time(k) <= Time(m)  BY <1>1, <3>1, <3>3 DEF AgreeInv, Owned
    <3>5. \A p \in net : p.from = n /\ p.kind = "inv" => Time(p.spork) <= Time(m)  BY <1>1, <3>2, <3>3 DEF AgreeInv, Owned
    <3> QED  BY <1>5, <1>6, <1>9, <2>2, <3>4, <3>5
  <2> QED  BY <2>1, <2>2
<1>11. ASSUME NEW q \in Node \ {s}, NEW k \in Message, Owed(s, q, k)  PROVE Owed(s, q, k)'
  <2>1. CASE q # n  BY <1>1, <1>5, <1>6, <1>11, <2>1, OwedKept
  <2>2. CASE q = n
    <3>1. Time(k) <= Time(mapSporksActive[n]) => Time(k) <= Time(m)  BY <1>3, <1>9, Times
    <3> QED  BY <1>1, <1>3, <1>5, <1>6, <1>11, <2>2, <3>1 DEF Owed
  <2> QED  BY <2>1, <2>2
<1>12. Delivery(s)'  BY <1>1, <1>4, <1>5, <1>6, <1>11, OthersDelivered
<1> QED  BY <1>7, <1>8, <1>10, <1>12 DEF AgreeInv

LEMMA WriteAgree ==
    ASSUME NEW s \in Node, TypeOK, AgreeInv(s), NEW n \in Node, ProcessSporkWrite(n)
    PROVE  AgreeInv(s)'
<1>1. n # s /\ handler[n].step = "write" /\ handler[n] # Idle  BY Times DEF AgreeInv, Stored, ProcessSporkWrite
<1>2. /\ sporkDB' = [sporkDB EXCEPT ![n] = handler[n].spork] /\ handler' = [handler EXCEPT ![n] = Idle]
      /\ UNCHANGED <<now, mapSporks, mapSporksActive, update, net, known, asked, early>>
  BY DEF ProcessSporkWrite, WriteSpork
<1>3. /\ sporkDB'[n] = handler[n].spork /\ handler'[n] = Idle
      /\ \A q \in Node \ {n} : sporkDB'[q] = sporkDB[q] /\ handler'[q] = handler[q]
  BY <1>2 DEF TypeOK
<1>4. Stored(s)'
  <2>1. \A q \in Node :
          /\ sporkDB'[q] \in mapSporks[s] \cup {NoSpork}
          /\ handler'[q] = Idle \/ handler'[q].spork \in mapSporks[s]
    BY <1>1, <1>3 DEF AgreeInv, Stored
  <2> QED  BY <1>1, <1>2, <1>3, <2>1 DEF AgreeInv, Stored
<1>5. Latest(s)' /\ Owned(s)'  BY <1>2 DEF AgreeInv, Latest, Owned
<1>6. ASSUME NEW q \in Node \ {s}, NEW k \in Message, Owed(s, q, k)  PROVE Owed(s, q, k)'
  BY <1>1, <1>2, <1>3, <1>6 DEF Owed
<1>7. Delivery(s)'  BY <1>2, <1>6, OthersDelivered
<1> QED  BY <1>4, <1>5, <1>7 DEF AgreeInv

(* A node that asks the signer gets what it goes by, or was early.         *)
LEMMA GetSporksAgree ==
    ASSUME NEW s \in Node, TypeOK, AgreeInv(s), NEW n \in Node, NEW p \in Node, GetSporks(n, p)
    PROVE  AgreeInv(s)'
<1> DEFINE r == [kind |-> "spork", from |-> p, to |-> n, spork |-> mapSporksActive[p]]
<1>1. /\ n # s /\ p # n /\ asked' = [asked EXCEPT ![n] = asked[n] \cup {p}]
      /\ net' = IF mapSporksActive[p] = NoSpork THEN net ELSE net \cup {r}
      /\ early' = early \cup ({update[p]} \ {NoSpork})
      /\ UNCHANGED <<now, mapSporks, mapSporksActive, sporkDB, handler, update, known>>
  BY DEF GetSporks, AgreeInv, Stored
<1>2. /\ r.kind = "spork" /\ r.from = p /\ r.to = n /\ r.spork = mapSporksActive[p]
      /\ mapSporksActive[p] \in mapSporks[s] \cup {NoSpork}
  BY DEF AgreeInv, Stored
<1> HIDE DEF r
<1>3. asked'[n] = asked[n] \cup {p} /\ \A q \in Node \ {n} : asked'[q] = asked[q]  BY <1>1 DEF TypeOK
<1>4. Stored(s)'
  <2>1. \A q \in net' :
          /\ q.spork \in mapSporks[s] \/ (q.kind = "inv" /\ q.from = s /\ q.spork = update[s])
          /\ q.from # q.to /\ (q.to = s => q.kind = "inv")
    BY <1>1, <1>2 DEF AgreeInv, Stored
  <2> QED  BY <1>1, <1>3, <2>1 DEF AgreeInv, Stored
<1>5. Latest(s)' /\ Owned(s)'  BY <1>1, <1>2 DEF AgreeInv, Latest, Owned
<1>6. \A q, k : Owed(s, q, k) => Owed(s, q, k)'  BY <1>1 DEF Owed
<1>7. Delivery(s)'
  <2> SUFFICES ASSUME NEW q \in Node \ {s}, NEW m \in Message \ early', Promised(s, q, m)'  PROVE Owed(s, q, m)'
    BY DEF Delivery
  <2>1. CASE Promised(s, q, m)
    <3>1. Owed(s, q, m)  BY <1>1, <2>1 DEF AgreeInv, Delivery
    <3> QED  BY <1>6, <3>1
  <2>2. CASE ~ Promised(s, q, m)
    <3>1. q = n /\ p = s  BY <1>1, <1>3, <2>2 DEF Promised
    <3>2. m \in mapSporks[s]  BY <1>1, <2>2, <3>1, Times DEF Promised
    <3>3. Time(m) <= Time(mapSporksActive[s])  BY <3>2 DEF AgreeInv, Latest
    <3>4. CASE mapSporksActive[s] = NoSpork
      <4>1. Time(mapSporksActive[s]) <= Time(mapSporksActive[q])  BY <3>4, Times DEF TypeOK
      <4>2. Time(m) \in Nat /\ Time(mapSporksActive[s]) \in Nat /\ Time(mapSporksActive[q]) \in Nat  BY Times DEF TypeOK
      <4>3. Time(m) <= Time(mapSporksActive[q])  BY <3>3, <4>1, <4>2
      <4>4. Time(m) <= Time(mapSporksActive'[q])  BY <1>1, <4>3
      <4> QED  BY <4>4 DEF Owed
    <3>5. CASE mapSporksActive[s] # NoSpork
      <4>1. r \in net' /\ r.spork \in mapSporks[s]  BY <1>1, <1>2, <3>1, <3>5
      <4> QED  BY <1>1, <1>2, <3>1, <3>3, <4>1 DEF Owed
    <3> QED  BY <3>4, <3>5
  <2> QED  BY <2>1, <2>2
<1> QED  BY <1>4, <1>5, <1>7 DEF AgreeInv

(* A node that restarts is owed nothing until it asks the signer again.    *)
LEMMA RestartAgree ==
    ASSUME NEW s \in Node, TypeOK, AgreeInv(s), NEW n \in Node \ {s}, Restart(n)
    PROVE  AgreeInv(s)'
<1>1. PICK d \in MaybeSpork : d = sporkDB[n] /\ d \in mapSporks[s] \cup {NoSpork}  BY DEF AgreeInv, Stored, TypeOK
<1>2. /\ mapSporks' = [mapSporks EXCEPT ![n] = IF d = NoSpork THEN {} ELSE {d}]
      /\ mapSporksActive' = [mapSporksActive EXCEPT ![n] = d]
      /\ handler' = [handler EXCEPT ![n] = Idle] /\ update' = [update EXCEPT ![n] = NoSpork]
      /\ net' = {p \in net : p.from # n /\ p.to # n}
      /\ known' = [p \in Node |-> IF p = n THEN {} ELSE known[p] \ ({n} \X Message)]
      /\ asked' = [asked EXCEPT ![n] = {}] /\ UNCHANGED <<now, sporkDB, early>>
  BY <1>1 DEF Restart, LoadSporksFromDB
<1>3. /\ mapSporks'[n] \subseteq {d} /\ (d = NoSpork => mapSporks'[n] = {})
      /\ mapSporksActive'[n] = d /\ handler'[n] = Idle /\ asked'[n] = {}
      /\ \A q \in Node \ {n} : /\ mapSporks'[q] = mapSporks[q] /\ mapSporksActive'[q] = mapSporksActive[q]
                               /\ handler'[q] = handler[q] /\ update'[q] = update[q] /\ asked'[q] = asked[q]
      /\ known'[s] = known[s] \ ({n} \X Message)
  BY <1>2 DEF TypeOK
<1>4. Stored(s)'
  <2>1. \A q \in Node :
          /\ mapSporks'[q] \subseteq mapSporks'[s]
          /\ mapSporksActive'[q] \in mapSporks'[s] \cup {NoSpork}
          /\ sporkDB'[q] \in mapSporks'[s] \cup {NoSpork}
          /\ handler'[q] = Idle \/ handler'[q].spork \in mapSporks'[s]
    <3> SUFFICES ASSUME NEW q \in Node
                 PROVE  /\ mapSporks'[q] \subseteq mapSporks[s]
                        /\ mapSporksActive'[q] \in mapSporks[s] \cup {NoSpork}
                        /\ sporkDB[q] \in mapSporks[s] \cup {NoSpork}
                        /\ handler'[q] = Idle \/ handler'[q].spork \in mapSporks[s]
      BY <1>2, <1>3
    <3>1. CASE q = n  BY <1>1, <1>3, <3>1 DEF AgreeInv, Stored
    <3>2. CASE q # n  BY <1>3, <3>2 DEF AgreeInv, Stored
    <3> QED  BY <3>1, <3>2
  <2>2. \A p \in net' :
          /\ p.spork \in mapSporks'[s] \/ (p.kind = "inv" /\ p.from = s /\ p.spork = update'[s])
          /\ p.from # p.to /\ (p.to = s => p.kind = "inv")
    BY <1>2, <1>3 DEF AgreeInv, Stored
  <2>3. handler'[s] = Idle /\ asked'[s] = Node \ {s}  BY <1>3 DEF AgreeInv, Stored
  <2> QED  BY <2>1, <2>2, <2>3 DEF Stored
<1>5. Latest(s)'  BY <1>2, <1>3 DEF AgreeInv, Latest
<1>6. Owned(s)'
  <2> SUFFICES ASSUME NEW q \in Node \ {s}
               PROVE  /\ \A k \in mapSporks'[q] : Time(k) <= Time(mapSporksActive'[q])
                      /\ \A p \in net' : p.from = q /\ p.kind = "inv" => Time(p.spork) <= Time(mapSporksActive'[q])
    BY DEF Owned
  <2>1. CASE q # n  BY <1>2, <1>3, <2>1 DEF AgreeInv, Owned
  <2>2. CASE q = n
    <3>1. Time(d) <= Time(d)  BY Times
    <3> QED  BY <1>2, <1>3, <2>2, <3>1
  <2> QED  BY <2>1, <2>2
<1>7. ASSUME NEW q \in Node \ {s}, NEW k \in Message, Promised(s, q, k)', Owed(s, q, k)
      PROVE  Owed(s, q, k)'
  <2>1. q # n
    <3>1. known[s] \in SUBSET (Node \X Message)  BY DEF TypeOK
    <3> QED  BY <1>3, <1>7, <3>1 DEF Promised
  <2>2. \A p \in net : p.from = s /\ p.to = q => p \in net'  BY <1>2, <2>1
  <2> QED  BY <1>3, <1>7, <2>1, <2>2, OwedKept
<1>8. \A q \in Node \ {s} : s \in asked'[q] => s \in asked[q]  BY <1>3
<1>9. Delivery(s)'  BY <1>2, <1>3, <1>7, <1>8, OthersDelivered
<1> QED  BY <1>4, <1>5, <1>6, <1>9 DEF AgreeInv

LEMMA TickAgree ==
    ASSUME NEW s \in Node, TypeOK, AgreeInv(s),
           Tick \/ UNCHANGED vars
    PROVE  AgreeInv(s)'
<1>1. /\ UNCHANGED <<mapSporks, mapSporksActive, sporkDB, handler, update, net, known, asked, early>>
      /\ now' \in Nat /\ now \in Nat /\ now <= now'
  BY BoundAssumption DEF Tick, vars, TypeOK
<1>2. Stored(s)' /\ Owned(s)'  BY <1>1 DEF AgreeInv, Stored, Owned
<1>3. Latest(s)'
  <2>1. Time(mapSporksActive[s]) \in Nat /\ Time(update[s]) \in Nat  BY Times DEF TypeOK
  <2> QED  BY <1>1, <2>1 DEF AgreeInv, Latest
<1>4. \A q, k : Owed(s, q, k) => Owed(s, q, k)'  BY <1>1 DEF Owed
<1>5. Delivery(s)'  BY <1>1, <1>4, OthersDelivered
<1> QED  BY <1>2, <1>3, <1>5 DEF AgreeInv

(* With one signer that does not restart, and however the other nodes      *)
(* restart and messages cross, no node is behind another once nothing is   *)
(* under way, but for an update that was asked for between its             *)
(* announcement and its storing: UpdateSpork, the inventory, ProcessSpork  *)
(* and getsporks leave nobody behind.                                      *)
THEOREM AgreementCorrect ==
    ASSUME NEW s, Signer = {s}, s \notin Restarting
    PROVE  Spec => []QuietAgree
<1>0. s \in Node  BY NodeAssumption
<1>1. Init => AgreeInv(s)
  <2> SUFFICES ASSUME Init  PROVE AgreeInv(s)
    OBVIOUS
  <2>1. Stored(s) /\ Owned(s)  BY <1>0 DEF Init, Stored, Owned, Idle
  <2>2. Latest(s)  BY <1>0, Times DEF Init, Latest
  <2>4. Delivery(s)
    <3>1. mapSporks[s] = {} /\ update[s] = NoSpork /\ known[s] = {}  BY <1>0 DEF Init
    <3> QED  BY <3>1, Times DEF Delivery, Promised
  <2> QED  BY <2>1, <2>2, <2>4 DEF AgreeInv
<1>2. TypeOK /\ PeerInv /\ AgreeInv(s) /\ [Next]_vars => AgreeInv(s)'
  <2> SUFFICES ASSUME TypeOK, PeerInv, AgreeInv(s), [Next]_vars  PROVE AgreeInv(s)'
    OBVIOUS
  <2>1. \A n \in Restarting : n \in Node \ {s}  BY NodeAssumption
  <2> QED
    BY <1>0, <2>1, RelayAgree, StoreAgree, InventoryAgree, CheckAgree, ProcessAgree, WriteAgree, GetSporksAgree,
       RestartAgree, TickAgree DEF Next
<1>3. TypeOK /\ AgreeInv(s) => QuietAgree
  <2> SUFFICES ASSUME TypeOK, AgreeInv(s), Quiet, NEW n \in Node, NEW p \in Node, mapSporksActive[p] \notin early
               PROVE  Time(mapSporksActive[p]) <= Time(mapSporksActive[n])
    BY DEF QuietAgree
  <2>1. PICK m \in MaybeSpork : m = mapSporksActive[p]  BY DEF TypeOK
  <2>2. Time(m) \in Nat /\ Time(mapSporksActive[n]) \in Nat  BY Times DEF TypeOK
  <2>3. CASE m = NoSpork  BY <2>1, <2>2, <2>3, Times
  <2>4. CASE m # NoSpork
    <3>1. m \in mapSporks[s]  BY <2>1, <2>4 DEF AgreeInv, Stored
    <3>2. CASE n = s  BY <2>1, <3>1, <3>2 DEF AgreeInv, Latest
    <3>3. CASE n # s
      <4>1. Owed(s, n, m)  BY <1>0, <2>1, <3>1, <3>3 DEF Quiet, AgreeInv, Delivery, Promised, TypeOK
      <4>2. net = {} /\ handler[n].step # "store"  BY Times DEF Quiet, AtRest
      <4> QED  BY <2>1, <4>1, <4>2 DEF Owed
    <3> QED  BY <3>2, <3>3
  <2> QED  BY <2>3, <2>4
<1> QED  BY <1>1, <1>2, <1>3, TypeCorrect, PeersCorrect, PTL DEF Spec

-----------------------------------------------------------------------------
(* MasternodeSync, whose first stage asks the peers for the sporks.        *)
(* No counter and no age of a state starts beyond its bound.               *)
LEMMA FreshCounters ==
    /\ 0 \in 0..(3 * Threshold) /\ 0 \in 0..(LateRounds + 1) /\ 0 \in 0..(RetryRounds + 1)
    /\ None \in None..(QuietRounds + 1) /\ MaxItems \in 0..MaxItems
BY SyncAssumption DEF None

(* What Reset, GetNextAsset, Fail and the aging leave of a state.          *)
LEMMA ResetTyped ==
    ASSUME NEW s \in Sync
    PROVE  Reset(s) \in Sync /\ Reset(s).asset = "INITIAL"
BY FreshCounters DEF Reset, Sync, Asset, Stage

(* A round ages what is below its bound.                                   *)
LEMMA OlderTyped ==
    ASSUME NEW max \in Nat, NEW age \in None..(max + 1)
    PROVE  Older(age, max) \in None..(max + 1)
BY DEF Older, None

LEMMA AgedTyped ==
    ASSUME NEW s \in Sync
    PROVE  /\ Aged(s) \in Sync /\ Aged(s).asset = s.asset
           /\ Aged(s).chain = s.chain
<1> DEFINE last == [k \in Stage |-> IF Passed(s, k) THEN s.last[k] ELSE Older(s.last[k], QuietRounds)]
           started == IF s.asset \in Stage THEN Older(s.started, LateRounds) ELSE s.started
           failed == IF s.asset = "FAILED" THEN Older(s.failed, RetryRounds) ELSE s.failed
<1>1. /\ s.last \in [Stage -> None..(QuietRounds + 1)]
      /\ s.started \in 0..(LateRounds + 1) /\ s.failed \in 0..(RetryRounds + 1)
  BY DEF Sync
<1>2. last \in [Stage -> None..(QuietRounds + 1)]
  <2>1. \A k \in Stage : s.last[k] \in None..(QuietRounds + 1)
    BY <1>1
  <2>2. QuietRounds \in Nat
    BY SyncAssumption
  <2>3. \A k \in Stage : Older(s.last[k], QuietRounds) \in None..(QuietRounds + 1)
    BY <2>1, <2>2, OlderTyped
  <2> QED
    BY <2>1, <2>3
<1>3. started \in 0..(LateRounds + 1)
  BY <1>1, SyncAssumption DEF Older, None
<1>4. failed \in 0..(RetryRounds + 1)
  BY <1>1, SyncAssumption DEF Older, None
<1>5. Aged(s) = [s EXCEPT !.started = started, !.failed = failed, !.last = last]
  BY DEF Aged, Sync, Asset, Stage, None
<1> HIDE DEF last, started, failed
<1> QED
  BY <1>2, <1>3, <1>4, <1>5 DEF Sync, Asset, Stage, None

LEMMA GetNextAssetTyped ==
    ASSUME NEW s \in Sync, s.asset # "FINISHED"
    PROVE  /\ GetNextAsset(s) \in Sync /\ GetNextAsset(s).chain = s.chain
           /\ GetNextAsset(s).asset \in {"MNW", "BUDGET", "FINISHED"} => s.asset \in Stage
           /\ GetNextAsset(s).attempt = 0
<1> USE DEF Sync, Asset, Stage
<1>1. NextAsset[s.asset] \in Asset /\ (NextAsset[s.asset] \in {"MNW", "BUDGET", "FINISHED"} => s.asset \in Stage)
  BY DEF NextAsset
<1> QED
  BY <1>1, FreshCounters DEF GetNextAsset

LEMMA FailTyped ==
    ASSUME NEW s \in Sync
    PROVE  Fail(s) \in Sync /\ Fail(s).asset = "FAILED"
BY FreshCounters DEF Sync, Asset, Stage, Fail

LEMMA AskTyped ==
    ASSUME NEW s \in Sync
    PROVE  Ask(s) \in Sync /\ Ask(s).asset = s.asset /\ Ask(s).chain = s.chain
BY SyncAssumption DEF Sync, Asset, Stage, None, Ask, MaxAttempts

(* A state of which FinishedOnChain holds, and the type.                   *)
OnChain(s) == s \in Sync /\ (s.asset \in {"MNW", "BUDGET", "FINISHED"} => s.chain)

(* IsBlockchainSynced resets the stage with the chain.                     *)
LEMMA IsBlockchainSyncedOnChain ==
    ASSUME tipRecent \in BOOLEAN, NEW s, OnChain(s), NEW locked \in BOOLEAN
    PROVE  OnChain(IsBlockchainSynced(s, locked))
<1>1. Reset(s) \in Sync /\ Reset(s).asset = "INITIAL"
  BY ResetTyped DEF OnChain
<1>2. PICK r \in Sync : r = Reset(s)
  BY <1>1
<1> QED
  BY <1>1, <1>2, SyncAssumption DEF OnChain, IsBlockchainSynced, Sync, Asset, Stage, None

(* The loop over the peers leaves the list only when the chain is there.   *)
LEMMA LoopOnChain ==
    ASSUME NEW s, OnChain(s), NEW m, NEW may, s.asset \in Stage => s.chain, Loop(s, m, may)
    PROVE  OnChain(sync')
<1> USE DEF OnChain
<1>1. ASSUME AskForSporks(s, m) PROVE OnChain(sync')
  <2>1. PICK n \in Sync : n = GetNextAsset(s) /\ n.attempt = 0 /\ n.chain = s.chain /\ n.asset \notin {"MNW", "BUDGET", "FINISHED"}
    BY <1>1, GetNextAssetTyped DEF AskForSporks, Stage
  <2>2. [n EXCEPT !.attempt = n.attempt + 1] \in Sync /\ [n EXCEPT !.attempt = n.attempt + 1].asset = n.asset
    BY <2>1, SyncAssumption DEF Sync, Asset, Stage, None
  <2>3. CASE s.attempt >= 2
    BY <1>1, <2>1, <2>2, <2>3 DEF AskForSporks
  <2>4. CASE ~ (s.attempt >= 2)
    BY <1>1, <2>4, SyncAssumption DEF AskForSporks, Sync, Asset, Stage, None
  <2> QED
    BY <2>3, <2>4
<1>2. ASSUME NEW k \in {"LIST", "MNW"}, ListOrWinners(s, m, k, may) PROVE OnChain(sync')
  <2>1. s.asset = k /\ s.chain
    BY <1>2 DEF ListOrWinners, Stage
  <2>2. sync' \in {GetNextAsset(s), Fail(s), Ask(s)}
    BY <1>2 DEF ListOrWinners
  <2> QED
    BY <2>1, <2>2, GetNextAssetTyped, FailTyped, AskTyped
<1>3. ASSUME Budget(s, m, may) PROVE OnChain(sync')
  <2>1. s.asset = "BUDGET" /\ sync' \in {GetNextAsset(s), Ask(s)}
    BY <1>3 DEF Budget
  <2> QED
    BY <2>1, GetNextAssetTyped, AskTyped
<1>4. ASSUME NobodyToAsk(s, m, may) PROVE OnChain(sync')
  BY <1>4 DEF NobodyToAsk
<1> QED
  BY <1>1, <1>2, <1>3, <1>4 DEF Loop

(* So does a round, whichever locks it gets.                               *)
LEMMA ProcessOnChain ==
    ASSUME tipRecent \in BOOLEAN, OnChain(sync),
           NEW clears, NEW mains \in SUBSET BOOLEAN, NEW nodes, Process(clears, mains, nodes)
    PROVE  OnChain(sync')
<1> DEFINE Asked(s) == IF s.asset = "INITIAL" THEN GetNextAsset(s) ELSE s
           Ends(c, m, locked) == IF ~ locked \/ (~ c.chain /\ c.asset \in Stage)
                                 THEN sync' = c ELSE \E may \in BOOLEAN : Loop(c, m, may)
<1>1. PICK s : /\ \E none, may \in BOOLEAN : s = Retried(Aged(sync), none, may)
               /\ s.asset \in {"FINISHED", "FAILED"} => sync' = s
               /\ s.asset \notin {"FINISHED", "FAILED"} =>
                     \E main \in mains, locked \in nodes : \E m :
                        Ends(IsBlockchainSynced(Asked(s), main), m, locked)
  BY DEF Process
<1>3. OnChain(s)
  <2>1. OnChain(Aged(sync))
    BY AgedTyped DEF OnChain
  <2> QED
    BY <1>1, <2>1, ResetTyped DEF Retried, OnChain
<1>4. CASE s.asset \in {"FINISHED", "FAILED"}
  BY <1>1, <1>3, <1>4
<1>5. CASE s.asset \notin {"FINISHED", "FAILED"}
  <2>1. PICK main \in mains, locked \in nodes : \E m : Ends(IsBlockchainSynced(Asked(s), main), m, locked)
    <3> HIDE DEF Ends, Asked
    <3> QED
      BY <1>1, <1>5
  <2>2. OnChain(Asked(s))
    BY <1>3, <1>5, GetNextAssetTyped DEF OnChain, Stage
  <2>3. PICK c : c = IsBlockchainSynced(Asked(s), main)
    OBVIOUS
  <2>4. OnChain(c)
    <3> HIDE DEF Asked
    <3> QED
      BY <2>2, <2>3, IsBlockchainSyncedOnChain
  <2>5. PICK m : Ends(c, m, locked)
    <3> HIDE DEF Ends, Asked
    <3> QED
      BY <2>1, <2>3
  <2> QED
    BY <2>4, <2>5, LoopOnChain
<1> QED
  BY <1>4, <1>5

(* A nonempty set of naturals has a least element.                         *)
LEMMA LeastNatural ==
    ASSUME NEW T \in SUBSET Nat, T # {}
    PROVE  \E x \in T : \A y \in T : x <= y
<1> DEFINE R == OpToRel(<, Nat)
<1>1. IsWellFoundedOn(R, Nat)  BY NatLessThanWellFounded
<1>2. \A x, y \in Nat : y < x => <<y, x>> \in R  BY DEF OpToRel
<1> HIDE DEF R
<1>3. PICK x \in T : \A y \in T : ~ (<<y, x>> \in R)  BY <1>1, WFMin
<1>4. ASSUME NEW y \in T  PROVE x <= y
  <2>1. ~ (y < x)  BY <1>2, <1>3
  <2>2. x \in Nat /\ y \in Nat  OBVIOUS
  <2> QED  BY <2>1, <2>2
<1> QED  BY <1>4

(* A node starts with every peer once.                                     *)
LEMMA SetToSeqFacts ==
    SetToSeq(Peer) \in Seq(Peer) /\ IsInjective(SetToSeq(Peer))
<1>1. IsFiniteSet(Peer)
  BY SyncAssumption
<1>2. Cardinality(Peer) \in Nat /\ ExistsBijection(1..Cardinality(Peer), Peer)
  BY <1>1, FS_CardinalityType
<1>3. PICK f \in [1..Cardinality(Peer) -> Peer] : IsInjective(f)
  BY <1>2 DEF ExistsBijection, Bijection, Injection, IsInjective
<1>4. SetToSeq(Peer) \in [1..Cardinality(Peer) -> Peer] /\ IsInjective(SetToSeq(Peer))
  BY <1>3 DEF SetToSeq
<1> QED
  BY <1>2, <1>4

(* The first peer that is not marked exists when there is such a peer.     *)
LEMMA MarkTyped ==
    ASSUME SyncTypeOK, NEW m \in [Request -> SUBSET Peer], NEW r \in Request, Unasked(m, r) # {}
    PROVE  Mark(m, r) \in [Request -> SUBSET Peer]
<1> DEFINE First(i) == vNodes[i] \notin m[r] /\ \A j \in 1..(i - 1) : vNodes[j] \in m[r]
           i0 == CHOOSE i \in DOMAIN vNodes : First(i)
<1>1. vNodes \in Seq(Peer) /\ DOMAIN vNodes = 1..Len(vNodes) /\ Len(vNodes) \in Nat
  BY DEF SyncTypeOK
<1>2. \E i \in DOMAIN vNodes : First(i)
  <2> DEFINE U == {i \in DOMAIN vNodes : vNodes[i] \notin m[r]}
  <2>1. U # {} /\ U \subseteq Nat
    BY <1>1 DEF Unasked, Connected, ToSet
  <2>2. PICK i \in U : \A j \in U : i <= j
    <3> HIDE DEF U
    <3> QED
      BY <2>1, LeastNatural
  <2> QED
    BY <1>1, <2>2
<1>3. i0 \in DOMAIN vNodes
  <2> HIDE DEF First
  <2> QED
    BY <1>2
<1>4. Mark(m, r) = [m EXCEPT ![r] = m[r] \cup {vNodes[i0]}]
  BY DEF Mark
<1> HIDE DEF i0
<1> QED
  BY <1>1, <1>3, <1>4

(* No peer is twice in vNodes after one came, or went.                     *)
LEMMA AppendOnce ==
    ASSUME NEW seq \in Seq(Peer), IsInjective(seq), NEW p \in Peer, p \notin ToSet(seq)
    PROVE  Append(seq, p) \in Seq(Peer) /\ IsInjective(Append(seq, p))
<1> DEFINE t == Append(seq, p)
<1>1. /\ t \in Seq(Peer) /\ Len(t) = Len(seq) + 1 /\ Len(seq) \in Nat
      /\ DOMAIN t = 1..(Len(seq) + 1) /\ DOMAIN seq = 1..Len(seq)
      /\ (\A i \in 1..Len(seq) : t[i] = seq[i]) /\ t[Len(seq) + 1] = p
  BY AppendProperties
<1>2. \A i \in 1..Len(seq) : seq[i] # p
  BY <1>1 DEF ToSet
<1> HIDE DEF t
<1>3. ASSUME NEW a \in DOMAIN t, NEW b \in DOMAIN t, t[a] = t[b] PROVE a = b
  BY <1>1, <1>2, <1>3 DEF IsInjective
<1> QED
  BY <1>1, <1>3 DEF IsInjective, t

LEMMA RemoveAtOnce ==
    ASSUME NEW seq \in Seq(Peer), IsInjective(seq), NEW k \in DOMAIN seq
    PROVE  RemoveAt(seq, k) \in Seq(Peer) /\ IsInjective(RemoveAt(seq, k))
<1> DEFINE x == SubSeq(seq, 1, k - 1)
           y == SubSeq(seq, k + 1, Len(seq))
           t == x \o y
<1>1. Len(seq) \in Nat /\ DOMAIN seq = 1..Len(seq) /\ k \in 1..Len(seq)
  OBVIOUS
<1>2. x \in Seq(Peer) /\ Len(x) = k - 1 /\ \A i \in 1..(k - 1) : x[i] = seq[i]
  BY <1>1, SubSeqProperties
<1>3. y \in Seq(Peer) /\ Len(y) = Len(seq) - k /\ \A i \in 1..(Len(seq) - k) : y[i] = seq[k + i]
  BY <1>1, SubSeqProperties
<1>4. RemoveAt(seq, k) = t
  BY DEF RemoveAt
<1> HIDE DEF x, y
<1>5. /\ t \in Seq(Peer) /\ Len(t) = Len(x) + Len(y)
      /\ \A i \in 1..(Len(x) + Len(y)) : t[i] = IF i <= Len(x) THEN x[i] ELSE y[i - Len(x)]
  BY <1>2, <1>3, ConcatProperties
<1> HIDE DEF t
<1>6. /\ DOMAIN t = 1..(Len(seq) - 1)
      /\ \A i \in 1..(Len(seq) - 1) : t[i] = IF i < k THEN seq[i] ELSE seq[i + 1]
  <2>1. Len(x) + Len(y) = Len(seq) - 1
    BY <1>1, <1>2, <1>3
  <2>2. ASSUME NEW i \in 1..(Len(seq) - 1), i < k PROVE t[i] = seq[i]
    BY <1>1, <1>2, <1>5, <2>1, <2>2
  <2>3. ASSUME NEW i \in 1..(Len(seq) - 1), ~ (i < k) PROVE t[i] = seq[i + 1]
    <3>1. t[i] = y[i - (k - 1)]
      BY <1>1, <1>2, <1>5, <2>1, <2>3
    <3>2. i - (k - 1) \in 1..(Len(seq) - k) /\ k + (i - (k - 1)) = i + 1
      BY <1>1, <2>3
    <3> QED
      BY <1>3, <3>1, <3>2
  <2> QED
    BY <1>5, <2>1, <2>2, <2>3
<1>7. ASSUME NEW a \in DOMAIN t, NEW b \in DOMAIN t, t[a] = t[b] PROVE a = b
  BY <1>1, <1>6, <1>7 DEF IsInjective
<1> QED
  BY <1>4, <1>5, <1>7 DEF IsInjective

(* What a round marks.                                                     *)
LEMMA LoopTyped ==
    ASSUME SyncTypeOK, NEW s, NEW m \in [Request -> SUBSET Peer], NEW may, Loop(s, m, may)
    PROVE  fulfilled' \in [Request -> SUBSET Peer]
<1>1. \/ fulfilled' = m
      \/ \E r \in Request : Unasked(m, r) # {} /\ fulfilled' = Mark(m, r)
  BY DEF Loop, AskForSporks, ListOrWinners, Budget, NobodyToAsk, Request, Stage
<1> QED
  BY <1>1, MarkTyped

LEMMA ClearTyped ==
    ASSUME SyncTypeOK, NEW s, NEW clear
    PROVE  ClearFulfilledRequest(s, clear) \in [Request -> SUBSET Peer]
BY DEF ClearFulfilledRequest, SyncTypeOK

(* The inductive invariant: Loop leaves a state alone or asks, and only    *)
(* typed states have a next stage.                                         *)
SyncInv == SyncTypeOK /\ FinishedOnChain

LEMMA SyncInitStep ==
    ASSUME SyncInit
    PROVE  SyncInv
<1>1. sync \in Sync /\ sync.asset = "INITIAL"
  <2> DEFINE r == [asset |-> "INITIAL", attempt |-> 0, started |-> 0, failed |-> 0,
                   last |-> [k \in Stage |-> None], left |-> [k \in Stage |-> 0],
                   chain |-> FALSE, stale |-> TRUE]
  <2>1. r \in Sync
    BY FreshCounters, SyncAssumption DEF Sync, Asset, Stage
  <2>2. sync = Reset(r)
    BY DEF SyncInit
  <2> HIDE DEF r
  <2> QED
    BY <2>1, <2>2, ResetTyped
<1>2. vNodes \in Seq(Peer) /\ IsInjective(vNodes)
  BY SetToSeqFacts DEF SyncInit
<1> QED
  BY <1>1, <1>2 DEF SyncInit, SyncInv, SyncTypeOK, FinishedOnChain

LEMMA SyncNextStep ==
    ASSUME SyncInv, [SyncNext]_syncVars
    PROVE  SyncInv'
<1> USE DEF SyncInv, SyncTypeOK, FinishedOnChain
<1>1. ASSUME OnChain(sync'), fulfilled' \in [Request -> SUBSET Peer], tipRecent' \in BOOLEAN, UNCHANGED vNodes
      PROVE  SyncInv'
  BY <1>1 DEF OnChain
<1>2. OnChain(sync) /\ tipRecent \in BOOLEAN
  BY DEF OnChain
<1>3. CASE Round
  <2>1. PICK clears, mains, nodes : mains \in SUBSET BOOLEAN /\ Process(clears, mains, nodes)
    BY <1>3 DEF Round
  <2>2. OnChain(sync')
    BY <1>2, <2>1, ProcessOnChain
  <2>3. fulfilled' \in [Request -> SUBSET Peer]
    <3>1. \/ UNCHANGED fulfilled
          \/ \E s, n, main, clear : \E m \in {ClearFulfilledRequest(s, clear)} :
                \/ fulfilled' = m
                \/ \E may : Loop(IsBlockchainSynced(n, main), m, may)
      BY <2>1 DEF Process
    <3> QED
      BY <3>1, LoopTyped, ClearTyped
  <2> QED
    BY <1>1, <2>1, <2>2, <2>3 DEF Process
<1>4. ASSUME NEW k \in Stage, Added(k) PROVE SyncInv'
  <2> DEFINE last == [sync.last EXCEPT ![k] = 0]
             left == [sync.left EXCEPT ![k] = @ - 1]
  <2>1. last \in [Stage -> None..(QuietRounds + 1)] /\ left \in [Stage -> 0..MaxItems]
    <3>1. sync.last \in [Stage -> None..(QuietRounds + 1)] /\ sync.left \in [Stage -> 0..MaxItems]
      BY DEF Sync
    <3>2. 0 \in None..(QuietRounds + 1) /\ sync.left[k] - 1 \in 0..MaxItems
      BY <1>4, <3>1, SyncAssumption DEF Added, None
    <3> QED
      BY <3>1, <3>2
  <2>2. sync' = [sync EXCEPT !.last = last, !.left = left]
    BY <1>4 DEF Added, Sync
  <2> HIDE DEF last, left
  <2>3. sync' \in Sync /\ sync'.asset = sync.asset /\ sync'.chain = sync.chain
    BY <2>1, <2>2 DEF Sync, Asset, Stage, None
  <2> QED
    BY <1>1, <1>4, <2>3 DEF Added, OnChain
<1>5. CASE Called
  BY <1>1, <1>2, <1>5, IsBlockchainSyncedOnChain DEF Called
<1>6. CASE MnsyncReset
  BY <1>1, <1>6, ResetTyped DEF MnsyncReset, OnChain
<1>7. CASE Sleep
  <2>1. sync' \in Sync /\ sync'.asset = sync.asset /\ sync'.chain = sync.chain
    BY <1>7, SyncAssumption DEF Sleep, Sync, Asset, Stage, None
  <2> QED
    BY <1>1, <1>7, <2>1 DEF Sleep, OnChain
<1>8. CASE BlockArrives
  BY <1>8 DEF BlockArrives
<1>9. ASSUME NEW p \in Churn, Connect(p) PROVE SyncInv'
  BY <1>9, AppendOnce, SyncAssumption DEF Connect, Connected
<1>10. ASSUME NEW p \in Churn, Disconnect(p) PROVE SyncInv'
  BY <1>10, RemoveAtOnce DEF Disconnect
<1>11. CASE UNCHANGED syncVars
  BY <1>11 DEF syncVars
<1> QED
  BY <1>3, <1>4, <1>5, <1>6, <1>7, <1>8, <1>9, <1>10, <1>11 DEF SyncNext

(* The counters of CMasternodeSync, the marks and the connections stay     *)
(* well formed: a stage makes no more attempts than its limit, Process     *)
(* looks at a peer at most once a round, and marks peers only.             *)
THEOREM SyncTypeCorrect == SyncSpec => []SyncTypeOK
<1>1. SyncInit => SyncInv
  BY SyncInitStep
<1>2. SyncInv /\ [SyncNext]_syncVars => SyncInv'
  BY SyncNextStep
<1>3. SyncInv => SyncTypeOK
  BY DEF SyncInv
<1> QED
  BY <1>1, <1>2, <1>3, PTL DEF SyncSpec

(* Whatever peers, messages, RPC calls, sleeps and failed locks do between *)
(* two rounds of Process, the node goes on beyond the list of masternodes  *)
(* only when IsBlockchainSynced said so since the last Reset.              *)
THEOREM FinishedCorrect == SyncSpec => []FinishedOnChain
<1>1. SyncInit => SyncInv
  BY SyncInitStep
<1>2. SyncInv /\ [SyncNext]_syncVars => SyncInv'
  BY SyncNextStep
<1>3. SyncInv => FinishedOnChain
  BY DEF SyncInv
<1> QED
  BY <1>1, <1>2, <1>3, PTL DEF SyncSpec
=============================================================================

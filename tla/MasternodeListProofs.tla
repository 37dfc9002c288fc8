------------------------ MODULE MasternodeListProofs ------------------------
(***************************************************************************)
(* What a node lists it can hand on, for any nodes, announcements, times   *)
(* and faults.  With the types the property is inductive; that a broadcast *)
(* is not forgotten under a listed masternode rests on the removal time:   *)
(* an entry that is kept has a ping younger than Removal, so the broadcast *)
(* has one younger than twice that.                                        *)
(***************************************************************************)
EXTENDS MasternodeList, TLAPS

Entries == [ver : 0..MaxVer, ping : Age, state : State]
SeenMap == [Ver -> Age \cup {None}]
Served(e, s) == IsListed(e) => s[e.ver] # None /\ s[e.ver] < e.ping + Fresh
Inv == TypeOK /\ ListedIsServed

-----------------------------------------------------------------------------
(* The constants as the provers need them.                                 *)
LEMMA Numbers ==
    /\ MaxVer \in Nat /\ MinPing \in Nat /\ Fresh \in Nat /\ Expire \in Nat /\ Removal \in Nat /\ Cap \in Nat
    /\ MaxVer > 0 /\ Fresh > 0 /\ Fresh <= Removal /\ Cap = 2 * Removal + 1 /\ MinPing > 0
    /\ 0 \in Age /\ Age \subseteq Nat /\ None \notin Nat /\ Hot \in Node /\ Cold \in Node /\ Hot # Cold
  BY ListAssumption DEF Cap, Age

(* Fields of an entry.                                                     *)
LEMMA EntryFacts ==
    ASSUME NEW v \in 0..MaxVer, NEW p \in Age, NEW s \in State
    PROVE  /\ Entry(v, p, s) \in Entries
           /\ Entry(v, p, s).ver = v /\ Entry(v, p, s).ping = p /\ Entry(v, p, s).state = s
  BY DEF Entry, Entries

(* Check changes the state only; what it leaves listed has been pinged.    *)
LEMMA CheckFacts ==
    ASSUME NEW e \in Entries, NEW busy \in BOOLEAN
    PROVE  /\ Check(e, busy) \in Entries
           /\ Check(e, busy).ver = e.ver /\ Check(e, busy).ping = e.ping
           /\ (IsListed(e) /\ Check(e, busy).state \notin {"REMOVE", "VIN_SPENT"}) => e.ping < Removal
<1>1. e.ver \in 0..MaxVer /\ e.ping \in Age /\ e.state \in State /\ e.ping \in Nat
  BY Numbers DEF Entries
<1> DEFINE st == StateOf(e, sig[e.ver], busy)
<1>2. st \in State  BY <1>1 DEF StateOf, State
<1>3. st \notin {"REMOVE", "VIN_SPENT"} => e.ping < Removal  BY <1>1, Numbers DEF StateOf
<1>4. CASE IsListed(e)
  <2>1. Check(e, busy) = Entry(e.ver, e.ping, st)  BY <1>4 DEF Check
  <2> HIDE DEF st
  <2> QED  BY <2>1, <1>1, <1>2, <1>3, EntryFacts
<1>5. CASE ~ IsListed(e)  BY <1>5 DEF Check
<1> QED  BY <1>4, <1>5

(* A renewed entry has the new version and the newer ping.                 *)
LEMMA RenewedFacts ==
    ASSUME NEW e \in Entries, NEW v \in Ver, NEW p \in Age, NEW age
    PROVE  Renewed(e, v, p, age) \in Entries /\ Renewed(e, v, p, age).ver = v
<1>1. e.ping \in Age /\ e.state \in State /\ v \in 0..MaxVer  BY Numbers DEF Entries, Ver
<1> DEFINE st == StateOf(Entry(v, p, e.state), age, FALSE)
<1>2. st \in State
  <2>1. Entry(v, p, e.state).state \in State  BY <1>1, EntryFacts
  <2> QED  BY <2>1 DEF StateOf, State
<1>3. CASE TakesPing(e, p)
  <2>1. Renewed(e, v, p, age) = Entry(v, p, st)  BY <1>3 DEF Renewed
  <2> HIDE DEF st
  <2> QED  BY <2>1, <1>1, <1>2, EntryFacts
<1>4. CASE ~ TakesPing(e, p)  BY <1>1, <1>4, EntryFacts DEF Renewed
<1> QED  BY <1>3, <1>4

(* One node's entry and broadcasts change, and at most one announcement is *)
(* made: the others stay served.                                           *)
LEMMA OneNodeAnnounces ==
    ASSUME Inv, NEW n \in Node, NEW e \in Entries, NEW s \in SeenMap,
           listed' = [listed EXCEPT ![n] = e], seen' = [seen EXCEPT ![n] = s], Served(e, s),
           sig' \in [Ver -> (0..(Expire + MinPing)) \cup {None}], \A v \in Ver : sig[v] # None => sig'[v] # None,
           asked' \in [Node -> (0..MinPing) \cup {None}], ping' \in [Node -> (0..Fresh) \cup {None}],
           inv' \subseteq [to : Node, from : Node, ver : Ver],
           status' \in {"INITIAL", "NOT_CAPABLE", "STARTED"}, armed' \in BOOLEAN, spent' \in BOOLEAN,
           \A v \in Ver : (v = e.ver \/ s[v] # None) => sig'[v] # None
    PROVE  Inv'
<1>1. listed \in [Node -> Entries] /\ seen \in [Node -> SeenMap]  BY DEF Inv, TypeOK, Entries, SeenMap
<1>2. listed' \in [Node -> Entries] /\ seen' \in [Node -> SeenMap]  BY <1>1
<1>3. \A m \in Node : listed'[m] = IF m = n THEN e ELSE listed[m]  BY <1>1
<1>4. \A m \in Node : seen'[m] = IF m = n THEN s ELSE seen[m]  BY <1>1
<1>5. ASSUME NEW m \in Node, NEW v \in Ver, v = listed'[m].ver \/ seen'[m][v] # None  PROVE sig'[v] # None
  <2>1. CASE m = n  BY <2>1, <1>3, <1>4, <1>5
  <2>2. CASE m # n  BY <2>2, <1>3, <1>4, <1>5 DEF Inv, TypeOK
  <2> QED  BY <2>1, <2>2
<1>6. TypeOK'  BY <1>2, <1>5 DEF Inv, TypeOK, Entries, SeenMap
<1>7. ASSUME NEW m \in Node  PROVE Served(listed'[m], seen'[m])
  <2>1. CASE m = n  BY <2>1, <1>3, <1>4
  <2>2. CASE m # n
    <3>1. listed'[m] = listed[m] /\ seen'[m] = seen[m]  BY <2>2, <1>3, <1>4
    <3> QED  BY <3>1 DEF Inv, ListedIsServed, Served
  <2> QED  BY <2>1, <2>2
<1>8. ListedIsServed'  BY <1>7 DEF ListedIsServed, Served
<1> QED  BY <1>6, <1>8 DEF Inv

(* The same without an announcement.                                       *)
LEMMA OneNode ==
    ASSUME Inv, NEW n \in Node, NEW e \in Entries, NEW s \in SeenMap,
           listed' = [listed EXCEPT ![n] = e], seen' = [seen EXCEPT ![n] = s], Served(e, s),
           sig' = sig, asked' \in [Node -> (0..MinPing) \cup {None}], ping' \in [Node -> (0..Fresh) \cup {None}],
           inv' \subseteq [to : Node, from : Node, ver : Ver],
           status' \in {"INITIAL", "NOT_CAPABLE", "STARTED"}, armed' \in BOOLEAN, spent' \in BOOLEAN,
           \A v \in Ver : (v = e.ver \/ s[v] # None) => sig[v] # None
    PROVE  Inv'
<1>1. sig' \in [Ver -> (0..(Expire + MinPing)) \cup {None}] /\ \A v \in Ver : sig[v] # None => sig'[v] # None
  BY DEF Inv, TypeOK
<1>2. \A v \in Ver : (v = e.ver \/ s[v] # None) => sig'[v] # None  OBVIOUS
<1> QED  BY <1>1, <1>2, OneNodeAnnounces

(* What a node knows of the masternode before a step.                      *)
LEMMA NodeFacts ==
    ASSUME Inv, NEW n \in Node
    PROVE  /\ listed[n] \in Entries /\ seen[n] \in SeenMap /\ Served(listed[n], seen[n])
           /\ listed = [listed EXCEPT ![n] = listed[n]] /\ seen = [seen EXCEPT ![n] = seen[n]]
           /\ \A v \in Ver : (v = listed[n].ver \/ seen[n][v] # None) => sig[v] # None
  BY DEF Inv, TypeOK, ListedIsServed, Served, Entries, SeenMap

(* Broadcasts: an entry may only change to the version just recorded.      *)
LEMMA BroadcastStep ==
    ASSUME Inv, NEW i \in inv, Fetches(i), NEW e \in Entries, listed' = [listed EXCEPT ![i.to] = e],
           e = listed[i.to] \/ e.ver = 0 \/ (e.ver = i.ver /\ LastPing(i) < Fresh), seen' = Seen(i),
           NEW r \in SUBSET [to : Node, from : Node, ver : Ver], inv' = (inv \ {i}) \cup r,
           status' \in {"INITIAL", "NOT_CAPABLE", "STARTED"}, armed' \in BOOLEAN,
           UNCHANGED <<world, asked, ping>>
    PROVE  Inv'
<1> DEFINE n == i.to
           p == LastPing(i)
           s == [seen[n] EXCEPT ![i.ver] = p]
<1>1. i \in [to : Node, from : Node, ver : Ver] /\ n \in Node /\ i.from \in Node /\ i.ver \in Ver
  BY DEF Inv, TypeOK
<1>2. /\ seen[n] \in SeenMap /\ listed[n] \in Entries /\ Served(listed[n], seen[n])
      /\ \A v \in Ver : (v = listed[n].ver \/ seen[n][v] # None) => sig[v] # None
  BY <1>1, NodeFacts
<1>3. seen[i.from] \in SeenMap /\ p \in Age /\ p # None /\ sig[i.ver] # None
  <2>1. seen[i.from] \in SeenMap /\ (seen[i.from][i.ver] # None => sig[i.ver] # None)  BY <1>1, NodeFacts
  <2> QED  BY <2>1, <1>1 DEF LastPing, Fetches, SeenMap
<1>4. seen' = [seen EXCEPT ![n] = s]  BY <1>1 DEF Seen, Inv, TypeOK
<1> HIDE DEF n, p
<1>5. s \in SeenMap /\ \A v \in Ver : s[v] = IF v = i.ver THEN p ELSE seen[n][v]
  BY <1>1, <1>2, <1>3 DEF SeenMap
<1>6. e.ver \in 0..MaxVer /\ e.ping \in Nat /\ p \in Nat /\ listed[n].ver \in 0..MaxVer
  BY <1>2, <1>3, Numbers DEF Entries
<1>7. Served(e, s)
  <2>1. CASE e = listed[n] /\ e.ver # 0
    <3>1. e.ver \in Ver  BY <2>1, <1>6, Numbers DEF Ver
    <3>2. seen[n][e.ver] # None /\ seen[n][e.ver] < e.ping + Fresh  BY <2>1, <1>2 DEF Served, IsListed
    <3>3. e.ver # i.ver  BY <3>2, <1>1 DEF Fetches, n
    <3>4. s[e.ver] = seen[n][e.ver]  BY <3>1, <3>3, <1>5
    <3> QED  BY <3>2, <3>4 DEF Served
  <2>2. CASE e.ver = 0  BY <2>2 DEF Served, IsListed
  <2>3. CASE e.ver = i.ver /\ LastPing(i) < Fresh
    <3>1. s[e.ver] = p  BY <2>3, <1>1, <1>5
    <3>2. p < e.ping + Fresh  BY <2>3, <1>6, Numbers DEF p
    <3> QED  BY <3>1, <3>2, <1>3 DEF Served
  <2> QED  BY <2>1, <2>2, <2>3 DEF n
<1>8. \A v \in Ver : (v = e.ver \/ s[v] # None) => sig[v] # None
  <2> SUFFICES ASSUME NEW v \in Ver, v = e.ver \/ s[v] # None  PROVE sig[v] # None
    OBVIOUS
  <2>1. CASE v = i.ver  BY <2>1, <1>3
  <2>2. CASE v # i.ver
    <3>1. s[v] = seen[n][v]  BY <2>2, <1>5
    <3>2. v = e.ver => e = listed[n]  BY <2>2, Numbers DEF n, Ver
    <3> QED  BY <3>1, <3>2, <1>2
  <2> QED  BY <2>1, <2>2
<1>9. /\ asked' \in [Node -> (0..MinPing) \cup {None}] /\ ping' \in [Node -> (0..Fresh) \cup {None}]
      /\ inv' \subseteq [to : Node, from : Node, ver : Ver] /\ sig' = sig /\ spent' \in BOOLEAN
  BY DEF Inv, TypeOK, world
<1>10. listed' = [listed EXCEPT ![n] = e]  BY DEF n
<1>11. /\ n \in Node /\ e \in Entries /\ s \in SeenMap
       /\ status' \in {"INITIAL", "NOT_CAPABLE", "STARTED"} /\ armed' \in BOOLEAN /\ Inv
  BY <1>1, <1>5
<1> HIDE DEF s
<1> QED  BY ONLY <1>4, <1>7, <1>8, <1>9, <1>10, <1>11, OneNode

(* Relayed announcements are well formed.                                  *)
LEMMA RelayType ==
    ASSUME NEW n \in Node, NEW v \in Ver
    PROVE  Relay(n, v) \in SUBSET [to : Node, from : Node, ver : Ver]
  BY DEF Relay, InvTo

(* "mnb", in all its outcomes.                                             *)
LEMMA AnnouncedStep ==
    ASSUME Inv, NEW n \in Node, Announced(n)
    PROVE  Inv'
<1>1. PICK i \in {i \in inv : i.to = n} :
        \/ InvIgnored(i) \/ BroadcastRefused(i)
        \/ \E busy \in BOOLEAN : BroadcastUpdates(i, busy) \/ BroadcastAdds(i, busy) \/ BroadcastFails(i, busy)
  BY DEF Announced
<1>2. i \in inv /\ i.to \in Node /\ i.from \in Node /\ i.ver \in Ver /\ i.ver \in 0..MaxVer /\ i.ver # 0
  BY Numbers DEF Inv, TypeOK, Ver
<1>3. /\ listed[i.to] \in Entries /\ seen[i.to] \in SeenMap /\ Served(listed[i.to], seen[i.to])
      /\ listed = [listed EXCEPT ![i.to] = listed[i.to]] /\ seen = [seen EXCEPT ![i.to] = seen[i.to]]
      /\ \A v \in Ver : (v = listed[i.to].ver \/ seen[i.to][v] # None) => sig[v] # None
  BY <1>2, NodeFacts
<1>4. /\ asked \in [Node -> (0..MinPing) \cup {None}] /\ ping \in [Node -> (0..Fresh) \cup {None}]
      /\ inv \subseteq [to : Node, from : Node, ver : Ver] /\ spent \in BOOLEAN
      /\ status \in {"INITIAL", "NOT_CAPABLE", "STARTED"} /\ armed \in BOOLEAN
  BY DEF Inv, TypeOK
<1>5. NotListed \in Entries /\ NotListed.ver = 0
  <2>1. "REMOVE" \in State /\ 0 \in 0..MaxVer /\ 0 \in Age  BY Numbers DEF State
  <2> QED  BY <2>1, EntryFacts DEF NotListed
<1>6. Relay(i.to, i.ver) \in SUBSET [to : Node, from : Node, ver : Ver] /\ {} \in SUBSET [to : Node, from : Node, ver : Ver]
  BY <1>2, RelayType
<1>7. CASE InvIgnored(i)
  <2>1. listed' = listed /\ seen' = seen /\ UNCHANGED <<sig, spent, status, armed, asked, ping>> /\ inv' \subseteq inv
    BY <1>7 DEF InvIgnored, world, hot
  <2> QED  BY <2>1 DEF Inv, TypeOK, ListedIsServed
<1>8. CASE BroadcastRefused(i)
  <2>1. /\ Fetches(i) /\ seen' = Seen(i) /\ inv' = (inv \ {i}) \cup {} /\ UNCHANGED <<world, asked, ping>>
        /\ listed' = [listed EXCEPT ![i.to] = listed[i.to]] /\ status' = status /\ armed' = armed
    BY <1>8, <1>3 DEF BroadcastRefused, hot
  <2> QED  BY <2>1, <1>2, <1>3, <1>4, <1>6, BroadcastStep
<1>9. ASSUME NEW busy \in BOOLEAN, BroadcastUpdates(i, busy)  PROVE Inv'
  <2> DEFINE e == Updated(i, busy)
             r == IF Updates(listed[i.to]) /\ IsEnabled(Updated(i, busy)) THEN Relay(i.to, i.ver) ELSE {}
  <2>1. /\ Fetches(i) /\ seen' = Seen(i) /\ inv' = (inv \ {i}) \cup r /\ UNCHANGED <<world, asked, ping>>
        /\ listed' = [listed EXCEPT ![i.to] = e] /\ status' = status /\ armed' = armed /\ LastPing(i) < Fresh
    BY <1>9 DEF BroadcastUpdates, hot, Acceptable
  <2>2. r \in SUBSET [to : Node, from : Node, ver : Ver]  BY <1>6
  <2>3. e \in Entries /\ (e = listed[i.to] \/ e.ver = i.ver)
    <3>1. LastPing(i) \in Age
      <4>1. seen[i.from] \in SeenMap  BY <1>2, NodeFacts
      <4> QED  BY <4>1, <2>1, <1>2 DEF Fetches, LastPing, SeenMap
    <3> DEFINE g == Renewed(listed[i.to], i.ver, LastPing(i), sig[i.ver])
    <3>2. g \in Entries /\ g.ver = i.ver  BY <3>1, <1>2, <1>3, RenewedFacts
    <3> HIDE DEF g
    <3>3. Check(g, busy) \in Entries /\ Check(g, busy).ver = i.ver  BY <3>2, CheckFacts
    <3> QED  BY <3>3, <1>3 DEF Updated, g
  <2> HIDE DEF e, r
  <2> QED  BY <2>1, <2>2, <2>3, <1>2, <1>4, BroadcastStep
<1>10. ASSUME NEW busy \in BOOLEAN, BroadcastAdds(i, busy)  PROVE Inv'
  <2> DEFINE e == Entry(i.ver, LastPing(i), "ENABLED")
             r == Relay(i.to, i.ver)
  <2>1. /\ Fetches(i) /\ seen' = Seen(i) /\ inv' = (inv \ {i}) \cup r /\ UNCHANGED <<world, asked, ping>>
        /\ listed' = [listed EXCEPT ![i.to] = e] /\ LastPing(i) < Fresh
    BY <1>10 DEF BroadcastAdds, Acceptable
  <2>2. status' \in {"INITIAL", "NOT_CAPABLE", "STARTED"} /\ armed' \in BOOLEAN
    BY <1>10, <1>4 DEF BroadcastAdds, hot
  <2>3. e \in Entries /\ e.ver = i.ver
    <3>1. LastPing(i) \in Age
      <4>1. seen[i.from] \in SeenMap  BY <1>2, NodeFacts
      <4> QED  BY <4>1, <2>1, <1>2 DEF Fetches, LastPing, SeenMap
    <3>2. "ENABLED" \in State  BY DEF State
    <3> QED  BY <3>1, <3>2, <1>2, EntryFacts
  <2> HIDE DEF e, r
  <2>4. r \in SUBSET [to : Node, from : Node, ver : Ver]  BY <1>6 DEF r
  <2> QED  BY <2>1, <2>2, <2>3, <2>4, <1>2, BroadcastStep
<1>11. ASSUME NEW busy \in BOOLEAN, BroadcastFails(i, busy)  PROVE Inv'
  <2>1. /\ Fetches(i) /\ inv' = (inv \ {i}) \cup {} /\ UNCHANGED <<world, asked, ping>>
        /\ listed' = [listed EXCEPT ![i.to] = NotListed] /\ status' = status /\ armed' = armed
        /\ seen' = Seen(i) \/ seen' = seen
    BY <1>11 DEF BroadcastFails, hot
  <2>2. CASE seen' = Seen(i)  BY <2>1, <2>2, <1>2, <1>4, <1>5, <1>6, BroadcastStep
  <2>3. CASE seen' = seen
    <3>1. Served(NotListed, seen[i.to])  BY <1>5 DEF Served, IsListed
    <3>2. seen' = [seen EXCEPT ![i.to] = seen[i.to]]  BY <2>3, <1>3
    <3>3. \A v \in Ver : (v = NotListed.ver \/ seen[i.to][v] # None) => sig[v] # None  BY <1>3, <1>5, Numbers DEF Ver
    <3>4. /\ sig' = sig /\ spent' \in BOOLEAN /\ asked' \in [Node -> (0..MinPing) \cup {None}]
          /\ ping' \in [Node -> (0..Fresh) \cup {None}] /\ inv' \subseteq [to : Node, from : Node, ver : Ver]
          /\ status' \in {"INITIAL", "NOT_CAPABLE", "STARTED"} /\ armed' \in BOOLEAN
      BY <2>1, <1>4 DEF world
    <3>5. Inv /\ listed' = [listed EXCEPT ![i.to] = NotListed] /\ seen[i.to] \in SeenMap /\ i.to \in Node /\ NotListed \in Entries
      BY <2>1, <1>2, <1>3, <1>5
    <3> QED  BY ONLY <3>1, <3>2, <3>3, <3>4, <3>5, OneNode
  <2> QED  BY <2>1, <2>2, <2>3
<1> QED  BY <1>1, <1>7, <1>8, <1>9, <1>10, <1>11

(* A listed masternode gets a newer ping, and with it its broadcast.       *)
LEMMA RecordedStep ==
    ASSUME Inv, NEW n \in Node, IsListed(listed[n]), NEW p \in Age, NEW e \in Entries, e.ver = listed[n].ver, e.ping = p,
           listed' = [listed EXCEPT ![n] = e], seen' = Recorded(n, listed[n].ver, p),
           UNCHANGED <<world, hot, asked, inv>>, ping' \in [Node -> (0..Fresh) \cup {None}]
    PROVE  Inv'
<1> DEFINE v == listed[n].ver
           s == [seen[n] EXCEPT ![v] = p]
<1>1. /\ listed[n] \in Entries /\ seen[n] \in SeenMap /\ Served(listed[n], seen[n])
      /\ \A w \in Ver : (w = v \/ seen[n][w] # None) => sig[w] # None
  BY NodeFacts
<1>2. v \in Ver  BY <1>1, Numbers DEF Entries, IsListed, Ver
<1>3. seen[n][v] # None  BY <1>1 DEF Served
<1>4. seen' = [seen EXCEPT ![n] = s]  BY <1>3 DEF Recorded, Inv, TypeOK
<1>5. s \in SeenMap /\ \A w \in Ver : s[w] = IF w = v THEN p ELSE seen[n][w]  BY <1>1, <1>2 DEF SeenMap
<1>6. Served(e, s)
  <2>1. p \in Nat /\ p # None /\ p < p + Fresh  BY Numbers
  <2> QED  BY <2>1, <1>2, <1>5 DEF Served
<1>7. \A w \in Ver : (w = e.ver \/ s[w] # None) => sig[w] # None  BY <1>1, <1>2, <1>5
<1>8. /\ sig' = sig /\ spent' \in BOOLEAN /\ asked' \in [Node -> (0..MinPing) \cup {None}]
      /\ inv' \subseteq [to : Node, from : Node, ver : Ver]
      /\ status' \in {"INITIAL", "NOT_CAPABLE", "STARTED"} /\ armed' \in BOOLEAN
  BY DEF world, hot, Inv, TypeOK
<1>9. /\ Inv /\ n \in Node /\ e \in Entries /\ listed' = [listed EXCEPT ![n] = e]
      /\ ping' \in [Node -> (0..Fresh) \cup {None}]
  OBVIOUS
<1> HIDE DEF s
<1> QED  BY ONLY <1>4, <1>5, <1>6, <1>7, <1>8, <1>9, OneNode

(* "mnp", in all its outcomes: a node asked for an entry has its broadcast.*)
LEMMA PingedStep ==
    ASSUME Inv, NEW n \in Node, Pinged(n)
    PROVE  Inv'
<1>1. ping[n] # None => ping[n] \in Age  BY Numbers DEF Inv, TypeOK, Age
<1>2. /\ [ping EXCEPT ![n] = None] \in [Node -> (0..Fresh) \cup {None}]
      /\ [asked EXCEPT ![n] = 0] \in [Node -> (0..MinPing) \cup {None}]
  BY Numbers DEF Inv, TypeOK
<1>3. CASE PingUnknown(n)
  <2>1. listed' = listed /\ sig' = sig /\ spent' = spent /\ status' = status /\ armed' = armed
        /\ ping' \in [Node -> (0..Fresh) \cup {None}] /\ AskForMN(n)
    BY <1>2, <1>3 DEF PingUnknown, world, hot
  <2>2. listed[Hot] \in Entries /\ Served(listed[Hot], seen[Hot])  BY NodeFacts, Numbers
  <2>3. IsEnabled(listed[Hot]) => listed[Hot].ver \in Ver /\ seen[Hot][listed[Hot].ver] # None
    BY <2>2, Numbers DEF Entries, IsEnabled, IsListed, Served, Ver
  <2>4. seen' = seen /\ asked' \in [Node -> (0..MinPing) \cup {None}]
    BY <2>1, <2>3, <1>2 DEF AskForMN, Inv, TypeOK
  <2>5. inv' \subseteq [to : Node, from : Node, ver : Ver]
    <3>1. IsEnabled(listed[Hot]) => InvTo(n, Hot, listed[Hot].ver) \in [to : Node, from : Node, ver : Ver]
      BY <2>3, Numbers DEF InvTo
    <3>2. inv' = inv \/ (IsEnabled(listed[Hot]) /\ inv' = inv \cup {InvTo(n, Hot, listed[Hot].ver)})
      BY <2>1 DEF AskForMN
    <3> QED  BY <3>1, <3>2 DEF Inv, TypeOK
  <2> QED  BY <2>1, <2>4, <2>5 DEF Inv, TypeOK, ListedIsServed
<1>4. CASE PingIgnored(n)  BY <1>2, <1>4 DEF PingIgnored, world, hot, Inv, TypeOK, ListedIsServed
<1>5. ASSUME NEW busy \in BOOLEAN, PingAccepted(n, busy)  PROVE Inv'
  <2> DEFINE g == Entry(listed[n].ver, ping[n], listed[n].state)
             e == Check(g, busy)
  <2>1. /\ ping[n] \in Age /\ IsListed(listed[n]) /\ listed' = [listed EXCEPT ![n] = e]
        /\ seen' = Recorded(n, listed[n].ver, ping[n]) /\ ping' \in [Node -> (0..Fresh) \cup {None}]
        /\ UNCHANGED <<world, hot, asked, inv>>
    BY <1>1, <1>2, <1>5 DEF PingAccepted, IsEnabled
  <2>2. listed[n] \in Entries  BY NodeFacts
  <2>3. g \in Entries /\ g.ver = listed[n].ver /\ g.ping = ping[n]
    <3>1. listed[n].ver \in 0..MaxVer /\ listed[n].state \in State  BY <2>2 DEF Entries
    <3> QED  BY <3>1, <2>1, EntryFacts
  <2> HIDE DEF g
  <2>4. e \in Entries /\ e.ver = listed[n].ver /\ e.ping = ping[n]  BY <2>3, CheckFacts
  <2> HIDE DEF e
  <2> QED  BY <2>1, <2>4, RecordedStep
<1> QED  BY <1>3, <1>4, <1>5 DEF Pinged

(* An entry goes with its broadcasts.                                      *)
LEMMA ClearedStep ==
    ASSUME Inv, NEW n \in Node, Cleared(n),
           sig' = sig, spent' = spent, ping' \in [Node -> (0..Fresh) \cup {None}], inv' \subseteq inv,
           status' \in {"INITIAL", "NOT_CAPABLE", "STARTED"}, armed' \in BOOLEAN
    PROVE  Inv'
<1>1. /\ spent' \in BOOLEAN /\ inv' \subseteq [to : Node, from : Node, ver : Ver]
      /\ asked' \in [Node -> (0..MinPing) \cup {None}]
  BY DEF Cleared, Inv, TypeOK
<1>2. NotListed \in Entries /\ NotListed.ver = 0
  <2>1. "REMOVE" \in State /\ 0 \in 0..MaxVer /\ 0 \in Age  BY Numbers DEF State
  <2> QED  BY <2>1, EntryFacts DEF NotListed
<1>3. Unseen \in SeenMap /\ \A w \in Ver : Unseen[w] = None  BY DEF Unseen, SeenMap
<1>4. Served(NotListed, Unseen) /\ \A w \in Ver : (w = NotListed.ver \/ Unseen[w] # None) => sig[w] # None
  BY <1>2, <1>3, Numbers DEF Served, IsListed, Ver
<1>5. /\ Inv /\ n \in Node /\ sig' = sig /\ ping' \in [Node -> (0..Fresh) \cup {None}]
      /\ status' \in {"INITIAL", "NOT_CAPABLE", "STARTED"} /\ armed' \in BOOLEAN
      /\ listed' = [listed EXCEPT ![n] = NotListed] /\ seen' = [seen EXCEPT ![n] = Unseen]
  BY DEF Cleared
<1> QED  BY ONLY <1>1, <1>2, <1>3, <1>4, <1>5, OneNode

(* CheckAndRemove, from the thread or at the start: what stays in the list *)
(* was pinged less than Removal ago, so its broadcast stays too.           *)
LEMMA RemoveStep ==
    ASSUME Inv, NEW n \in Node, NEW busy \in BOOLEAN, NEW force \in BOOLEAN, RemoveOrKeep(n, Check(listed[n], busy), force),
           sig' = sig, spent' = spent, ping' \in [Node -> (0..Fresh) \cup {None}], inv' \subseteq inv,
           status' \in {"INITIAL", "NOT_CAPABLE", "STARTED"}, armed' \in BOOLEAN
    PROVE  Inv'
<1> DEFINE e == Check(listed[n], busy)
           f == Forgotten(seen[n])
<1>1. /\ listed[n] \in Entries /\ seen[n] \in SeenMap /\ Served(listed[n], seen[n])
      /\ \A w \in Ver : (w = listed[n].ver \/ seen[n][w] # None) => sig[w] # None
  BY NodeFacts
<1>2. /\ e \in Entries /\ e.ver = listed[n].ver /\ e.ping = listed[n].ping
      /\ (IsListed(e) /\ e.state \notin {"REMOVE", "VIN_SPENT"}) => e.ping < Removal
  BY <1>1, CheckFacts DEF IsListed
<1>3. /\ spent' \in BOOLEAN /\ inv' \subseteq [to : Node, from : Node, ver : Ver]
      /\ asked \in [Node -> (0..MinPing) \cup {None}]
  BY DEF Inv, TypeOK
<1>6. f \in SeenMap /\ \A w \in Ver : f[w] = IF seen[n][w] = Cap THEN None ELSE seen[n][w]
  BY <1>1 DEF Forgotten, SeenMap
<1>7. CASE Cleared(n)  BY <1>7, ClearedStep
<1>8. CASE /\ ~ (IsListed(e) /\ e.state \in {"REMOVE", "VIN_SPENT"})
           /\ listed' = [listed EXCEPT ![n] = e] /\ seen' = [seen EXCEPT ![n] = f] /\ asked' = asked
  <2> HIDE DEF e, f
  <2>1. Served(e, f)
    <3>1. SUFFICES ASSUME IsListed(e)  PROVE f[e.ver] # None /\ f[e.ver] < e.ping + Fresh
      BY DEF Served
    <3>2. e.ver \in Ver /\ e.ping \in Nat /\ e.ping < Removal
      <4>1. e.ver \in 0..MaxVer /\ e.ping \in Nat  BY <1>2, Numbers DEF Entries
      <4>2. e.ping < Removal  BY <3>1, <1>2, <1>8
      <4> QED  BY <3>1, <4>1, <4>2, Numbers DEF IsListed, Ver
    <3>3. seen[n][e.ver] # None /\ seen[n][e.ver] < e.ping + Fresh  BY <3>1, <1>1, <1>2 DEF Served, IsListed
    <3>4. seen[n][e.ver] \in Nat  BY <3>2, <3>3, <1>1, Numbers DEF SeenMap
    <3>5. seen[n][e.ver] # Cap  BY <3>2, <3>3, <3>4, Numbers
    <3> QED  BY <3>2, <3>3, <3>5, <1>6
  <2>2. \A w \in Ver : (w = e.ver \/ f[w] # None) => sig[w] # None  BY <1>1, <1>2, <1>6
  <2>3. /\ Inv /\ n \in Node /\ sig' = sig /\ ping' \in [Node -> (0..Fresh) \cup {None}]
        /\ status' \in {"INITIAL", "NOT_CAPABLE", "STARTED"} /\ armed' \in BOOLEAN
        /\ asked' \in [Node -> (0..MinPing) \cup {None}] /\ e \in Entries /\ f \in SeenMap
    BY <1>2, <1>3, <1>6, <1>8
  <2> QED  BY ONLY <2>1, <2>2, <2>3, <1>3, <1>8, OneNode
<1> QED  BY <1>7, <1>8 DEF RemoveOrKeep

(* startmasternode on the cold node.                                       *)
LEMMA StartStep ==
    ASSUME Inv, NEW v \in Ver, StartAlias(v)
    PROVE  Inv'
<1> DEFINE e == IF IsListed(listed[Cold]) THEN Renewed(listed[Cold], v, 0, 0) ELSE Entry(v, 0, "ENABLED")
           s == [seen[Cold] EXCEPT ![v] = 0]
<1>1. Cold \in Node /\ 0 \in Age /\ v \in 0..MaxVer /\ 0 \in 0..(Expire + MinPing)  BY Numbers DEF Ver
<1>2. listed[Cold] \in Entries /\ seen[Cold] \in SeenMap
      /\ \A w \in Ver : (w = listed[Cold].ver \/ seen[Cold][w] # None) => sig[w] # None
  BY <1>1, NodeFacts
<1>3. e \in Entries /\ e.ver = v
  <2>1. "ENABLED" \in State  BY DEF State
  <2>2. Entry(v, 0, "ENABLED") \in Entries /\ Entry(v, 0, "ENABLED").ver = v  BY <2>1, <1>1, EntryFacts
  <2>3. Renewed(listed[Cold], v, 0, 0) \in Entries /\ Renewed(listed[Cold], v, 0, 0).ver = v  BY <1>1, <1>2, RenewedFacts
  <2> QED  BY <2>2, <2>3
<1>4. /\ sig' = [sig EXCEPT ![v] = 0] /\ seen' = [seen EXCEPT ![Cold] = s] /\ listed' = [listed EXCEPT ![Cold] = e]
      /\ inv' = inv \cup Relay(Cold, v) /\ UNCHANGED <<asked, ping, status, armed, spent>>
  BY <1>1 DEF StartAlias, Inv, TypeOK
<1> HIDE DEF e
<1>5. s \in SeenMap /\ \A w \in Ver : s[w] = IF w = v THEN 0 ELSE seen[Cold][w]  BY <1>1, <1>2 DEF SeenMap
<1> HIDE DEF s
<1>6. sig' \in [Ver -> (0..(Expire + MinPing)) \cup {None}] /\ \A w \in Ver : sig'[w] = IF w = v THEN 0 ELSE sig[w]
  BY <1>1, <1>4 DEF Inv, TypeOK
<1>7. 0 # None  BY Numbers
<1>8. Served(e, s)
  <2>1. e.ping \in Nat  BY <1>3, Numbers DEF Entries
  <2>2. 0 < e.ping + Fresh  BY <2>1, Numbers
  <2> QED  BY <2>2, <1>3, <1>5, <1>7 DEF Served
<1>9. /\ \A w \in Ver : sig[w] # None => sig'[w] # None
      /\ \A w \in Ver : (w = e.ver \/ s[w] # None) => sig'[w] # None
  BY <1>2, <1>3, <1>5, <1>6, <1>7
<1>10. /\ inv' \subseteq [to : Node, from : Node, ver : Ver] /\ spent' \in BOOLEAN
       /\ asked' \in [Node -> (0..MinPing) \cup {None}] /\ ping' \in [Node -> (0..Fresh) \cup {None}]
       /\ status' \in {"INITIAL", "NOT_CAPABLE", "STARTED"} /\ armed' \in BOOLEAN
  BY <1>1, <1>4, RelayType DEF Inv, TypeOK
<1>11. /\ Inv /\ Cold \in Node /\ e \in Entries /\ s \in SeenMap
       /\ seen' = [seen EXCEPT ![Cold] = s] /\ listed' = [listed EXCEPT ![Cold] = e]
       /\ sig' \in [Ver -> (0..(Expire + MinPing)) \cup {None}]
  BY <1>1, <1>3, <1>4, <1>5, <1>6
<1> QED  BY ONLY <1>8, <1>9, <1>10, <1>11, OneNodeAnnounces

(* The hot node's status.                                                  *)
LEMMA StatusStep ==
    ASSUME Inv, ManageStatus
    PROVE  Inv'
<1> DEFINE e == Check(listed[Hot], FALSE)
<1>1. /\ Hot \in Node /\ listed[Hot] \in Entries /\ seen[Hot] \in SeenMap /\ Served(listed[Hot], seen[Hot])
      /\ seen = [seen EXCEPT ![Hot] = seen[Hot]]
      /\ \A v \in Ver : (v = listed[Hot].ver \/ seen[Hot][v] # None) => sig[v] # None
  BY NodeFacts, Numbers
<1>2. e \in Entries /\ e.ver = listed[Hot].ver /\ e.ping = listed[Hot].ping
  <2>1. FALSE \in BOOLEAN  OBVIOUS
  <2> QED  BY <2>1, <1>1, CheckFacts
<1>3. /\ sig' = sig /\ spent' \in BOOLEAN /\ asked' \in [Node -> (0..MinPing) \cup {None}]
      /\ seen' = seen /\ ping' \in [Node -> (0..Fresh) \cup {None}] /\ inv' \subseteq [to : Node, from : Node, ver : Ver]
      /\ status' \in {"INITIAL", "NOT_CAPABLE", "STARTED"} /\ armed' \in BOOLEAN
  BY DEF ManageStatus, world, Inv, TypeOK
<1>4. listed' = listed \/ listed' = [listed EXCEPT ![Hot] = e]  BY DEF ManageStatus
<1>5. CASE listed' = listed  BY <1>3, <1>5 DEF Inv, TypeOK, ListedIsServed
<1>6. CASE listed' = [listed EXCEPT ![Hot] = e]
  <2> HIDE DEF e
  <2>1. Served(e, seen[Hot]) /\ \A v \in Ver : (v = e.ver \/ seen[Hot][v] # None) => sig[v] # None
    BY <1>1, <1>2 DEF Served, IsListed
  <2> DEFINE s == seen[Hot]
  <2>2. /\ Inv /\ Hot \in Node /\ e \in Entries /\ s \in SeenMap
        /\ listed' = [listed EXCEPT ![Hot] = e] /\ seen' = [seen EXCEPT ![Hot] = s]
        /\ Served(e, s) /\ \A v \in Ver : (v = e.ver \/ s[v] # None) => sig[v] # None
    BY <2>1, <1>1, <1>2, <1>3, <1>6
  <2>3. /\ sig' = sig /\ spent' \in BOOLEAN /\ asked' \in [Node -> (0..MinPing) \cup {None}]
        /\ ping' \in [Node -> (0..Fresh) \cup {None}] /\ inv' \subseteq [to : Node, from : Node, ver : Ver]
        /\ status' \in {"INITIAL", "NOT_CAPABLE", "STARTED"} /\ armed' \in BOOLEAN
    BY <1>3
  <2> HIDE DEF s
  <2> QED  BY ONLY <2>2, <2>3, OneNode
<1> QED  BY <1>4, <1>5, <1>6

(* The hot node's pings.                                                   *)
LEMMA SendStep ==
    ASSUME Inv, SendMasternodePing
    PROVE  Inv'
<1> DEFINE e == Entry(listed[Hot].ver, 0, listed[Hot].state)
<1>1. Hot \in Node /\ 0 \in Age /\ listed[Hot] \in Entries  BY NodeFacts, Numbers
<1>2. e \in Entries /\ e.ver = listed[Hot].ver /\ e.ping = 0
  <2>1. listed[Hot].ver \in 0..MaxVer /\ listed[Hot].state \in State  BY <1>1 DEF Entries
  <2> QED  BY <2>1, <1>1, EntryFacts
<1>3. /\ IsListed(listed[Hot]) /\ listed' = [listed EXCEPT ![Hot] = e] /\ seen' = Recorded(Hot, listed[Hot].ver, 0)
      /\ UNCHANGED <<world, hot, asked, inv>> /\ ping' \in [Node -> (0..Fresh) \cup {None}]
  BY <1>1, Numbers DEF SendMasternodePing, Inv, TypeOK
<1> HIDE DEF e
<1> QED  BY <1>1, <1>2, <1>3, RecordedStep

(* Ages saturate.                                                          *)
LEMMA OlderFacts ==
    ASSUME NEW cap \in Nat, NEW a \in (0..cap) \cup {None}
    PROVE  /\ Older(a, cap) \in (0..cap) \cup {None} /\ (a = None <=> Older(a, cap) = None)
           /\ a # None => Older(a, cap) = (IF a = cap THEN cap ELSE a + 1)
  BY Numbers DEF Older

(* Time: a listed ping and that of its broadcast age together.             *)
LEMMA TickStep ==
    ASSUME Inv, Tick
    PROVE  Inv'
<1>1. Cap \in Nat /\ Expire + MinPing \in Nat /\ Fresh \in Nat /\ Fresh <= Cap /\ Age = 0..Cap  BY Numbers DEF Age
<1>2. sig' \in [Ver -> (0..(Expire + MinPing)) \cup {None}] /\ \A v \in Ver : sig[v] # None => sig'[v] # None
  <2>1. \A v \in Ver : sig[v] \in (0..(Expire + MinPing)) \cup {None}  BY DEF Inv, TypeOK
  <2>2. \A v \in Ver : /\ Older(sig[v], Expire + MinPing) \in (0..(Expire + MinPing)) \cup {None}
                       /\ sig[v] # None => Older(sig[v], Expire + MinPing) # None
    BY <2>1, <1>1, OlderFacts
  <2> QED  BY <2>2 DEF Tick
<1>3. ASSUME NEW n \in Node
      PROVE  /\ listed'[n] \in Entries /\ seen'[n] \in SeenMap /\ Served(listed'[n], seen'[n])
             /\ \A v \in Ver : (v = listed'[n].ver \/ seen'[n][v] # None) => sig'[v] # None
  <2>1. /\ listed[n] \in Entries /\ seen[n] \in SeenMap /\ Served(listed[n], seen[n])
        /\ \A v \in Ver : (v = listed[n].ver \/ seen[n][v] # None) => sig[v] # None
    BY NodeFacts
  <2>2. listed[n].ver \in 0..MaxVer /\ listed[n].ping \in 0..Cap /\ listed[n].ping # None /\ listed[n].state \in State
    BY <2>1, <1>1, Numbers DEF Entries
  <2>3. \A v \in Ver : seen[n][v] \in (0..Cap) \cup {None}  BY <2>1, <1>1 DEF SeenMap
  <2>4. seen'[n] = [v \in Ver |-> Older(seen[n][v], Cap)]  BY DEF Tick
  <2>5. \A v \in Ver : /\ seen'[n][v] \in (0..Cap) \cup {None} /\ (seen[n][v] = None <=> seen'[n][v] = None)
                       /\ seen[n][v] # None => seen'[n][v] = (IF seen[n][v] = Cap THEN Cap ELSE seen[n][v] + 1)
    <3> SUFFICES ASSUME NEW v \in Ver
                 PROVE  /\ seen'[n][v] \in (0..Cap) \cup {None} /\ (seen[n][v] = None <=> seen'[n][v] = None)
                        /\ seen[n][v] # None => seen'[n][v] = (IF seen[n][v] = Cap THEN Cap ELSE seen[n][v] + 1)
      OBVIOUS
    <3> DEFINE a == seen[n][v]
               b == seen'[n][v]
    <3>1. b = Older(a, Cap) /\ a \in (0..Cap) \cup {None}  BY <2>3, <2>4
    <3> HIDE DEF a, b
    <3>2. /\ b \in (0..Cap) \cup {None} /\ (a = None <=> b = None) /\ (a # None => b = IF a = Cap THEN Cap ELSE a + 1)
      BY <3>1, <1>1, OlderFacts
    <3> QED  BY <3>2 DEF a, b
  <2>6. seen'[n] \in SeenMap  BY <2>4, <2>5, <1>1 DEF SeenMap
  <2>7. CASE ~ IsListed(listed[n])
    <3>1. listed'[n] = listed[n]  BY <2>7 DEF Tick
    <3> QED  BY <3>1, <2>1, <2>5, <2>6, <2>7, <1>2 DEF Served
  <2>8. CASE IsListed(listed[n])
    <3> DEFINE p == Older(listed[n].ping, Cap)
               v == listed[n].ver
    <3>1. p \in 0..Cap /\ p = IF listed[n].ping = Cap THEN Cap ELSE listed[n].ping + 1
      BY <2>2, <1>1, Numbers DEF Older
    <3>2. listed'[n] = Entry(v, p, listed[n].state)  BY <2>8 DEF Tick
    <3> HIDE DEF p
    <3>3. listed'[n] \in Entries /\ listed'[n].ver = v /\ listed'[n].ping = p  BY <3>1, <3>2, <2>2, <1>1, EntryFacts
    <3>4. v \in Ver /\ seen[n][v] # None /\ seen[n][v] < listed[n].ping + Fresh
      <4>1. v \in Ver  BY <2>2, <2>8, Numbers DEF IsListed, Ver
      <4> QED  BY <4>1, <2>1, <2>8 DEF Served
    <3>5. seen'[n][v] # None /\ seen'[n][v] = IF seen[n][v] = Cap THEN Cap ELSE seen[n][v] + 1  BY <3>4, <2>5
    <3>6. seen'[n][v] < p + Fresh
      <4>1. seen[n][v] \in 0..Cap  BY <3>4, <2>3
      <4> QED  BY <4>1, <3>1, <3>4, <3>5, <2>2, Numbers
    <3> QED  BY <3>3, <3>5, <3>6, <2>1, <2>5, <2>6, <1>2 DEF Served
  <2> QED  BY <2>7, <2>8
<1>4. listed' \in [Node -> Entries] /\ seen' \in [Node -> SeenMap]
  <2>1. listed' = [n \in Node |-> listed'[n]] /\ seen' = [n \in Node |-> seen'[n]]  BY DEF Tick
  <2> QED  BY <2>1, <1>3
<1>5. ping' \in [Node -> (0..Fresh) \cup {None}]
  <2>1. \A n \in Node : ping[n] \in (0..Fresh) \cup {None}  BY DEF Inv, TypeOK
  <2>2. \A n \in Node : Older(ping[n], Fresh) \in (0..Fresh) \cup {None}  BY <2>1, <1>1, OlderFacts
  <2> QED  BY <2>2 DEF Tick
<1>6. asked' \in [Node -> (0..MinPing) \cup {None}]
  <2>1. \A n \in Node : asked[n] \in (0..MinPing) \cup {None}  BY DEF Inv, TypeOK
  <2> DEFINE a(n) == IF asked[n] = None \/ asked[n] + 1 >= MinPing THEN None ELSE asked[n] + 1
  <2>2. ASSUME NEW n \in Node  PROVE a(n) \in (0..MinPing) \cup {None}
    <3>1. CASE asked[n] = None  BY <3>1
    <3>2. CASE asked[n] # None
      <4>1. asked[n] \in Nat  BY <3>2, <2>1, Numbers
      <4> QED  BY <4>1, Numbers
    <3> QED  BY <3>1, <3>2
  <2> QED  BY <2>2 DEF Tick
<1>7. TypeOK'
  <2>1. UNCHANGED <<inv, spent, status, armed>>  BY DEF Tick, hot
  <2> QED  BY <2>1, <1>2, <1>3, <1>4, <1>5, <1>6 DEF Inv, TypeOK, Entries, SeenMap
<1>8. ListedIsServed'  BY <1>3 DEF ListedIsServed, Served
<1> QED  BY <1>7, <1>8 DEF Inv

-----------------------------------------------------------------------------
(* Before the first announcement nothing is listed.                        *)
LEMMA InitStep ==
    Init => Inv
<1> SUFFICES ASSUME Init  PROVE Inv  OBVIOUS
<1>1. "REMOVE" \in State /\ 0 \in 0..MaxVer /\ 0 \in Age  BY Numbers DEF State
<1>2. NotListed \in Entries /\ NotListed.ver = 0  BY <1>1, EntryFacts DEF NotListed
<1>3. \A n \in Node : listed[n] = NotListed /\ seen[n] = Unseen  BY DEF Init
<1>4. \A v \in Ver : Unseen[v] = None /\ v # 0  BY Numbers DEF Unseen, Ver
<1>5. TypeOK
  <2>1. listed \in [Node -> Entries] /\ seen \in [Node -> SeenMap]  BY <1>2 DEF Init, Unseen, SeenMap
  <2>2. sig \in [Ver -> (0..(Expire + MinPing)) \cup {None}]  BY DEF Init, Unseen
  <2>3. \A n \in Node, v \in Ver : ~ (v = listed[n].ver \/ seen[n][v] # None)  BY <1>2, <1>3, <1>4
  <2> QED  BY <2>1, <2>2, <2>3 DEF TypeOK, Init, Entries, SeenMap
<1>6. ListedIsServed  BY <1>2, <1>3 DEF ListedIsServed, IsListed
<1> QED  BY <1>5, <1>6 DEF Inv

(* Every step of every node keeps it.                                      *)
LEMMA NextStep ==
    Inv /\ [Next]_vars => Inv'
<1> SUFFICES ASSUME Inv, [Next]_vars  PROVE Inv'  OBVIOUS
<1>1. ASSUME NEW v \in Ver, StartAlias(v)  PROVE Inv'  BY <1>1, StartStep
<1>2. ASSUME NEW n \in Node, Announced(n)  PROVE Inv'  BY <1>2, AnnouncedStep
<1>3. ASSUME NEW n \in Node, Pinged(n)  PROVE Inv'  BY <1>3, PingedStep
<1>4. ASSUME NEW n \in Node, Thread(n)  PROVE Inv'
  <2>1. PICK busy \in BOOLEAN : CheckAndRemove(n, busy)  BY <1>4 DEF Thread
  <2>2. RemoveOrKeep(n, Check(listed[n], busy), FALSE) /\ UNCHANGED <<world, hot, ping, inv>>
    BY <2>1 DEF CheckAndRemove
  <2>3. /\ sig' = sig /\ spent' = spent /\ ping' \in [Node -> (0..Fresh) \cup {None}] /\ inv' \subseteq inv
        /\ status' \in {"INITIAL", "NOT_CAPABLE", "STARTED"} /\ armed' \in BOOLEAN /\ FALSE \in BOOLEAN
    BY <2>2 DEF world, hot, Inv, TypeOK
  <2> QED  BY <2>2, <2>3, RemoveStep
<1>5. ASSUME NEW n \in Node, NEW cache \in BOOLEAN, Restart(n, cache)  PROVE Inv'
  <2>1. /\ sig' = sig /\ spent' = spent /\ ping' \in [Node -> (0..Fresh) \cup {None}] /\ inv' \subseteq inv
        /\ status' \in {"INITIAL", "NOT_CAPABLE", "STARTED"} /\ armed' \in BOOLEAN
        /\ FALSE \in BOOLEAN /\ TRUE \in BOOLEAN
    BY <1>5 DEF Restart, world, hot, Inv, TypeOK
  <2>2. RemoveOrKeep(n, Check(listed[n], FALSE), TRUE) \/ Cleared(n)  BY <1>5 DEF Restart
  <2>3. CASE RemoveOrKeep(n, Check(listed[n], FALSE), TRUE)  BY <2>1, <2>3, RemoveStep
  <2>4. CASE Cleared(n)  BY <2>1, <2>4, ClearedStep
  <2> QED  BY <2>2, <2>3, <2>4
<1>6. CASE ManageStatus  BY <1>6, StatusStep
<1>7. CASE SendMasternodePing  BY <1>7, SendStep
<1>8. CASE Tick  BY <1>8, TickStep
<1>9. CASE Spend  BY <1>9 DEF Spend, hot, Inv, TypeOK, ListedIsServed
<1>10. ASSUME NEW i \in inv, Lose(i)  PROVE Inv'  BY <1>10 DEF Lose, world, hot, Inv, TypeOK, ListedIsServed
<1>11. CASE UNCHANGED vars  BY <1>11 DEF vars, Inv, TypeOK, ListedIsServed
<1> QED  BY <1>1, <1>2, <1>3, <1>4, <1>5, <1>6, <1>7, <1>8, <1>9, <1>10, <1>11 DEF Next

(* The inductive invariant.                                                *)
LEMMA Invariance ==
    Spec => []Inv
  BY InitStep, NextStep, PTL DEF Spec

(* The lists, broadcasts, pings and announcements stay within their types, *)
(* and no node lists or keeps a version that was not announced.            *)
THEOREM TypeCorrect ==
    Spec => []TypeOK
<1>1. Inv => TypeOK  BY DEF Inv
<1> QED  BY <1>1, Invariance, PTL

(* A node that lists the masternode has a broadcast to hand on, less than  *)
(* an hour behind (masternode.cpp, the lastPing of the seen broadcast).    *)
THEOREM ServedCorrect ==
    Spec => []ListedIsServed
<1>1. Inv => ListedIsServed  BY DEF Inv
<1> QED  BY <1>1, Invariance, PTL
=============================================================================

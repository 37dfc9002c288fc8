--------------------------- MODULE MasternodeList ---------------------------
(***************************************************************************)
(* One masternode in the lists of all nodes: src/src/masternodeman.cpp,    *)
(* masternode.cpp and activemasternode.cpp.  Cold holds the collateral and *)
(* announces the masternode, Hot runs it and sends its pings.              *)
(*                                                                         *)
(* Times are ages, in units of MASTERNODE_MIN_MNP_SECONDS, and saturate    *)
(* where no comparison tells them apart; the 5 seconds between two checks  *)
(* are below the unit.  An announcement is followed to the peer's answer   *)
(* in one step (inv, getdata, mnb), and so is a question for an entry      *)
(* (dseg, inv).  All nodes are connected and have synced the chain.        *)
(*                                                                         *)
(* Left out: a change of keys or of the protocol version, checks that fail *)
(* for every node alike (signature, port, the block a ping names), the     *)
(* counts kept for the sync, and Misbehaving.                              *)
(***************************************************************************)
EXTENDS Naturals

CONSTANTS
    Node, Hot, Cold,
    None,
    MaxVer,        \* announcements: startmasternode on the cold node
    MinPing,       \* MASTERNODE_MIN_MNP_SECONDS
    MinBroadcast,  \* MASTERNODE_MIN_MNB_SECONDS
    Fresh,         \* the age, an hour, from which a ping is refused
    Expire,        \* MASTERNODE_EXPIRATION_SECONDS
    Removal,       \* MASTERNODE_REMOVAL_SECONDS
    MaxFaults      \* busy locks, lost messages, late pings and restarts

Ver == 1..MaxVer
Cap == 2 * Removal + 1
Age == 0..Cap
State == {"ENABLED", "PRE_ENABLED", "EXPIRED", "REMOVE", "VIN_SPENT"}

ASSUME ListAssumption ==
    /\ Hot \in Node /\ Cold \in Node /\ Hot # Cold /\ None \notin Nat
    /\ {MaxVer, MinPing, MinBroadcast, Fresh, Expire, Removal, MaxFaults} \subseteq Nat
    /\ 0 < MaxVer /\ 0 < MinPing /\ MinBroadcast <= MinPing /\ MinPing <= Fresh /\ Fresh <= Expire /\ Expire <= Removal

VARIABLES
    sig,      \* age of each announcement, None before it is made
    listed,   \* the entry of vMasternodes at each node
    seen,     \* mapSeenMasternodeBroadcast: the age of lastPing, or None
    asked,    \* mWeAskedForMasternodeListEntry: the time since
    ping,     \* the ping on its way to each node
    inv,      \* announcements on their way: to, from, version
    status,   \* status of activeMasternode at Hot
    armed,    \* its vin is set
    spent,    \* the collateral has been spent
    faults

vars == <<sig, listed, seen, asked, ping, inv, status, armed, spent, faults>>
world == <<sig, spent>>
hot == <<status, armed>>

Entry(v, p, s) == [ver |-> v, ping |-> p, state |-> s]
NotListed == Entry(0, 0, "REMOVE")
Unseen == [v \in Ver |-> None]
InvTo(n, m, v) == [to |-> n, from |-> m, ver |-> v]

(* The types; a listed masternode has an announced version.                *)
TypeOK ==
    /\ sig \in [Ver -> (0..(Expire + MinPing)) \cup {None}]
    /\ listed \in [Node -> [ver : 0..MaxVer, ping : Age, state : State]]
    /\ seen \in [Node -> [Ver -> Age \cup {None}]]
    /\ asked \in [Node -> (0..MinPing) \cup {None}] /\ ping \in [Node -> (0..Fresh) \cup {None}]
    /\ inv \subseteq [to : Node, from : Node, ver : Ver]
    /\ status \in {"INITIAL", "NOT_CAPABLE", "STARTED"} /\ armed \in BOOLEAN /\ spent \in BOOLEAN
    /\ \A n \in Node, v \in Ver : (v = listed[n].ver \/ seen[n][v] # None) => sig[v] # None

Init ==
    /\ sig = Unseen /\ listed = [n \in Node |-> NotListed] /\ seen = [n \in Node |-> Unseen]
    /\ asked = [n \in Node |-> None] /\ ping = [n \in Node |-> None] /\ inv = {}
    /\ status = "INITIAL" /\ armed = FALSE /\ spent = FALSE /\ faults = 0

Fault == faults < MaxFaults /\ faults' = faults + 1
Busy(b) == IF b THEN Fault ELSE faults' = faults
IsListed(e) == e.ver # 0
IsEnabled(e) == IsListed(e) /\ e.state = "ENABLED"

-----------------------------------------------------------------------------
(* CMasternode::Check, for an announcement of that age; busy: cs_main is   *)
(* taken.  The collateral is looked at last.  Mutation: it is not.         *)
NeverSpent(e, age, busy) ==
    IF e.ping >= Removal THEN "REMOVE"
    ELSE IF e.ping >= Expire THEN "EXPIRED"
    ELSE IF age < e.ping + MinPing THEN "PRE_ENABLED"
    ELSE "ENABLED"
StateOf(e, age, busy) ==
    IF e.state = "VIN_SPENT" THEN "VIN_SPENT"
    ELSE IF e.ping >= Removal THEN "REMOVE"
    ELSE IF e.ping >= Expire THEN "EXPIRED"
    ELSE IF age < e.ping + MinPing THEN "PRE_ENABLED"
    ELSE IF busy THEN e.state
    ELSE IF spent THEN "VIN_SPENT"
    ELSE "ENABLED"
Check(e, busy) == IF IsListed(e) THEN Entry(e.ver, e.ping, StateOf(e, sig[e.ver], busy)) ELSE e

(* UpdateFromNewBroadcast: its ping counts if the last one is old enough,  *)
(* and is then checked at once.                                            *)
TakesPing(e, p) == e.ping >= p + MinPing
Renewed(e, v, p, age) ==
    IF TakesPing(e, p) THEN Entry(v, p, StateOf(Entry(v, p, e.state), age, FALSE)) ELSE Entry(v, e.ping, e.state)

Relay(n, v) == {InvTo(m, n, v) : m \in Node \ {n}}

(* startmasternode on the cold node: UpdateMasternodeList, then Relay.     *)
StartAlias(v) ==
    /\ ~ spent /\ sig[v] = None /\ \A w \in 1..(v - 1) : sig[w] # None
    /\ sig' = [sig EXCEPT ![v] = 0] /\ seen' = [seen EXCEPT ![Cold][v] = 0]
    /\ listed' = [listed EXCEPT ![Cold] =
          IF IsListed(listed[Cold]) THEN Renewed(listed[Cold], v, 0, 0) ELSE Entry(v, 0, "ENABLED")]
    /\ inv' = inv \cup Relay(Cold, v)
    /\ UNCHANGED <<asked, ping, status, armed, spent, faults>>

-----------------------------------------------------------------------------
(* An announcement that is known (AlreadyHave), or that the peer no longer *)
(* has (notfound).                                                         *)
Fetches(i) == seen[i.to][i.ver] = None /\ seen[i.from][i.ver] # None
InvIgnored(i) ==
    /\ ~ Fetches(i) /\ inv' = inv \ {i}
    /\ UNCHANGED <<world, hot, listed, seen, asked, ping, faults>>

(* "mnb": the broadcast, as the peer has it, is recorded and then checked. *)
LastPing(i) == seen[i.from][i.ver]
Seen(i) == [seen EXCEPT ![i.to][i.ver] = LastPing(i)]
Acceptable(i) == LastPing(i) < Fresh /\ listed[i.to].ver < i.ver
BroadcastRefused(i) ==
    /\ Fetches(i) /\ ~ Acceptable(i)
    /\ seen' = Seen(i) /\ inv' = inv \ {i}
    /\ UNCHANGED <<world, hot, listed, asked, ping, faults>>

(* CheckAndUpdate takes a newer broadcast over into an enabled entry.      *)
Updates(e) == IsEnabled(e) /\ sig[e.ver] >= MinBroadcast
Updated(i, busy) ==
    LET e == listed[i.to]
    IN  IF Updates(e) THEN Check(Renewed(e, i.ver, LastPing(i), sig[i.ver]), busy) ELSE e

(* CheckInputsAndAdd leaves the masternode itself alone, and an enabled    *)
(* entry; it replaces any other.                                           *)
Stays(i, busy) == (i.to = Hot /\ armed) \/ IsEnabled(Updated(i, busy))
BroadcastUpdates(i, busy) ==
    /\ Fetches(i) /\ Acceptable(i) /\ Stays(i, busy) /\ Busy(busy)
    /\ seen' = Seen(i) /\ listed' = [listed EXCEPT ![i.to] = Updated(i, busy)]
    /\ inv' = (inv \ {i}) \cup
          IF Updates(listed[i.to]) /\ IsEnabled(Updated(i, busy)) THEN Relay(i.to, i.ver) ELSE {}
    /\ UNCHANGED <<world, hot, asked, ping>>

BroadcastAdds(i, busy) ==
    /\ Fetches(i) /\ Acceptable(i) /\ ~ Stays(i, busy) /\ ~ spent /\ Busy(busy)
    /\ seen' = Seen(i) /\ listed' = [listed EXCEPT ![i.to] = Entry(i.ver, LastPing(i), "ENABLED")]
    /\ inv' = (inv \ {i}) \cup Relay(i.to, i.ver)
    /\ IF i.to = Hot THEN status' = "STARTED" /\ armed' = TRUE ELSE UNCHANGED hot
    /\ UNCHANGED <<world, asked, ping>>

(* The old entry is gone when the collateral is found spent, or cs_main    *)
(* taken, or too few confirmations: then the broadcast is forgotten.       *)
BroadcastFails(i, busy) ==
    /\ Fetches(i) /\ Acceptable(i) /\ ~ Stays(i, busy)
    /\ \/ spent /\ Busy(busy) /\ seen' = Seen(i)
       \/ Fault /\ seen' = seen
    /\ listed' = [listed EXCEPT ![i.to] = NotListed] /\ inv' = inv \ {i}
    /\ UNCHANGED <<world, hot, asked, ping>>

-----------------------------------------------------------------------------
(* AskForMN, and the answer to "dseg" for one entry.                       *)
(* Mutation: an answer also for an entry that is not enabled or not there. *)
AskAnswered(n) ==
    /\ asked' = [asked EXCEPT ![n] = 0] /\ seen' = seen
    /\ inv' = inv \cup {InvTo(n, Hot, listed[Hot].ver)}
AskForMN(n) ==
    IF asked[n] # None THEN UNCHANGED <<asked, inv, seen>>
    ELSE /\ asked' = [asked EXCEPT ![n] = 0]
         /\ \E e \in {listed[Hot]} :
               IF ~ IsEnabled(e) THEN UNCHANGED <<inv, seen>>
               ELSE /\ inv' = inv \cup {InvTo(n, Hot, e.ver)}
                    /\ seen' = IF seen[Hot][e.ver] = None THEN [seen EXCEPT ![Hot][e.ver] = e.ping] ELSE seen

(* lastPing of an entry and of the broadcast that peers may ask for.       *)
(* Mutation: of the entry only.                                            *)
EntryOnly(n, v, p) == seen
Recorded(n, v, p) == IF seen[n][v] = None THEN seen ELSE [seen EXCEPT ![n][v] = p]

(* "mnp": one that is refused as old, or whose masternode is not known, ...*)
PingUnknown(n) ==
    /\ ping[n] # None /\ (ping[n] >= Fresh \/ ~ IsListed(listed[n]))
    /\ AskForMN(n) /\ ping' = [ping EXCEPT ![n] = None]
    /\ UNCHANGED <<world, hot, listed, faults>>

(* ... one that comes too early or for an entry that is not enabled, ...   *)
PingIgnored(n) ==
    /\ ping[n] # None /\ ping[n] < Fresh /\ IsListed(listed[n])
    /\ ~ IsEnabled(listed[n]) \/ ~ TakesPing(listed[n], ping[n])
    /\ ping' = [ping EXCEPT ![n] = None]
    /\ UNCHANGED <<world, hot, listed, seen, asked, inv, faults>>

(* ... and one that counts.  Relayed copies are dropped as seen.           *)
PingAccepted(n, busy) ==
    /\ ping[n] # None /\ ping[n] < Fresh /\ IsEnabled(listed[n]) /\ TakesPing(listed[n], ping[n])
    /\ Busy(busy)
    /\ listed' = [listed EXCEPT ![n] = Check(Entry(listed[n].ver, ping[n], listed[n].state), busy)]
    /\ seen' = Recorded(n, listed[n].ver, ping[n]) /\ ping' = [ping EXCEPT ![n] = None]
    /\ UNCHANGED <<world, hot, asked, inv>>

-----------------------------------------------------------------------------
(* CheckAndRemove, every minute: an entry goes with all its broadcasts and *)
(* the note of having asked for it; broadcasts go with age.                *)
(* Mutation: they stay.                                                    *)
KeptForever(s) == s
Forgotten(s) == [v \in Ver |-> IF s[v] = Cap THEN None ELSE s[v]]
Cleared(n) ==
    /\ listed' = [listed EXCEPT ![n] = NotListed]
    /\ seen' = [seen EXCEPT ![n] = Unseen] /\ asked' = [asked EXCEPT ![n] = None]
RemoveOrKeep(n, e, forceExpiredRemoval) ==
    IF IsListed(e) /\ (e.state \in {"REMOVE", "VIN_SPENT"} \/ (forceExpiredRemoval /\ e.state = "EXPIRED"))
    THEN Cleared(n)
    ELSE /\ listed' = [listed EXCEPT ![n] = e]
         /\ seen' = [seen EXCEPT ![n] = Forgotten(seen[n])] /\ asked' = asked
CheckAndRemove(n, busy) ==
    /\ RemoveOrKeep(n, Check(listed[n], busy), FALSE) /\ Busy(busy)
    /\ UNCHANGED <<world, hot, ping, inv>>

(* ManageStatus of a node with a masternode key and an empty wallet.       *)
ManageStatus ==
    \/ /\ status = "INITIAL"
       /\ \E e \in {Check(listed[Hot], FALSE)} :
             /\ listed' = [listed EXCEPT ![Hot] = e]
             /\ IF IsEnabled(e) THEN status' = "STARTED" /\ armed' = TRUE
                ELSE status' = "NOT_CAPABLE" /\ armed' = armed
       /\ UNCHANGED <<world, seen, asked, ping, inv, faults>>
    \/ /\ status = "STARTED" /\ ~ IsListed(listed[Hot]) /\ status' = "NOT_CAPABLE"
       /\ UNCHANGED <<world, armed, listed, seen, asked, ping, inv, faults>>

(* SendMasternodePing: the entry is set, without a check, and all hear.    *)
SendMasternodePing ==
    /\ status = "STARTED" /\ IsListed(listed[Hot]) /\ listed[Hot].ping > 0
    /\ listed' = [listed EXCEPT ![Hot] = Entry(listed[Hot].ver, 0, listed[Hot].state)] /\ seen' = Recorded(Hot, listed[Hot].ver, 0)
    /\ ping' = [n \in Node |-> IF n = Hot THEN ping[n] ELSE 0]
    /\ UNCHANGED <<world, hot, asked, inv, faults>>

-----------------------------------------------------------------------------
(* A unit of time, in which a started masternode has sent a ping.          *)
Older(a, cap) == IF a = None THEN None ELSE IF a = cap THEN cap ELSE a + 1
Tick ==
    /\ IF status = "STARTED" /\ IsListed(listed[Hot]) /\ listed[Hot].ping > 0 THEN Fault ELSE faults' = faults
    /\ sig' = [v \in Ver |-> Older(sig[v], Expire + MinPing)]
    /\ listed' = [n \in Node |-> IF IsListed(listed[n])
                                 THEN Entry(listed[n].ver, Older(listed[n].ping, Cap), listed[n].state) ELSE listed[n]]
    /\ seen' = [n \in Node |-> [v \in Ver |-> Older(seen[n][v], Cap)]]
    /\ ping' = [n \in Node |-> Older(ping[n], Fresh)]
    /\ asked' = [n \in Node |-> IF asked[n] = None \/ asked[n] + 1 >= MinPing THEN None ELSE asked[n] + 1]
    /\ UNCHANGED <<hot, inv, spent>>

Spend == ~ spent /\ spent' = TRUE /\ UNCHANGED <<sig, hot, listed, seen, asked, ping, inv, faults>>
Lose(i) == Fault /\ inv' = inv \ {i} /\ UNCHANGED <<world, hot, listed, seen, asked, ping>>

(* A restart with the cache of the list, which is cleaned, or without one. *)
Restart(n, cache) ==
    /\ Fault
    /\ IF cache THEN RemoveOrKeep(n, Check(listed[n], FALSE), TRUE) ELSE Cleared(n)
    /\ ping' = [ping EXCEPT ![n] = None] /\ inv' = {i \in inv : i.to # n}
    /\ IF n = Hot THEN status' = "INITIAL" /\ armed' = FALSE ELSE UNCHANGED hot
    /\ UNCHANGED world

Announced(n) ==
    \E i \in {i \in inv : i.to = n} :
        \/ InvIgnored(i) \/ BroadcastRefused(i)
        \/ \E busy \in BOOLEAN : BroadcastUpdates(i, busy) \/ BroadcastAdds(i, busy) \/ BroadcastFails(i, busy)
Pinged(n) == PingUnknown(n) \/ PingIgnored(n) \/ \E busy \in BOOLEAN : PingAccepted(n, busy)
Thread(n) == \E busy \in BOOLEAN : CheckAndRemove(n, busy)

Next ==
    \/ \E v \in Ver : StartAlias(v)
    \/ \E n \in Node : Announced(n) \/ Pinged(n) \/ Thread(n) \/ \E cache \in BOOLEAN : Restart(n, cache)
    \/ ManageStatus \/ SendMasternodePing \/ Tick \/ Spend
    \/ \E i \in inv : Lose(i)

Spec == Init /\ [][Next]_vars

(* The threads of each node run, messages arrive and time passes.          *)
FairSpec ==
    /\ Spec /\ WF_vars(ManageStatus \/ SendMasternodePing) /\ WF_vars(Tick)
    /\ \A n \in Node : WF_vars(Announced(n)) /\ WF_vars(Pinged(n)) /\ WF_vars(Thread(n))

-----------------------------------------------------------------------------
(* A node that lists the masternode can hand its broadcast on, with a ping *)
(* that is less than an hour behind the one it lists: however pings,       *)
(* broadcasts, removals and restarts are mixed.                            *)
ListedIsServed ==
    \A n \in Node : IsListed(listed[n]) =>
        /\ seen[n][listed[n].ver] # None
        /\ seen[n][listed[n].ver] < listed[n].ping + Fresh

(* A masternode that keeps sending pings is, again and again, enabled on   *)
(* every node, whatever was refused, removed or lost before.               *)
PingingIsEnabled ==
    \A n \in Node : []<>(status # "STARTED" \/ spent \/ IsEnabled(listed[n]))

(* A masternode whose collateral is spent leaves every list for good, even *)
(* one that is not enabled yet, for which Check does not get to the inputs.*)
SpentIsRemoved == <>[](spent => \A n \in Node : ~ IsListed(listed[n]))
=============================================================================

---------------------------- MODULE BudgetProofs ----------------------------
(***************************************************************************)
(* Proofs about Budget, for any proposals, budgets, votes, masternodes and *)
(* heights.                                                                *)
(*                                                                         *)
(* The inductive invariant is TypeOK with OrphansWait.  Both are said of   *)
(* one manager s (Sound, Settled), and a lemma an operator says what it    *)
(* keeps of them, so that a step is the chain of the calls it makes.  That *)
(* a budget block is accepted follows from the types: the budget that      *)
(* FillBlockPayee pays has the most votes, so IsTransactionValid asks it,  *)
(* and the budgets asked before it can only have forgotten payments.       *)
(***************************************************************************)
EXTENDS Budget, FiniteSetTheorems, TLAPS

(* A nonempty set of naturals has a least element.                         *)
LEMMA LeastNatural ==
    ASSUME NEW S \in SUBSET Nat, S # {}
    PROVE  \E x \in S : \A y \in S : x <= y
<1> DEFINE R == OpToRel(<, Nat)
<1>1. IsWellFoundedOn(R, Nat)  BY NatLessThanWellFounded
<1>2. \A x, y \in Nat : y < x => <<y, x>> \in R  BY DEF OpToRel
<1> HIDE DEF R
<1>3. PICK x \in S : \A y \in S : ~ (<<y, x>> \in R)  BY <1>1, WFMin
<1>4. ASSUME NEW y \in S  PROVE x <= y
  <2>1. ~ (y < x)  BY <1>2, <1>3
  <2>2. x \in Nat /\ y \in Nat  OBVIOUS
  <2> QED  BY <2>1, <2>2
<1> QED  BY <1>4

(* The facts of TypeOK about one manager s, and one of its items.          *)
ItemSound(s, i) ==
    /\ s.off[i] \subseteq {m \in MN : s.votes[i][m] # None}
    /\ i \notin s.known => s.votes[i] = NoVotes
    /\ \A m \in MN : s.votes[i][m] # None => s.votes[i][m].item = i /\ s.votes[i][m].mn = m
    /\ s.orphan[i] # None => s.orphan[i].item = i
Sound(s) == s \in Manager /\ \A i \in Item : ItemSound(s, i)

(* The orphan vote for an item, if any, would be refused.                  *)
Refused(s, i) == s.orphan[i] # None => ~Takes(s, s.orphan[i])

(* The orphans of all known items but those of T.                          *)
Settled(s, T) == \A i \in s.known \ T : Refused(s, i)

(* A vote has its fields, and is not None.                                 *)
LEMMA VoteFacts ==
    ASSUME NEW v \in Vote
    PROVE  v \in Vote /\ v.mn \in MN /\ v.item \in Item /\ v.time \in Nat /\ v # None /\ UpdateMin \in Nat
BY BudgetAssumption DEF Vote

(* The fields of a manager.                                                *)
LEMMA Fields ==
    ASSUME NEW s \in Manager
    PROVE  /\ s.known \in SUBSET Item /\ s.immature \in SUBSET Item /\ s.seen \in SUBSET (Item \cup Vote)
           /\ s.votes \in [Item -> [MN -> Vote \cup {None}]] /\ s.off \in [Item -> SUBSET MN]
           /\ s.orphan \in [Item -> Vote \cup {None}]
BY DEF Manager

(* An item whose votes stay the same stays sound, and its orphan refused.  *)
LEMMA SameItem ==
    ASSUME NEW s, NEW t, NEW i, t.votes[i] = s.votes[i], t.off[i] = s.off[i], t.orphan[i] = s.orphan[i],
           i \in s.known => i \in t.known, ItemSound(s, i)
    PROVE  ItemSound(t, i) /\ (Refused(s, i) => Refused(t, i))
<1>1. ItemSound(t, i)
  BY DEF ItemSound
<1>2. ASSUME Refused(s, i), t.orphan[i] # None PROVE ~Takes(t, t.orphan[i])
  <2>1. s.orphan[i].item = i /\ ~Takes(s, s.orphan[i])
    BY <1>2 DEF Refused, ItemSound
  <2> QED
    BY <2>1 DEF Takes
<1> QED
  BY <1>1, <1>2 DEF Refused

(* A new manager has nothing to settle.                                    *)
LEMMA EmptySound == Sound(Empty) /\ Settled(Empty, {}) /\ Empty.known = {}
<1>1. NoVotes \in [MN -> Vote \cup {None}]
  BY DEF NoVotes
<1>2. Empty \in Manager
  BY <1>1 DEF Empty, Manager
<1> QED
  BY <1>2 DEF Sound, ItemSound, Settled, Empty, NoVotes

(* Add: the new items have no votes, the others keep theirs.               *)
LEMMA AddFacts ==
    ASSUME NEW s, Sound(s), NEW T \in SUBSET Item
    PROVE  /\ Sound(Add(s, T)) /\ s.known \subseteq Add(s, T).known
           /\ Add(s, T).known \subseteq Item
           /\ \A i \in s.known : Refused(s, i) => Refused(Add(s, T), i)
           /\ Add(s, T).immature = s.immature
<1> DEFINE new == {i \in T \ s.known : IsValid(Empty, i)}
           tally == [i \in Item |-> IF i \in new THEN NoVotes ELSE s.votes[i]]
           off == [i \in Item |-> IF i \in new THEN {} ELSE s.off[i]]
           t == [s EXCEPT !.known = s.known \cup new, !.votes = tally, !.off = off]
<1>1. s \in Manager
  BY DEF Sound
<1>2. Add(s, T) = t
  BY <1>1 DEF Add, Manager
<1>3. new \subseteq Item /\ new \cap s.known = {}
  OBVIOUS
<1>4. /\ tally \in [Item -> [MN -> Vote \cup {None}]] /\ off \in [Item -> SUBSET MN]
      /\ \A i \in Item : IF i \in new THEN tally[i] = NoVotes /\ off[i] = {}
                           ELSE tally[i] = s.votes[i] /\ off[i] = s.off[i]
  <2>1. NoVotes \in [MN -> Vote \cup {None}]
    BY DEF NoVotes
  <2> HIDE DEF new
  <2> QED
    BY <1>1, <2>1, Fields
<1> HIDE DEF new, tally, off
<1>5. /\ t \in Manager /\ t.known = s.known \cup new /\ t.votes = tally /\ t.off = off
      /\ t.orphan = s.orphan /\ t.immature = s.immature
  BY <1>1, <1>3, <1>4 DEF Manager
<1> HIDE DEF t
<1>6. ASSUME NEW i \in Item, i \in new PROVE ItemSound(t, i)
  <2>1. s.orphan[i] # None => s.orphan[i].item = i
    BY DEF Sound, ItemSound
  <2> QED
    BY <1>4, <1>5, <1>6, <2>1 DEF ItemSound, NoVotes
<1>7. ASSUME NEW i \in Item, i \notin new PROVE ItemSound(t, i) /\ (Refused(s, i) => Refused(t, i))
  BY <1>4, <1>5, <1>7, SameItem DEF Sound
<1>8. Sound(t)
  BY <1>5, <1>6, <1>7 DEF Sound
<1>9. \A i \in s.known : Refused(s, i) => Refused(t, i)
  BY <1>1, <1>3, <1>7, Fields
<1> QED
  BY <1>2, <1>5, <1>8, <1>9, Fields

(* AddOrUpdateVote of votes that are taken: an orphan refused is refused   *)
(* again, since only newer votes are taken.                                *)
LEMMA VotesTaken ==
    ASSUME NEW s, Sound(s), NEW vote, DOMAIN vote \subseteq s.known,
           \A i \in DOMAIN vote : vote[i] \in Vote /\ vote[i].item = i /\ Takes(s, vote[i])
    PROVE  LET t == AddOrUpdateVote(s, vote)
           IN  /\ Sound(t) /\ \A i \in Item : Refused(s, i) => Refused(t, i)
               /\ t.known = s.known /\ t.orphan = s.orphan /\ t.immature = s.immature /\ t.seen = s.seen
               /\ \A i \in Item \ DOMAIN vote : t.votes[i] = s.votes[i]
<1> DEFINE D == DOMAIN vote
           tally == [i \in Item |-> IF i \in D THEN [s.votes[i] EXCEPT ![vote[i].mn] = vote[i]] ELSE s.votes[i]]
           off == [i \in Item |-> IF i \in D THEN s.off[i] \ {vote[i].mn} ELSE s.off[i]]
           t == [s EXCEPT !.votes = tally, !.off = off]
<1>1. s \in Manager
  BY DEF Sound
<1>2. AddOrUpdateVote(s, vote) = t
  BY <1>1 DEF AddOrUpdateVote, Manager
<1>3. \A i \in D : vote[i] \in Vote /\ vote[i].item = i /\ Takes(s, vote[i]) /\ vote[i].mn \in MN
  BY VoteFacts
<1>4. D \subseteq s.known /\ D \subseteq Item
  BY <1>1, Fields
<1> HIDE DEF D
<1>5. /\ tally \in [Item -> [MN -> Vote \cup {None}]] /\ off \in [Item -> SUBSET MN]
      /\ \A i \in Item \ D : tally[i] = s.votes[i] /\ off[i] = s.off[i]
      /\ \A i \in D : tally[i] = [s.votes[i] EXCEPT ![vote[i].mn] = vote[i]] /\ off[i] = s.off[i] \ {vote[i].mn}
  BY <1>1, <1>3, <1>4, Fields
<1> HIDE DEF tally, off
<1>6. /\ t \in Manager /\ t.known = s.known /\ t.votes = tally /\ t.off = off
      /\ t.orphan = s.orphan /\ t.immature = s.immature /\ t.seen = s.seen
  BY <1>1, <1>5 DEF Manager
<1> HIDE DEF t
<1>7. ASSUME NEW i \in Item, i \notin D PROVE ItemSound(t, i) /\ (Refused(s, i) => Refused(t, i))
  BY <1>5, <1>6, <1>7, SameItem DEF Sound
<1>8. ASSUME NEW i \in D PROVE ItemSound(t, i) /\ (Refused(s, i) => Refused(t, i))
  <2>1. PICK v \in Vote : v = vote[i]
    BY <1>3
  <2>2. v.item = i /\ Takes(s, v) /\ v.mn \in MN /\ v.time \in Nat /\ v # None /\ UpdateMin \in Nat
    BY <1>3, <2>1, VoteFacts
  <2>3. i \in Item /\ i \in s.known
    BY <1>4
  <2>4. s.votes[i] \in [MN -> Vote \cup {None}] /\ ItemSound(s, i)
    BY <1>1, <2>3, Fields DEF Sound
  <2>5. t.votes[i] = [s.votes[i] EXCEPT ![v.mn] = v] /\ t.off[i] = s.off[i] \ {v.mn}
    BY <1>5, <1>6, <2>1
  <2>6. t.votes[i][v.mn] = v /\ \A m \in MN \ {v.mn} : t.votes[i][m] = s.votes[i][m]
    BY <2>2, <2>4, <2>5
  <2>7. ItemSound(t, i)
    BY <1>6, <2>2, <2>3, <2>4, <2>5, <2>6 DEF ItemSound
  <2>8. ASSUME Refused(s, i), t.orphan[i] # None PROVE ~Takes(t, t.orphan[i])
    <3>1. PICK o \in Vote : o = s.orphan[i] /\ o = t.orphan[i] /\ o.item = i
      BY <1>1, <1>6, <2>3, <2>4, <2>8, Fields DEF ItemSound
    <3>2. o.mn \in MN /\ o.time \in Nat /\ ~Takes(s, o)
      BY <2>8, <3>1, VoteFacts DEF Refused
    <3>3. CASE o.mn # v.mn
      BY <2>6, <3>1, <3>2, <3>3 DEF Takes
    <3>4. CASE o.mn = v.mn
      <4>1. PICK w \in Vote \cup {None} : w = s.votes[i][v.mn]
        BY <2>2, <2>4
      <4>2. w # None /\ ~(o.time >= w.time + UpdateMin)
        BY <3>1, <3>2, <3>4, <4>1 DEF Takes
      <4>3. v.time >= w.time + UpdateMin
        BY <2>2, <4>1, <4>2 DEF Takes
      <4>4. w.time \in Nat
        BY <4>2, VoteFacts
      <4>5. ~(o.time >= v.time + UpdateMin)
        BY <2>2, <3>2, <4>2, <4>3, <4>4
      <4> QED
        BY <2>2, <2>6, <3>1, <3>4, <4>5 DEF Takes
    <3> QED
      BY <3>3, <3>4
  <2> QED
    BY <2>7, <2>8 DEF Refused
<1>9. Sound(t)
  BY <1>6, <1>7, <1>8 DEF Sound
<1> QED
  BY <1>2, <1>5, <1>6, <1>7, <1>8, <1>9 DEF D

(* A manager that differs in the rest only.                                *)
LEMMA SameVotes ==
    ASSUME NEW s, Sound(s), NEW t \in Manager,
           t.votes = s.votes, t.off = s.off, t.orphan = s.orphan, s.known \subseteq t.known
    PROVE  Sound(t) /\ \A i \in Item : Refused(s, i) => Refused(t, i)
<1>1. \A i \in Item : ItemSound(t, i) /\ (Refused(s, i) => Refused(t, i))
  <2> TAKE i \in Item
  <2> QED
    BY SameItem DEF Sound
<1> QED
  BY <1>1 DEF Sound

(* CheckOrphanVotes leaves no orphan that would be taken.                  *)
LEMMA OrphansChecked ==
    ASSUME NEW s, Sound(s)
    PROVE  /\ Sound(CheckOrphanVotes(s)) /\ Settled(CheckOrphanVotes(s), {})
           /\ CheckOrphanVotes(s).known = s.known
<1> DEFINE O == {i \in Item : Orphaned(s, i)}
           vote == [i \in O |-> s.orphan[i]]
           u == AddOrUpdateVote(s, vote)
           orphan == [i \in Item |-> IF i \in O THEN None ELSE u.orphan[i]]
           t == [u EXCEPT !.orphan = orphan]
<1>1. s \in Manager /\ \A i \in Item : ItemSound(s, i)
  BY DEF Sound
<1>2. DOMAIN vote = O /\ O \subseteq s.known /\ O \subseteq Item
  BY DEF Orphaned
<1>3. \A i \in O : vote[i] = s.orphan[i] /\ s.orphan[i] # None /\ Takes(s, s.orphan[i])
  BY DEF Orphaned
<1>4. \A i \in Item \ O : i \in s.known => Refused(s, i)
  BY DEF Orphaned, Refused
<1>5. CheckOrphanVotes(s) = t
  BY DEF CheckOrphanVotes, SettleOrphans
<1> HIDE DEF O, vote
<1>6. \A i \in O : vote[i] \in Vote /\ vote[i].item = i /\ Takes(s, vote[i])
  BY <1>1, <1>2, <1>3, Fields DEF ItemSound
<1>7. /\ Sound(u) /\ \A i \in Item : Refused(s, i) => Refused(u, i)
      /\ u.known = s.known /\ u.orphan = s.orphan
  BY <1>2, <1>6, VotesTaken
<1> HIDE DEF u
<1>8. u \in Manager /\ \A i \in Item : ItemSound(u, i)
  BY <1>7 DEF Sound
<1>9. /\ orphan \in [Item -> Vote \cup {None}]
      /\ \A i \in Item : orphan[i] = IF i \in O THEN None ELSE u.orphan[i]
  BY <1>8, Fields
<1> HIDE DEF orphan
<1>10. /\ t \in Manager /\ t.known = u.known /\ t.votes = u.votes /\ t.off = u.off /\ t.orphan = orphan
  BY <1>8, <1>9 DEF Manager
<1> HIDE DEF t
<1>11. ASSUME NEW i \in O PROVE ItemSound(t, i) /\ Refused(t, i)
  BY <1>2, <1>8, <1>9, <1>10, <1>11 DEF ItemSound, Refused
<1>12. ASSUME NEW i \in Item, i \notin O PROVE ItemSound(t, i) /\ (Refused(u, i) => Refused(t, i))
  BY <1>8, <1>9, <1>10, <1>12, SameItem
<1>13. Sound(t)
  BY <1>10, <1>11, <1>12 DEF Sound
<1>14. Settled(t, {})
  BY <1>1, <1>4, <1>7, <1>10, <1>11, <1>12, Fields DEF Settled
<1> QED
  BY <1>5, <1>7, <1>10, <1>13, <1>14

(* CleanAndRemove marks only votes that are there.                         *)
LEMMA CleanFacts ==
    ASSUME NEW s, Sound(s), NEW T
    PROVE  LET t == CleanAndRemove(s, T)
           IN  /\ Sound(t) /\ \A i \in Item : Refused(s, i) => Refused(t, i)
               /\ t.known = s.known /\ t.votes = s.votes /\ t.orphan = s.orphan /\ t.immature = s.immature
<1> DEFINE off == [i \in Item |-> IF i \in T \cap s.known THEN {m \in MN \ listed : s.votes[i][m] # None} ELSE s.off[i]]
           t == [s EXCEPT !.off = off]
<1>1. s \in Manager /\ \A i \in Item : ItemSound(s, i)
  BY DEF Sound
<1>2. CleanAndRemove(s, T) = t
  BY <1>1 DEF CleanAndRemove, Manager
<1>3. off \in [Item -> SUBSET MN] /\ \A i \in Item : off[i] \subseteq {m \in MN : s.votes[i][m] # None}
  <2>1. ASSUME NEW i \in Item PROVE off[i] \subseteq {m \in MN : s.votes[i][m] # None}
    BY <1>1 DEF ItemSound
  <2> QED
    BY <1>1, <2>1, Fields
<1> HIDE DEF off
<1>4. /\ t \in Manager /\ t.known = s.known /\ t.votes = s.votes /\ t.off = off
      /\ t.orphan = s.orphan /\ t.immature = s.immature
  BY <1>1, <1>3 DEF Manager
<1> HIDE DEF t
<1>5. ASSUME NEW i \in Item PROVE ItemSound(t, i) /\ (Refused(s, i) => Refused(t, i))
  <2>1. ItemSound(s, i) /\ t.off[i] \subseteq {m \in MN : t.votes[i][m] # None}
    BY <1>1, <1>3, <1>4
  <2>2. ItemSound(t, i)
    BY <1>4, <2>1 DEF ItemSound
  <2>3. Refused(s, i) => Refused(t, i)
    BY <1>4 DEF Refused, Takes
  <2> QED
    BY <2>2, <2>3
<1> QED
  BY <1>2, <1>4, <1>5 DEF Sound

(* The automatic votes, of which only those are given that are taken.      *)
LEMMA CheckAndVoteFacts ==
    ASSUME NEW s, Sound(s), NEW T, T \subseteq s.known \cap Fin
    PROVE  LET t == CheckAndVote(s, T)
           IN  /\ Sound(t) /\ \A i \in Item : Refused(s, i) => Refused(t, i)
               /\ t.known = s.known /\ t.orphan = s.orphan /\ t.immature = s.immature
<1> DEFINE c == CleanAndRemove(s, Proposal)
           D == {b \in T : Submits(c, b)}
           vote == [b \in D |-> FinVote(b)]
           u == AddOrUpdateVote(c, vote)
           mine == {FinVote(b) : b \in D}
           t == [u EXCEPT !.seen = u.seen \cup mine]
<1>1. Sound(c) /\ (\A i \in Item : Refused(s, i) => Refused(c, i)) /\ c.known = s.known /\ c.orphan = s.orphan
      /\ c.immature = s.immature
  BY CleanFacts
<1>2. CASE T = {}
  BY <1>2 DEF CheckAndVote
<1>3. CASE T # {}
  <2>1. CheckAndVote(s, T) = t
    BY <1>3 DEF CheckAndVote
  <2>2. DOMAIN vote = D /\ D \subseteq T
    OBVIOUS
  <2>3. \A b \in D : vote[b] = FinVote(b) /\ Takes(c, FinVote(b))
    BY DEF Submits
  <2> HIDE DEF c, D, vote
  <2>4. \A b \in D : FinVote(b) \in Vote /\ FinVote(b).item = b
    BY <2>2, BudgetAssumption DEF FinVote, Vote, Item
  <2>5. /\ Sound(u) /\ \A i \in Item : Refused(c, i) => Refused(u, i)
        /\ u.known = c.known /\ u.orphan = c.orphan /\ u.immature = c.immature
    BY <1>1, <2>2, <2>3, <2>4, VotesTaken
  <2>6. mine \subseteq Vote
    BY <2>4
  <2> HIDE DEF u, mine
  <2>7. u \in Manager
    BY <2>5 DEF Sound
  <2>8. /\ t \in Manager /\ t.known = u.known /\ t.votes = u.votes /\ t.off = u.off /\ t.orphan = u.orphan
        /\ t.immature = u.immature
    BY <2>6, <2>7 DEF Manager
  <2> HIDE DEF t
  <2>9. Sound(t) /\ \A i \in Item : Refused(u, i) => Refused(t, i)
    BY <2>5, <2>8, SameVotes
  <2> QED
    BY <1>1, <2>1, <2>5, <2>8, <2>9
<1> QED
  BY <1>2, <1>3

(* CheckAndRemove copies the items it keeps with their votes.              *)
LEMMA KeepFacts ==
    ASSUME NEW s, Sound(s), NEW K, K \subseteq s.known
    PROVE  LET t == Keep(s, K)
           IN  /\ Sound(t) /\ \A i \in K : Refused(s, i) => Refused(t, i)
               /\ t.known = K /\ t.immature = s.immature
<1> DEFINE tally == [i \in Item |-> IF i \in K THEN s.votes[i] ELSE NoVotes]
           off == [i \in Item |-> IF i \in K THEN s.off[i] ELSE {}]
           t == [s EXCEPT !.known = K, !.votes = tally, !.off = off]
<1>1. s \in Manager /\ \A i \in Item : ItemSound(s, i)
  BY DEF Sound
<1>2. Keep(s, K) = t
  BY <1>1 DEF Keep, Manager
<1>3. NoVotes \in [MN -> Vote \cup {None}] /\ K \subseteq Item
  BY <1>1, Fields DEF NoVotes
<1>4. /\ tally \in [Item -> [MN -> Vote \cup {None}]] /\ off \in [Item -> SUBSET MN]
      /\ \A i \in Item : IF i \in K THEN tally[i] = s.votes[i] /\ off[i] = s.off[i]
                           ELSE tally[i] = NoVotes /\ off[i] = {}
  BY <1>1, <1>3, Fields
<1> HIDE DEF tally, off
<1>5. /\ t \in Manager /\ t.known = K /\ t.votes = tally /\ t.off = off
      /\ t.orphan = s.orphan /\ t.immature = s.immature
  BY <1>1, <1>3, <1>4 DEF Manager
<1> HIDE DEF t
<1>6. ASSUME NEW i \in Item, i \in K PROVE ItemSound(t, i) /\ (Refused(s, i) => Refused(t, i))
  BY <1>1, <1>4, <1>5, <1>6, SameItem
<1>7. ASSUME NEW i \in Item, i \notin K PROVE ItemSound(t, i)
  <2>1. s.orphan[i] # None => s.orphan[i].item = i
    BY <1>1 DEF ItemSound
  <2> QED
    BY <1>4, <1>5, <1>7, <2>1 DEF ItemSound, NoVotes
<1>8. Sound(t)
  BY <1>5, <1>6, <1>7 DEF Sound
<1> QED
  BY <1>2, <1>3, <1>5, <1>6, <1>8

(* CheckAndRemove: the votes given, then the copying.                      *)
LEMMA CheckAndRemoveFacts ==
    ASSUME NEW s, Sound(s), NEW R \in SUBSET Fin
    PROVE  LET t == CheckAndRemove(s, R)
           IN  /\ Sound(t) /\ t.known \subseteq s.known
               /\ \A i \in t.known : Refused(s, i) => Refused(t, i)
<1> DEFINE v == Voted(s, R)
           K == {i \in v.known : IsValid(v, i)}
<1>1. /\ Sound(v) /\ (\A i \in Item : Refused(s, i) => Refused(v, i)) /\ v.known = s.known
  BY CheckAndVoteFacts DEF Voted
<1>2. CheckAndRemove(s, R) = Keep(v, K)
  BY DEF CheckAndRemove
<1>3. K \subseteq v.known /\ v.known \subseteq Item
  BY <1>1, Fields DEF Sound
<1> HIDE DEF v, K
<1> QED
  BY <1>1, <1>2, <1>3, KeepFacts

(* The matured items are added, others stay as they are.                   *)
LEMMA SettleImmatureFacts ==
    ASSUME NEW s, Sound(s)
    PROVE  LET t == SettleImmature(s)
           IN  /\ Sound(t) /\ s.known \subseteq t.known
               /\ \A i \in s.known : Refused(s, i) => Refused(t, i)
<1> DEFINE ripe == {i \in s.immature : IsBudgetCollateralValid(i)}
           u == Add(s, ripe)
           t == [u EXCEPT !.immature = u.immature \ ripe]
<1>1. ripe \subseteq Item /\ s.known \subseteq Item
  BY Fields DEF Sound
<1>2. SettleImmature(s) = t
  BY DEF SettleImmature
<1> HIDE DEF ripe
<1>3. Sound(u) /\ s.known \subseteq u.known /\ \A i \in s.known : Refused(s, i) => Refused(u, i)
  BY <1>1, AddFacts
<1> HIDE DEF u
<1>4. t \in Manager /\ t.known = u.known /\ t.votes = u.votes /\ t.off = u.off /\ t.orphan = u.orphan
  BY <1>3 DEF Sound, Manager
<1> HIDE DEF t
<1>5. Sound(t) /\ \A i \in Item : Refused(u, i) => Refused(t, i)
  BY <1>3, <1>4, SameVotes
<1> QED
  BY <1>1, <1>2, <1>3, <1>4, <1>5

-----------------------------------------------------------------------------
(* Induction over the numbers up to L.                                     *)
LEMMA Induction ==
    ASSUME NEW L \in Nat, NEW T, 0 \in T, \A n \in 1..L : n - 1 \in T => n \in T
    PROVE  \A n \in 0..L : n \in T
<1> DEFINE Bad == {n \in 0..L : n \notin T}
<1> SUFFICES ASSUME Bad # {} PROVE FALSE
  OBVIOUS
<1>1. PICK k \in Bad : \A j \in Bad : k <= j
  <2>1. Bad \subseteq Nat
    OBVIOUS
  <2> HIDE DEF Bad
  <2> QED
    BY <2>1, LeastNatural
<1>2. k \in 1..L /\ k - 1 \in 0..L /\ ~ (k <= k - 1)
  OBVIOUS
<1> QED
  BY <1>1, <1>2

(* The recursion of Asked, whose function exists.                          *)
Answer(above, h, pay, hist, n, last) ==
    IF n = 0 THEN [status |-> "InValid", history |-> hist]
    ELSE IF last.status = "Valid" \/ FinSeq[n] \notin above \/ ~Covers(FinSeq[n], h) THEN last
    ELSE BudgetVerdict(FinSeq[n], h, pay, last.history)

(* Each answer is made from the one before.                                *)
LEMMA AskedUnfolds ==
    ASSUME NEW above, NEW h, NEW pay, NEW hist, Len(FinSeq) \in Nat
    PROVE  \A n \in 0..Len(FinSeq) : Asked(above, h, pay, hist)[n] =
              Answer(above, h, pay, hist, n, Asked(above, h, pay, hist)[n - 1])
<1> DEFINE L == Len(FinSeq)
           Fills(f, k) == f = [n \in 0..k |-> Answer(above, h, pay, hist, n, f[n - 1])]
           T == {k \in 0..L : \E f : Fills(f, k)}
<1>1. \A x, y : Answer(above, h, pay, hist, 0, x) = Answer(above, h, pay, hist, 0, y)
  BY DEF Answer
<1>2. 0 \in T
  <2> DEFINE g == [n \in 0..0 |-> Answer(above, h, pay, hist, 0, 0)]
  <2>1. Fills(g, 0)
    BY <1>1
  <2> HIDE DEF Fills
  <2> QED
    BY <2>1
<1>3. ASSUME NEW k \in 1..L, k - 1 \in T PROVE k \in T
  <2>1. PICK f : Fills(f, k - 1)
    BY <1>3
  <2> DEFINE g == [n \in 0..k |-> IF n = k THEN Answer(above, h, pay, hist, k, f[k - 1]) ELSE f[n]]
  <2>2. Fills(g, k)
    <3>1. /\ \A n \in 0..(k - 1) : g[n] = f[n] /\ f[n] = Answer(above, h, pay, hist, n, f[n - 1])
          /\ g[k] = Answer(above, h, pay, hist, k, f[k - 1])
      BY <2>1
    <3>2. g = [n \in 0..k |-> g[n]]
      OBVIOUS
    <3> HIDE DEF g
    <3>3. ASSUME NEW n \in 0..k PROVE g[n] = Answer(above, h, pay, hist, n, g[n - 1])
      <4>1. CASE n = 0
        <5>1. g[0] = Answer(above, h, pay, hist, 0, f[0 - 1])
          BY <3>1
        <5> QED
          BY <1>1, <4>1, <5>1
      <4>2. CASE n # 0
        <5>1. n - 1 \in 0..(k - 1)
          BY <4>2
        <5>2. g[n] = Answer(above, h, pay, hist, n, f[n - 1])
          BY <3>1
        <5> QED
          BY <3>1, <5>1, <5>2
      <4> QED
        BY <4>1, <4>2
    <3> QED
      BY <3>2, <3>3
  <2> HIDE DEF Fills
  <2> QED
    BY <2>2
<1>4. L \in 0..L
  OBVIOUS
<1>5. L \in T
  <2> HIDE DEF T
  <2> QED
    BY <1>2, <1>3, <1>4, Induction
<1>6. PICK f : Fills(f, L)
  BY <1>5
<1>7. Asked(above, h, pay, hist) = CHOOSE g : Fills(g, L)
  BY DEF Asked, Answer
<1>8. Fills(CHOOSE g : Fills(g, L), L)
  <2> HIDE DEF Fills
  <2> QED
    BY <1>6
<1>9. PICK g : g = Asked(above, h, pay, hist) /\ Fills(g, L)
  BY <1>7, <1>8
<1> QED
  BY <1>9

(* One budget's answer to a block at a height it covers: never InValid to  *)
(* its own payment, Valid if that is not known as paid; and the history    *)
(* stays well formed, only forgetting unless the answer is Valid.          *)
Verdicts == [status : {"InValid", "DoublePayment", "Valid"}, history : [Proposal -> Height]]

LEMMA VerdictFacts ==
    ASSUME NEW b \in Fin, NEW h \in Height, Covers(b, h), NEW pay, NEW hist \in [Proposal -> Height]
    PROVE  LET r == BudgetVerdict(b, h, pay, hist)
           IN  /\ Payment(b, h) \in Proposal /\ r \in Verdicts
               /\ r.status # "Valid" => \A p \in Proposal : r.history[p] \in {hist[p], 0}
               /\ pay = Payment(b, h) => /\ r.status # "InValid"
                                         /\ ~Covers(b, hist[pay]) => r.status = "Valid"
<1> DEFINE recent == Forget(hist, b)
<1>1. MaxTip \in Nat /\ BlockStart[b] \in Nat /\ Payments[b] \in Seq(Proposal) /\ Len(Payments[b]) \in Nat
  BY BudgetAssumption
<1>2. Payment(b, h) \in Proposal
  <2>1. h \in Nat /\ h - BlockStart[b] + 1 \in 1..Len(Payments[b])
    BY <1>1 DEF Covers, BlockEnd, Height
  <2> QED
    BY <1>1, <2>1 DEF Payment
<1>3. recent \in [Proposal -> Height] /\ \A p \in Proposal : recent[p] = IF Covers(b, hist[p]) THEN hist[p] ELSE 0
  BY <1>1 DEF Forget, Height
<1> HIDE DEF recent
<1>4. CASE pay # Payment(b, h)
  BY <1>2, <1>4 DEF BudgetVerdict, Verdicts
<1>5. CASE pay = Payment(b, h)
  <2>1. BudgetVerdict(b, h, pay, hist) =
           IF recent[pay] # 0 THEN [status |-> "DoublePayment", history |-> recent]
           ELSE [status |-> "Valid", history |-> [recent EXCEPT ![pay] = h]]
    BY <1>5 DEF BudgetVerdict, recent
  <2>2. ~Covers(b, hist[pay]) => recent[pay] = 0
    BY <1>2, <1>3, <1>5
  <2>3. [recent EXCEPT ![pay] = h] \in [Proposal -> Height]
    BY <1>2, <1>3, <1>5
  <2> QED
    BY <1>2, <1>3, <1>5, <2>1, <2>2, <2>3 DEF Verdicts
<1> QED
  BY <1>4, <1>5

(* Every answer has a status and a good history.                           *)
LEMMA AskedTyped ==
    ASSUME NEW above \in SUBSET Fin, NEW h \in Height, NEW pay, NEW hist \in [Proposal -> Height]
    PROVE  \A n \in 0..Len(FinSeq) : Asked(above, h, pay, hist)[n] \in Verdicts
<1> DEFINE L == Len(FinSeq)
           T == {n \in 0..L : Asked(above, h, pay, hist)[n] \in Verdicts}
<1>1. L \in Nat
  BY BudgetAssumption
<1>2. PICK asked : asked = Asked(above, h, pay, hist) /\ \A n \in 0..L : asked[n] = Answer(above, h, pay, hist, n, asked[n - 1])
  BY <1>1, AskedUnfolds
<1>3. 0 \in T
  BY <1>1, <1>2 DEF Answer, Verdicts
<1>4. ASSUME NEW n \in 1..L, n - 1 \in T PROVE n \in T
  <2>1. asked[n - 1] \in Verdicts /\ asked[n - 1].history \in [Proposal -> Height]
    BY <1>2, <1>4 DEF Verdicts
  <2>2. asked[n] = Answer(above, h, pay, hist, n, asked[n - 1]) /\ n # 0 /\ n \in 0..L
    BY <1>1, <1>2
  <2>3. asked[n] \in Verdicts
    BY <2>1, <2>2, VerdictFacts DEF Answer
  <2> QED
    BY <1>2, <2>2, <2>3
<1> HIDE DEF T
<1>5. \A n \in 0..L : n \in T
  BY <1>1, <1>3, <1>4, Induction
<1> QED
  BY <1>5 DEF T

(* The budgets are asked until one is satisfied, so the block that pays    *)
(* what one of them says is taken, ...                                     *)
LEMMA AskedValid ==
    ASSUME NEW above \in SUBSET Fin, NEW h \in Height, NEW hist \in [Proposal -> Height],
           NEW k \in 1..Len(FinSeq), FinSeq[k] \in above, Covers(FinSeq[k], h), NEW pay, pay = Payment(FinSeq[k], h),
           \A b \in above : Covers(b, h) => ~Covers(b, hist[pay])
    PROVE  Asked(above, h, pay, hist)[Len(FinSeq)].status = "Valid"
<1> DEFINE L == Len(FinSeq)
           Open(n) == \/ Asked(above, h, pay, hist)[n].status = "Valid"
                      \/ n < k /\ Asked(above, h, pay, hist)[n].history[pay] \in {hist[pay], 0}
           T == {n \in 0..L : Open(n)}
<1>1. L \in Nat /\ \A b \in above : BlockStart[b] \in Nat \ {0}
  <2>1. FinSeq \in Seq(Fin) /\ \A b \in Fin : BlockStart[b] \in Nat \ {0}
    BY BudgetAssumption
  <2> QED
    BY <2>1
<1>2. PICK asked : /\ asked = Asked(above, h, pay, hist)
                   /\ \A n \in 0..L : /\ asked[n] = Answer(above, h, pay, hist, n, asked[n - 1])
                                      /\ asked[n] \in Verdicts
  BY <1>1, AskedUnfolds, AskedTyped
<1>3. 0 \in T
  BY <1>1, <1>2 DEF Answer
<1>4. ASSUME NEW n \in 1..L, n - 1 \in T PROVE n \in T
  <2>1. n - 1 \in 0..L /\ n \in 0..L /\ n # 0
    BY <1>1
  <2>2. PICK last \in Verdicts : last = asked[n - 1]
    BY <1>2, <2>1
  <2>3. last.status = "Valid" \/ (n - 1 < k /\ last.history[pay] \in {hist[pay], 0})
    BY <1>2, <1>4, <2>2
  <2>4. PICK now \in Verdicts : now = asked[n] /\ now = Answer(above, h, pay, hist, n, last)
    BY <1>2, <2>1, <2>2
  <2>5. SUFFICES now.status = "Valid" \/ (n < k /\ now.history[pay] \in {hist[pay], 0})
    BY <1>2, <2>1, <2>4
  <2>6. CASE last.status = "Valid"
    BY <2>1, <2>4, <2>6 DEF Answer
  <2>7. CASE last.status # "Valid" /\ (FinSeq[n] \notin above \/ ~Covers(FinSeq[n], h))
    <3>1. now = last /\ n # k
      BY <2>1, <2>4, <2>7 DEF Answer
    <3> QED
      BY <2>3, <2>7, <3>1
  <2>8. CASE last.status # "Valid" /\ FinSeq[n] \in above /\ Covers(FinSeq[n], h)
    <3>1. PICK b \in above : b = FinSeq[n]
      BY <2>8
    <3>2. now = BudgetVerdict(b, h, pay, last.history) /\ last.history \in [Proposal -> Height]
      BY <2>1, <2>4, <2>8, <3>1 DEF Answer, Verdicts
    <3>3. ~Covers(b, last.history[pay])
      <4>1. ~Covers(b, hist[pay]) /\ ~Covers(b, 0)
        BY <1>1, <2>8, <3>1 DEF Covers
      <4> QED
        BY <2>3, <2>8, <4>1
    <3>4. pay \in Proposal
      BY VerdictFacts
    <3>5. /\ now.status # "Valid" => now.history[pay] \in {last.history[pay], 0}
          /\ pay = Payment(b, h) => now.status = "Valid"
      BY <2>8, <3>1, <3>2, <3>3, <3>4, VerdictFacts
    <3>6. n = k => now.status = "Valid"
      BY <3>1, <3>5
    <3> QED
      BY <2>3, <2>8, <3>5, <3>6
  <2> QED
    BY <2>6, <2>7, <2>8
<1> HIDE DEF T
<1>5. \A n \in 0..L : n \in T
  BY <1>1, <1>3, <1>4, Induction
<1>6. L \in T /\ k <= L
  BY <1>1, <1>5
<1> QED
  BY <1>6 DEF T

(* ... and if only one covers the height, it is not refused outright.      *)
LEMMA AskedKnown ==
    ASSUME NEW above \in SUBSET Fin, NEW h \in Height, NEW hist \in [Proposal -> Height],
           NEW k \in 1..Len(FinSeq), FinSeq[k] \in above, Covers(FinSeq[k], h), NEW pay, pay = Payment(FinSeq[k], h),
           \A b \in above : Covers(b, h) => b = FinSeq[k]
    PROVE  Asked(above, h, pay, hist)[Len(FinSeq)].status # "InValid"
<1> DEFINE L == Len(FinSeq)
           T == {n \in 0..L : n >= k => Asked(above, h, pay, hist)[n].status # "InValid"}
<1>1. L \in Nat
  BY BudgetAssumption
<1>2. PICK asked : /\ asked = Asked(above, h, pay, hist)
                   /\ \A n \in 0..L : /\ asked[n] = Answer(above, h, pay, hist, n, asked[n - 1])
                                      /\ asked[n] \in Verdicts
  BY <1>1, AskedUnfolds, AskedTyped
<1>3. 0 \in T
  BY <1>1
<1>4. ASSUME NEW n \in 1..L, n - 1 \in T PROVE n \in T
  <2>1. n - 1 \in 0..L /\ n \in 0..L /\ n # 0
    BY <1>1
  <2>2. PICK last \in Verdicts : last = asked[n - 1]
    BY <1>2, <2>1
  <2>3. PICK now \in Verdicts : now = asked[n] /\ now = Answer(above, h, pay, hist, n, last)
    BY <1>2, <2>1, <2>2
  <2>4. SUFFICES ASSUME n >= k PROVE now.status # "InValid"
    BY <1>2, <2>1, <2>3
  <2>5. CASE last.status = "Valid"
    BY <2>1, <2>3, <2>5 DEF Answer
  <2>6. CASE last.status # "Valid" /\ (FinSeq[n] \notin above \/ ~Covers(FinSeq[n], h))
    <3>1. now = last /\ n # k
      BY <2>1, <2>3, <2>6 DEF Answer
    <3>2. n - 1 >= k
      BY <2>4, <3>1
    <3> QED
      BY <1>2, <1>4, <2>2, <3>1, <3>2
  <2>7. CASE last.status # "Valid" /\ FinSeq[n] \in above /\ Covers(FinSeq[n], h)
    <3>1. now = BudgetVerdict(FinSeq[k], h, pay, last.history) /\ last.history \in [Proposal -> Height]
      BY <2>1, <2>3, <2>7 DEF Answer, Verdicts
    <3> QED
      BY <3>1, VerdictFacts
  <2> QED
    BY <2>5, <2>6, <2>7
<1> HIDE DEF T
<1>5. \A n \in 0..L : n \in T
  BY <1>1, <1>3, <1>4, Induction
<1>6. L \in T /\ k <= L
  BY <1>1, <1>5
<1> QED
  BY <1>6 DEF T

(* Counts are numbers, of no more than all masternodes.                    *)
LEMMA CountFacts ==
    ASSUME NEW s, NEW b
    PROVE  VoteCount(s, b) \in Nat /\ Cardinality(MN) \in Nat /\ VoteCount(s, b) <= Cardinality(MN)
<1>1. IsFiniteSet(MN)
  BY BudgetAssumption
<1>2. VoteCount(s, b) = Cardinality({m \in MN : s.votes[b][m] # None})
  BY DEF VoteCount
<1> QED
  BY <1>1, <1>2, FS_Subset, FS_CardinalityType

(* The highest count is one of the counts, or the least when there is none.*)
LEMMA HighestFacts ==
    ASSUME NEW s, NEW h, NEW least \in {-1, 0}
    PROVE  LET n == HighestCount(s, h, least)
           IN  /\ n \in Int /\ n >= least /\ \A b \in Covering(s, h) : n >= VoteCount(s, b)
               /\ n = least \/ \E b \in Covering(s, h) : n = VoteCount(s, b)
<1> DEFINE C == Covering(s, h)
           N == Cardinality(MN)
           Q(n) == n >= least /\ \A b \in C : n >= VoteCount(s, b)
           D == {least} \cup {VoteCount(s, b) : b \in C}
<1>1. \A b \in C : VoteCount(s, b) \in Nat /\ VoteCount(s, b) <= N
  BY CountFacts
<1>2. \E n \in D : Q(n)
  <2>1. CASE C = {}
    BY <2>1
  <2>2. CASE C # {}
    <3> DEFINE T == {N - VoteCount(s, b) : b \in C}
    <3>1. N \in Nat
      BY CountFacts
    <3>2. T # {} /\ T \subseteq Nat
      BY <1>1, <2>2, <3>1
    <3>3. PICK x \in T : \A y \in T : x <= y
      <4> HIDE DEF T
      <4> QED
        BY <3>2, LeastNatural
    <3>4. PICK b \in C : \A c \in C : N - VoteCount(s, b) <= N - VoteCount(s, c)
      BY <3>3
    <3>5. \A c \in C : VoteCount(s, b) >= VoteCount(s, c)
      BY <1>1, <3>1, <3>4
    <3>6. VoteCount(s, b) >= least
      BY <1>1
    <3> QED
      BY <3>5, <3>6
  <2> QED
    BY <2>1, <2>2
<1>3. HighestCount(s, h, least) = CHOOSE n \in D : Q(n)
  BY DEF HighestCount
<1>4. (CHOOSE n \in D : Q(n)) \in D /\ Q(CHOOSE n \in D : Q(n))
  <2> HIDE DEF Q, D
  <2> QED
    BY <1>2
<1>5. PICK n : n = HighestCount(s, h, least) /\ n \in D /\ Q(n)
  BY <1>3, <1>4
<1> QED
  BY <1>1, <1>5

(* A budget block: the payment is one of a budget with the most votes, and *)
(* that budget is asked.                                                   *)
LEMMA BestBudget ==
    ASSUME NEW s, NEW h, NEW mn, CountEnabled \in Nat, CountEnabled >= 10, IsBudgetPaymentBlock(s, h)
    PROVE  /\ ~ (HighestCount(s, h, 0) < CountEnabled \div 20)
           /\ \E k \in 1..Len(FinSeq) :
                 /\ FinSeq[k] \in Covering(s, h)
                 /\ VoteCount(s, FinSeq[k]) > HighestCount(s, h, 0) - CountEnabled \div 10
                 /\ FillBlockPayee(s, h, mn) = [budget |-> Payment(FinSeq[k], h), mn |-> mn]
<1>1. PICK x \in Int : x = HighestCount(s, h, 0)
  BY HighestFacts
<1>2. PICK y \in Int : y = HighestCount(s, h, -1)
  BY HighestFacts
<1>3. PICK d \in Int, e \in Int : /\ d = CountEnabled \div 20 /\ d >= 0
                                  /\ e = CountEnabled \div 10 /\ e > 0
  OBVIOUS
<1>4. y > d
  BY <1>2, <1>3 DEF IsBudgetPaymentBlock
<1>5. PICK b \in Covering(s, h) : y = VoteCount(s, b)
  BY <1>2, <1>3, <1>4, HighestFacts
<1>6. x >= y
  BY <1>1, <1>5, HighestFacts
<1>7. PICK c \in Covering(s, h) : x = VoteCount(s, c)
  BY <1>1, <1>3, <1>4, <1>6, HighestFacts
<1> DEFINE best == {i \in 1..Len(FinSeq) : FinSeq[i] \in Covering(s, h) /\ VoteCount(s, FinSeq[i]) = x}
           First(i) == \A j \in best : i <= j
           k == CHOOSE i \in best : First(i)
<1>8. \E i \in best : First(i)
  <2>1. best # {} /\ best \subseteq Nat
    BY <1>7 DEF Covering, Fin
  <2> HIDE DEF best
  <2> QED
    BY <2>1, LeastNatural
<1>9. k \in best
  <2> HIDE DEF best, First
  <2> QED
    BY <1>8
<1>10. FillBlockPayee(s, h, mn) = [budget |-> Payment(FinSeq[k], h), mn |-> mn]
  BY <1>1 DEF FillBlockPayee
<1>11. k \in 1..Len(FinSeq) /\ FinSeq[k] \in Covering(s, h) /\ VoteCount(s, FinSeq[k]) = x
  BY <1>9
<1> HIDE DEF k, best
<1>12. x > x - e /\ ~ (x < d)
  BY <1>3, <1>4, <1>6
<1> QED
  BY <1>1, <1>3, <1>10, <1>11, <1>12

(* CountEnabled is a number.                                               *)
LEMMA EnabledFacts ==
    ASSUME listed \subseteq MN
    PROVE  CountEnabled \in Nat
<1>1. IsFiniteSet(MN) /\ Others \in Nat
  BY BudgetAssumption
<1>2. Cardinality(listed) \in Nat
  BY <1>1, FS_Subset, FS_CardinalityType
<1> QED
  BY <1>1, <1>2 DEF CountEnabled

(* IsTransactionValid of the block FillBlockPayee makes.                   *)
LEMMA OwnBlock ==
    ASSUME CountEnabled \in Nat, CountEnabled >= 10,
           NEW s, s.known \subseteq Item, NEW h \in Height, NEW mn, IsBudgetPaymentBlock(s, h)
    PROVE  /\ FillBlockPayee(s, h, mn).mn = mn /\ FillBlockPayee(s, h, mn).budget \in Proposal
           /\ \A hist \in [Proposal -> Height] :
                 LET pay == FillBlockPayee(s, h, mn).budget
                     verdict == IsTransactionValid(s, h, pay, hist)
                 IN  /\ verdict.history \in [Proposal -> Height]
                     /\ (\A b \in Covering(s, h) : ~Covers(b, hist[pay])) => verdict.status = "Valid"
                     /\ Cardinality(Covering(s, h)) = 1 => verdict.status # "InValid"
<1> DEFINE above == {b \in Fin \cap s.known : VoteCount(s, b) > HighestCount(s, h, 0) - CountEnabled \div 10}
<1>1. PICK k \in 1..Len(FinSeq) :
          /\ FinSeq[k] \in Covering(s, h)
          /\ VoteCount(s, FinSeq[k]) > HighestCount(s, h, 0) - CountEnabled \div 10
          /\ FillBlockPayee(s, h, mn) = [budget |-> Payment(FinSeq[k], h), mn |-> mn]
  BY BestBudget
<1>2. PICK pay : pay = Payment(FinSeq[k], h) /\ pay = FillBlockPayee(s, h, mn).budget
  BY <1>1
<1>3. FinSeq[k] \in above /\ FinSeq[k] \in Fin /\ Covers(FinSeq[k], h) /\ above \subseteq Fin
  BY <1>1 DEF Covering
<1>4. \A b \in above : Covers(b, h) => b \in Covering(s, h)
  BY DEF Covering
<1>5. ASSUME NEW hist \in [Proposal -> Height]
      PROVE  IsTransactionValid(s, h, pay, hist) = Asked(above, h, pay, hist)[Len(FinSeq)]
  <2>1. ~ (HighestCount(s, h, 0) < CountEnabled \div 20)
    BY BestBudget
  <2>2. above # {}
    BY <1>3
  <2> QED
    BY <2>1, <2>2 DEF IsTransactionValid, Verdict
<1> HIDE DEF above
<1>6. pay \in Proposal
  <2>1. [p \in Proposal |-> 0] \in [Proposal -> Height]
    BY BudgetAssumption DEF Height
  <2> QED
    BY <1>2, <1>3, <2>1, VerdictFacts
<1>7. ASSUME NEW hist \in [Proposal -> Height]
      PROVE  LET verdict == Asked(above, h, pay, hist)[Len(FinSeq)]
             IN  /\ verdict.history \in [Proposal -> Height]
                 /\ (\A b \in Covering(s, h) : ~Covers(b, hist[pay])) => verdict.status = "Valid"
                 /\ Cardinality(Covering(s, h)) = 1 => verdict.status # "InValid"
  <2>1. Asked(above, h, pay, hist)[Len(FinSeq)].history \in [Proposal -> Height]
    <3>1. Len(FinSeq) \in 0..Len(FinSeq)
      BY BudgetAssumption
    <3>2. Asked(above, h, pay, hist)[Len(FinSeq)] \in Verdicts
      BY <1>3, <3>1, AskedTyped
    <3> QED
      BY <3>2 DEF Verdicts
  <2>2. ASSUME \A b \in Covering(s, h) : ~Covers(b, hist[pay])
        PROVE  Asked(above, h, pay, hist)[Len(FinSeq)].status = "Valid"
    BY <1>2, <1>3, <1>4, <2>2, AskedValid
  <2>3. ASSUME Cardinality(Covering(s, h)) = 1
        PROVE  Asked(above, h, pay, hist)[Len(FinSeq)].status # "InValid"
    <3>1. IsFiniteSet(Covering(s, h))
      <4>1. FinSeq \in Surjection(1..Len(FinSeq), Fin) /\ Len(FinSeq) \in Nat
        <5>1. FinSeq \in Seq(Fin)
          BY BudgetAssumption
        <5>2. FinSeq \in [1..Len(FinSeq) -> Fin] /\ Len(FinSeq) \in Nat
          BY <5>1
        <5> QED
          BY <5>2 DEF Surjection, Fin
      <4>2. IsFiniteSet(1..Len(FinSeq))
        <5>1. PICK n \in Nat : n = Len(FinSeq)
          BY <4>1
        <5>2. 1 \in Int /\ n \in Int
          OBVIOUS
        <5> QED
          BY <5>1, <5>2, FS_Interval
      <4>3. IsFiniteSet(Fin)
        BY <4>1, <4>2, FS_Surjection
      <4> QED
        BY <4>3, FS_Subset DEF Covering
    <3>2. PICK b : Covering(s, h) = {b}
      BY <2>3, <3>1, FS_Singleton
    <3>3. \A c \in above : Covers(c, h) => c = FinSeq[k]
      BY <1>1, <1>4, <3>2
    <3> QED
      BY <1>2, <1>3, <3>3, AskedKnown
  <2> QED
    BY <2>1, <2>2, <2>3
<1>8. FillBlockPayee(s, h, mn).mn = mn
  BY <1>1
<1> QED
  BY <1>2, <1>5, <1>6, <1>7, <1>8

(* The property, from the types alone.                                     *)
LEMMA Accepted ==
    ASSUME bm.known \subseteq Item, history \in [Proposal -> Height], listed \subseteq MN,
           tip \in FirstTip..MaxTip
    PROVE  BudgetBlockAccepted
<1>1. CountEnabled \in Nat
  BY EnabledFacts
<1>2. tip + 1 \in Height
  BY BudgetAssumption DEF Height
<1>3. PICK h \in Height : h = tip + 1
  BY <1>2
<1> DEFINE block(mn) == FillBlockPayee(bm, h, mn)
           Checked(mn, hist) == IsBlockPayeeValid(bm, h, block(mn), hist)
           paid(mn) == block(mn).budget # None /\ \E b \in Covering(bm, h) : Covers(b, history[block(mn).budget])
<1> SUFFICES ASSUME NEW mn \in BOOLEAN, CountEnabled >= 10
             PROVE  /\ ~paid(mn) => Checked(mn, history).ok
                    /\ mn /\ Cardinality(Covering(bm, h)) = 1 =>
                          Checked(mn, history).ok /\ Checked(mn, Checked(mn, history).history).ok
  BY <1>3 DEF BudgetBlockAccepted
<1>4. CASE ~IsBudgetPaymentBlock(bm, h)
  BY <1>4 DEF IsBlockPayeeValid, FillBlockPayee
<1>5. CASE IsBudgetPaymentBlock(bm, h)
  <2>1. PICK pay \in Proposal : pay = block(mn).budget
    BY <1>1, <1>5, OwnBlock
  <2>2. block(mn).mn = mn
    BY <1>1, <1>5, OwnBlock
  <2>3. ASSUME NEW hist \in [Proposal -> Height]
        PROVE  /\ Checked(mn, hist).history \in [Proposal -> Height]
               /\ (\A b \in Covering(bm, h) : ~Covers(b, hist[pay])) => Checked(mn, hist).ok
               /\ mn /\ Cardinality(Covering(bm, h)) = 1 => Checked(mn, hist).ok
    <3>1. PICK verdict : verdict = IsTransactionValid(bm, h, pay, hist)
      OBVIOUS
    <3>2. /\ verdict.history \in [Proposal -> Height]
          /\ (\A b \in Covering(bm, h) : ~Covers(b, hist[pay])) => verdict.status = "Valid"
          /\ Cardinality(Covering(bm, h)) = 1 => verdict.status # "InValid"
      <4>1. \A g \in [Proposal -> Height] :
              LET v == IsTransactionValid(bm, h, block(mn).budget, g)
              IN  /\ v.history \in [Proposal -> Height]
                  /\ (\A b \in Covering(bm, h) : ~Covers(b, g[block(mn).budget])) => v.status = "Valid"
                  /\ Cardinality(Covering(bm, h)) = 1 => v.status # "InValid"
        BY <1>1, <1>5, OwnBlock
      <4> HIDE DEF block
      <4> QED
        BY <2>1, <3>1, <4>1
    <3>3. PICK good \in BOOLEAN : good = (verdict.status = "Valid" \/ (verdict.status # "InValid" /\ mn))
      OBVIOUS
    <3>4. Checked(mn, hist) = [ok |-> good, history |-> verdict.history]
      <4>1. block(mn).mn = mn /\ block(mn).budget = pay
        BY <2>1, <2>2
      <4>2. Checked(mn, hist) = [ok |-> verdict.status = "Valid" \/ (verdict.status # "InValid" /\ mn),
                                 history |-> verdict.history]
        BY <1>5, <3>1, <4>1 DEF IsBlockPayeeValid
      <4> HIDE DEF Checked
      <4> QED
        BY <3>3, <4>2
    <3> HIDE DEF Checked
    <3>5. Checked(mn, hist).ok = good /\ Checked(mn, hist).history = verdict.history
      BY <3>4
    <3>6. verdict.status = "Valid" \/ (verdict.status # "InValid" /\ mn) => Checked(mn, hist).ok
      BY <3>3, <3>5
    <3> QED
      BY <3>2, <3>5, <3>6
  <2>4. pay # None
    BY BudgetAssumption DEF Item
  <2> HIDE DEF Checked, block
  <2> QED
    BY <2>1, <2>3, <2>4
<1> QED
  BY <1>4, <1>5

-----------------------------------------------------------------------------
(* The inductive invariant: TypeOK with OrphansWait, said of bm.           *)
Inv ==
    /\ Sound(bm) /\ Settled(bm, silent) /\ silent \subseteq bm.known
    /\ history \in [Proposal -> Height] /\ listed \subseteq MN
    /\ swept \in BOOLEAN /\ tip \in FirstTip..MaxTip /\ stops \in 0..MaxStops

(* The invariant says what the properties say.                             *)
LEMMA InvMeans ==
    ASSUME Inv
    PROVE  TypeOK /\ OrphansWait /\ BudgetBlockAccepted
<1>1. TypeOK
  BY DEF Inv, Sound, ItemSound, TypeOK
<1>2. OrphansWait
  BY DEF Inv, Settled, Refused, OrphansWait
<1>3. bm.known \subseteq Item
  BY Fields DEF Inv, Sound
<1> QED
  BY <1>1, <1>2, <1>3, Accepted DEF Inv

(* It holds at the start.                                                  *)
LEMMA InitStep ==
    ASSUME Init
    PROVE  Inv
<1>1. 0 \in 0..MaxStops /\ 0 \in Height /\ FirstTip \in FirstTip..MaxTip
  BY BudgetAssumption DEF Height
<1>2. history \in [Proposal -> Height]
  BY <1>1 DEF Init
<1> QED
  BY <1>1, <1>2, EmptySound DEF Init, Inv, Settled

(* Changes of the marks of what was seen or is immature are no matter.     *)
LEMMA SeenFacts ==
    ASSUME NEW s, Sound(s), NEW x, x \in Item \cup Vote
    PROVE  LET t == [s EXCEPT !.seen = s.seen \cup {x}]
           IN  /\ Sound(t) /\ (\A i \in Item : Refused(s, i) => Refused(t, i))
               /\ t.known = s.known /\ t.votes = s.votes /\ t.orphan = s.orphan /\ t.off = s.off
<1> DEFINE t == [s EXCEPT !.seen = s.seen \cup {x}]
<1>1. s \in Manager
  BY DEF Sound
<1>2. s.seen \cup {x} \in SUBSET (Item \cup Vote)
  BY <1>1, Fields
<1>3. t \in Manager /\ t.known = s.known /\ t.votes = s.votes /\ t.orphan = s.orphan /\ t.off = s.off
  BY <1>1, <1>2 DEF Manager
<1> HIDE DEF t
<1>4. Sound(t) /\ \A i \in Item : Refused(s, i) => Refused(t, i)
  BY <1>3, SameVotes
<1> QED
  BY <1>3, <1>4 DEF t

(* ClearSeen forgets no item and no vote.                                  *)
LEMMA ClearSeenFacts ==
    ASSUME NEW s, Sound(s)
    PROVE  LET t == ClearSeen(s)
           IN  /\ Sound(t) /\ (\A i \in Item : Refused(s, i) => Refused(t, i))
               /\ t.known = s.known
<1> DEFINE t == ClearSeen(s)
<1>1. t \in Manager /\ t.known = s.known /\ t.votes = s.votes /\ t.orphan = s.orphan /\ t.off = s.off
  BY DEF Sound, ClearSeen, Manager
<1> HIDE DEF t
<1>2. Sound(t) /\ \A i \in Item : Refused(s, i) => Refused(t, i)
  BY <1>1, SameVotes
<1> QED
  BY <1>1, <1>2 DEF t

(* One vote, taken or kept as an orphan.                                   *)
LEMMA BallotFacts ==
    ASSUME NEW s, Sound(s), NEW v \in Vote, v.item \in s.known, Takes(s, v)
    PROVE  LET t == AddOrUpdateVote(s, Ballot(v))
           IN  Sound(t) /\ (\A i \in Item : Refused(s, i) => Refused(t, i)) /\ t.known = s.known /\ t.seen = s.seen
<1>1. DOMAIN Ballot(v) = {v.item} /\ Ballot(v)[v.item] = v
  BY DEF Ballot
<1>2. PICK vote : vote = Ballot(v)
  OBVIOUS
<1> QED
  BY <1>1, <1>2, VotesTaken

(* Update takes the vote, keeps it as an orphan, or refuses it.            *)
LEMMA UpdateFacts ==
    ASSUME NEW s, Sound(s), NEW v \in Vote
    PROVE  LET t == Update(s, v)
           IN  Sound(t) /\ t.known = s.known /\ \A i \in s.known : Refused(s, i) => Refused(t, i)
<1>1. s \in Manager /\ s.known \subseteq Item
  BY Fields DEF Sound
<1>2. v.item \in Item
  BY VoteFacts
<1>3. CASE v.item \in s.known
  BY <1>1, <1>3, BallotFacts DEF Update
<1>4. CASE v.item \notin s.known
  <2> DEFINE orphan == [s.orphan EXCEPT ![v.item] = v]
             t == [s EXCEPT !.orphan = orphan]
  <2>1. Update(s, v) = t
    BY <1>1, <1>4 DEF Update, Manager
  <2>2. /\ orphan \in [Item -> Vote \cup {None}] /\ orphan[v.item] = v
        /\ \A i \in Item \ {v.item} : orphan[i] = s.orphan[i]
    BY <1>1, <1>2, Fields
  <2> HIDE DEF orphan
  <2>3. t \in Manager /\ t.known = s.known /\ t.votes = s.votes /\ t.off = s.off /\ t.orphan = orphan
    BY <1>1, <2>2 DEF Manager
  <2> HIDE DEF t
  <2>4. ASSUME NEW i \in Item \ {v.item} PROVE ItemSound(t, i) /\ (Refused(s, i) => Refused(t, i))
    BY <2>2, <2>3, SameItem DEF Sound
  <2>5. ItemSound(t, v.item)
    <3>1. ItemSound(s, v.item)
      BY <1>2 DEF Sound
    <3> QED
      BY <2>2, <2>3, <3>1 DEF ItemSound
  <2>6. Sound(t)
    BY <2>3, <2>4, <2>5 DEF Sound
  <2> QED
    BY <1>1, <1>4, <2>1, <2>3, <2>4, <2>6
<1> QED
  BY <1>3, <1>4

(* Read of the file: all votes count, and nothing is immature.             *)
LEMMA ReadFacts ==
    ASSUME NEW s, Sound(s)
    PROVE  LET t == [s EXCEPT !.off = [i \in Item |-> {}], !.immature = {}]
           IN  Sound(t) /\ (\A i \in Item : Refused(s, i) => Refused(t, i)) /\ t.known = s.known
<1> DEFINE off == [i \in Item |-> {}]
           t == [s EXCEPT !.off = off, !.immature = {}]
<1>1. s \in Manager /\ \A i \in Item : ItemSound(s, i)
  BY DEF Sound
<1>2. off \in [Item -> SUBSET MN] /\ \A i \in Item : off[i] = {}
  OBVIOUS
<1> HIDE DEF off
<1>3. t \in Manager /\ t.known = s.known /\ t.votes = s.votes /\ t.off = off /\ t.orphan = s.orphan
  BY <1>1, <1>2 DEF Manager
<1> HIDE DEF t
<1>4. ASSUME NEW i \in Item PROVE ItemSound(t, i) /\ (Refused(s, i) => Refused(t, i))
  <2>1. ItemSound(s, i) /\ t.off[i] = {}
    BY <1>1, <1>2, <1>3
  <2>2. ItemSound(t, i)
    BY <1>3, <2>1 DEF ItemSound
  <2>3. Refused(s, i) => Refused(t, i)
    BY <1>3 DEF Refused, Takes
  <2> QED
    BY <2>2, <2>3
<1> QED
  BY <1>3, <1>4 DEF Sound, t, off

(* Whatever a block pays, the check of its payee leaves a good history.    *)
LEMMA HistoryTyped ==
    ASSUME NEW s, NEW h \in Height, NEW block, NEW hist \in [Proposal -> Height]
    PROVE  IsBlockPayeeValid(s, h, block, hist).history \in [Proposal -> Height]
<1> DEFINE highest == HighestCount(s, h, 0)
           above == {b \in Fin \cap s.known : VoteCount(s, b) > highest - CountEnabled \div 10}
           verdict == IsTransactionValid(s, h, block.budget, hist)
<1>1. PICK answer : answer = Asked(above, h, block.budget, hist)[Len(FinSeq)]
  OBVIOUS
<1>2. answer \in Verdicts
  <2>1. above \in SUBSET Fin /\ Len(FinSeq) \in 0..Len(FinSeq)
    BY BudgetAssumption
  <2> HIDE DEF above
  <2> QED
    BY <1>1, <2>1, AskedTyped
<1>3. verdict = IF highest < CountEnabled \div 20 THEN [status |-> "InValid", history |-> hist]
                ELSE IF above = {} THEN [answer EXCEPT !.status = "VoteThreshold"] ELSE answer
  BY <1>1 DEF IsTransactionValid, Verdict
<1>4. verdict.history \in [Proposal -> Height]
  <2> HIDE DEF verdict, above, highest
  <2>1. [answer EXCEPT !.status = "VoteThreshold"].history = answer.history /\ answer.history \in [Proposal -> Height]
    BY <1>2 DEF Verdicts
  <2> QED
    BY <1>3, <2>1
<1>5. IsBlockPayeeValid(s, h, block, hist).history \in {hist, verdict.history}
  BY DEF IsBlockPayeeValid
<1> QED
  BY <1>4, <1>5

(* Every action keeps it.                                                  *)
LEMMA NextStep ==
    ASSUME Inv, [Next]_(vars)
    PROVE  Inv'
<1>1. /\ Sound(bm) /\ bm \in Manager /\ bm.known \subseteq Item /\ bm.immature \subseteq Item
      /\ \A i \in bm.known \ silent : Refused(bm, i)
  BY Fields DEF Inv, Sound, Settled
<1>2. ASSUME Sound(bm'), \A i \in bm'.known \ silent' : Refused(bm', i), silent' \subseteq bm'.known,
             UNCHANGED world, swept' \in BOOLEAN
      PROVE  Inv'
  BY <1>2 DEF Inv, world, Settled
<1>3. ASSUME NEW i \in Item, ItemArrives(i), swept' = FALSE PROVE Inv'
  <2> DEFINE seen == [bm EXCEPT !.seen = bm.seen \cup {i}]
  <2>1. CASE ~IsBudgetCollateralValid(i)
    <3>1. bm' = [bm EXCEPT !.immature = bm.immature \cup {i}] /\ silent' = silent
      BY <1>3, <2>1 DEF ItemArrives
    <3>2. bm.immature \cup {i} \in SUBSET Item
      BY <1>1
    <3>3. bm' \in Manager /\ bm'.known = bm.known /\ bm'.votes = bm.votes /\ bm'.orphan = bm.orphan /\ bm'.off = bm.off
      BY <1>1, <3>1, <3>2 DEF Manager
    <3>4. PICK t : t = bm'
      OBVIOUS
    <3>5. Sound(t) /\ \A j \in Item : Refused(bm, j) => Refused(t, j)
      BY <1>1, <3>3, <3>4, SameVotes
    <3> QED
      BY <1>1, <1>2, <1>3, <3>1, <3>3, <3>4, <3>5 DEF ItemArrives, Inv
  <2>2. CASE IsBudgetCollateralValid(i)
    <3>1. PICK t : t = seen
      OBVIOUS
    <3>2. Sound(t) /\ t.known = bm.known /\ \A j \in Item : Refused(bm, j) => Refused(t, j)
      BY <1>1, <3>1, SeenFacts
    <3>3. \/ bm' = CheckOrphanVotes(Add(t, {i})) /\ silent' = {}
          \/ bm' = t /\ silent' = silent
      BY <1>3, <2>2, <3>1 DEF ItemArrives
    <3>4. PICK u : u = Add(t, {i})
      OBVIOUS
    <3>5. {i} \in SUBSET Item
      OBVIOUS
    <3>6. Sound(u)
      BY <3>2, <3>4, <3>5, AddFacts
    <3>7. Sound(CheckOrphanVotes(u)) /\ Settled(CheckOrphanVotes(u), {})
      BY <3>6, OrphansChecked
    <3>8. CASE bm' = CheckOrphanVotes(Add(t, {i})) /\ silent' = {}
      BY <1>2, <1>3, <3>4, <3>7, <3>8 DEF ItemArrives, Settled
    <3>9. CASE bm' = t /\ silent' = silent
      BY <1>1, <1>2, <1>3, <3>2, <3>9 DEF ItemArrives, Inv
    <3> QED
      BY <3>3, <3>8, <3>9
  <2> QED
    BY <2>1, <2>2
<1>4. ASSUME NEW v \in Vote, VoteArrives(v), swept' = FALSE PROVE Inv'
  <2>1. PICK t : t = [bm EXCEPT !.seen = bm.seen \cup {v}]
    OBVIOUS
  <2>2. Sound(t) /\ t.known = bm.known /\ \A j \in Item : Refused(bm, j) => Refused(t, j)
    BY <1>1, <2>1, SeenFacts
  <2>3. PICK u : u = Update(t, v)
    OBVIOUS
  <2>4. Sound(u) /\ u.known = t.known /\ \A j \in t.known : Refused(t, j) => Refused(u, j)
    BY <2>2, <2>3, UpdateFacts
  <2>5. bm' = u /\ silent' = silent /\ UNCHANGED world
    BY <1>4, <2>1, <2>3 DEF VoteArrives
  <2> QED
    BY <1>1, <1>2, <1>4, <2>2, <2>4, <2>5 DEF Inv
<1>5. ASSUME NEW v \in Vote, VoteRefused(v), swept' = FALSE PROVE Inv'
  <2>1. PICK t : t = [bm EXCEPT !.seen = bm.seen \cup {v}]
    OBVIOUS
  <2>2. Sound(t) /\ t.known = bm.known /\ \A j \in Item : Refused(bm, j) => Refused(t, j)
    BY <1>1, <2>1, SeenFacts
  <2>3. bm' = t /\ silent' = silent /\ UNCHANGED world
    BY <1>5, <2>1 DEF VoteRefused
  <2> QED
    BY <1>1, <1>2, <1>5, <2>2, <2>3 DEF Inv
<1>6. ASSUME NEW v \in Vote, RpcVote(v), swept' = FALSE PROVE Inv'
  <2>1. PICK t : t = AddOrUpdateVote(bm, Ballot(v))
    OBVIOUS
  <2>2. Sound(t) /\ t.known = bm.known /\ \A j \in Item : Refused(bm, j) => Refused(t, j)
    BY <1>1, <1>6, <2>1, BallotFacts DEF RpcVote
  <2>3. PICK u : u = [t EXCEPT !.seen = t.seen \cup {v}]
    OBVIOUS
  <2>4. Sound(u) /\ u.known = t.known /\ \A j \in Item : Refused(t, j) => Refused(u, j)
    BY <2>2, <2>3, SeenFacts
  <2>5. bm' = u /\ silent' = silent /\ UNCHANGED world
    BY <1>6, <2>1, <2>3 DEF RpcVote
  <2> QED
    BY <1>1, <1>2, <1>6, <2>2, <2>4, <2>5 DEF Inv
<1>7. ASSUME NEW i \in Item, RpcSubmit(i), swept' = FALSE PROVE Inv'
  <2>1. PICK t : t = [bm EXCEPT !.seen = bm.seen \cup {i}]
    OBVIOUS
  <2>2. Sound(t) /\ t.known = bm.known /\ \A j \in Item : Refused(bm, j) => Refused(t, j)
    BY <1>1, <2>1, SeenFacts
  <2>3. PICK u : u = Add(t, {i})
    OBVIOUS
  <2>4. {i} \in SUBSET Item
    OBVIOUS
  <2>5. Sound(u) /\ t.known \subseteq u.known /\ \A j \in t.known : Refused(t, j) => Refused(u, j)
    BY <2>2, <2>3, <2>4, AddFacts
  <2>6. bm' = u /\ silent' = silent \cup (u.known \ bm.known) /\ UNCHANGED world
    BY <1>7, <2>1, <2>3 DEF RpcSubmit
  <2> QED
    BY <1>1, <1>2, <1>7, <2>2, <2>5, <2>6 DEF Inv
<1>8. ASSUME NEW R \in SUBSET Fin, RpcCheck(R), swept' = FALSE PROVE Inv'
  <2>1. PICK t : t = CheckAndRemove(bm, R)
    OBVIOUS
  <2>2. Sound(t) /\ t.known \subseteq bm.known /\ \A j \in t.known : Refused(bm, j) => Refused(t, j)
    BY <1>1, <2>1, CheckAndRemoveFacts
  <2>3. bm' = t /\ silent' = silent \cap t.known /\ UNCHANGED world
    BY <1>8, <2>1 DEF RpcCheck
  <2> QED
    BY <1>1, <1>2, <1>8, <2>2, <2>3
<1>9. ASSUME NEW R \in SUBSET Fin, NEW clear \in BOOLEAN, NewBlock(R, clear), swept' = TRUE PROVE Inv'
  <2>1. PICK t : t = IF clear THEN ClearSeen(bm) ELSE bm
    OBVIOUS
  <2>2. Sound(t) /\ t.known = bm.known /\ \A j \in Item : Refused(bm, j) => Refused(t, j)
    BY <1>1, <2>1, ClearSeenFacts
  <2>3. PICK kept : kept = CheckAndRemove(t, R)
    OBVIOUS
  <2>4. Sound(kept) /\ kept.known \subseteq t.known /\ \A j \in kept.known : Refused(t, j) => Refused(kept, j)
    BY <2>2, <2>3, CheckAndRemoveFacts
  <2>5. PICK u : u = CleanAndRemove(kept, Item)
    OBVIOUS
  <2>6. Sound(u) /\ u.known = kept.known /\ \A j \in Item : Refused(kept, j) => Refused(u, j)
    BY <2>4, <2>5, CleanFacts
  <2>7. PICK w : w = SettleImmature(u)
    OBVIOUS
  <2>8. Sound(w) /\ u.known \subseteq w.known /\ \A j \in u.known : Refused(u, j) => Refused(w, j)
    BY <2>6, <2>7, SettleImmatureFacts
  <2>9. bm' = w /\ silent' = (silent \cap kept.known) \cup (w.known \ kept.known) /\ UNCHANGED world
    BY <1>9, <2>1, <2>3, <2>5, <2>7 DEF NewBlock
  <2> QED
    BY <1>1, <1>2, <1>9, <2>2, <2>4, <2>6, <2>8, <2>9
<1>10. ASSUME tip < MaxTip PROVE tip + 1 \in FirstTip..MaxTip /\ tip + 1 \in Height
  BY <1>10, BudgetAssumption DEF Inv, Height
<1>11. ASSUME NEW block, CheckBlock(block) \/ ConnectBlock(block), swept' = FALSE PROVE Inv'
  <2>1. /\ tip < MaxTip /\ tip' \in {tip, tip + 1}
        /\ history' = IsBlockPayeeValid(bm, tip + 1, block, history).history
        /\ UNCHANGED <<bm, silent, listed, stops>>
    BY <1>11 DEF CheckBlock, ConnectBlock
  <2>2. history' \in [Proposal -> Height]
    BY <1>10, <2>1, HistoryTyped DEF Inv
  <2> QED
    BY <1>10, <1>11, <2>1, <2>2 DEF Inv
<1>12. ASSUME NEW m \in Leaver, Leave(m) \/ Return(m), swept' = FALSE PROVE Inv'
  BY <1>12, BudgetAssumption DEF Leave, Return, Inv
<1>13. ASSUME NEW found \in BOOLEAN, Restart(found), swept' = FALSE PROVE Inv'
  <2>1. /\ stops' \in 0..MaxStops /\ history' \in [Proposal -> Height] /\ silent' = silent \cap bm'.known
        /\ UNCHANGED <<listed, tip>>
    <3>1. 0 \in Height
      BY BudgetAssumption DEF Height
    <3> QED
      BY <1>13, <3>1, BudgetAssumption DEF Restart, Inv
  <2>2. Sound(bm') /\ \A i \in bm'.known \ silent' : Refused(bm', i)
    <3>1. CASE found
      <4>1. PICK t : t = [bm EXCEPT !.off = [i \in Item |-> {}], !.immature = {}]
        OBVIOUS
      <4>2. Sound(t) /\ t.known = bm.known /\ \A j \in Item : Refused(bm, j) => Refused(t, j)
        BY <1>1, <4>1, ReadFacts
      <4>3. PICK kept : kept = CheckAndRemove(t, {})
        OBVIOUS
      <4>4. Sound(kept) /\ kept.known \subseteq t.known /\ \A j \in kept.known : Refused(t, j) => Refused(kept, j)
        BY <4>2, <4>3, CheckAndRemoveFacts
      <4>5. PICK u : u = ClearSeen(kept)
        OBVIOUS
      <4>6. Sound(u) /\ u.known = kept.known /\ \A j \in Item : Refused(kept, j) => Refused(u, j)
        BY <4>4, <4>5, ClearSeenFacts
      <4>7. bm' = u
        BY <1>13, <3>1, <4>1, <4>3, <4>5 DEF Restart
      <4> QED
        BY <1>1, <2>1, <4>2, <4>4, <4>6, <4>7
    <3>2. CASE ~found
      <4>1. bm' = Empty
        BY <1>13, <3>2 DEF Restart
      <4> QED
        BY <4>1, EmptySound
    <3> QED
      BY <3>1, <3>2
  <2> QED
    BY <1>13, <2>1, <2>2 DEF Inv, Settled
<1>14. CASE UNCHANGED vars
  BY <1>14 DEF Inv, vars
<1> QED
  BY <1>3, <1>4, <1>5, <1>6, <1>7, <1>8, <1>9, <1>11, <1>12, <1>13, <1>14 DEF Next

(* So it holds in every state.                                             *)
LEMMA Inductive ==
    Spec => []Inv
BY InitStep, NextStep, PTL DEF Spec

(* Through any traffic of proposals, budgets and votes, removals, blocks,  *)
(* changes of the list and restarts, CBudgetManager keeps votes and        *)
(* fValid marks of known items only, each under its own item and           *)
(* masternode, and orphans under their own item.                           *)
THEOREM TypeCorrect == Spec => []TypeOK
<1>1. Inv => TypeOK
  BY InvMeans
<1> QED
  BY <1>1, Inductive, PTL

(* CheckOrphanVotes leaves no vote behind whose item has come, but for the *)
(* items added by submitbudget and NewBlock, which do not call it.         *)
THEOREM OrphansCorrect == Spec => []OrphansWait
<1>1. Inv => OrphansWait
  BY InvMeans
<1> QED
  BY <1>1, Inductive, PTL

(* With ten enabled masternodes, the block that FillBlockPayee makes is    *)
(* one IsBlockPayeeValid takes, whatever the budgets and their votes, but  *)
(* for a payment that IsPaidAlready has noted.                             *)
THEOREM BlockCorrect == Spec => []BudgetBlockAccepted
<1>1. Inv => BudgetBlockAccepted
  BY InvMeans
<1> QED
  BY <1>1, Inductive, PTL
=============================================================================

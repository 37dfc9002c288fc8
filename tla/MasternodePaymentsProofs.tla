---------------------- MODULE MasternodePaymentsProofs ----------------------
(***************************************************************************)
(* Votes are counted once, and a block that FillBlockPayee makes is one    *)
(* IsTransactionValid accepts, for any masternodes, threads and bounds.    *)
(*                                                                         *)
(* The inductive invariant adds to VotesCounted which votes are still      *)
(* being counted (each by one thread, and stored unless cleaned away), and *)
(* that a dump nobody disturbed has the stored votes and a file written so *)
(* has their counts.  For the payee mined, PlacedInv adds that an entry    *)
(* is at its height and has every payee with votes in its vector.          *)
(***************************************************************************)
EXTENDS MasternodePayments, FiniteSetTheorems, TLAPS

AnyPayee == Payee \cup {NoPayee}
Uncounted == {adding[th] : th \in Thread}
Exact(v, b, l) == \A h \in Height \ l, p \in AnyPayee : b[h].n[p] = Cardinality(Counted(v, h, p))
Entries(b) == \A h \in Height : b[h].at = None => b[h].n = NoVotes
OneMore(b, c, g, q) ==
    \A h \in Height, p \in AnyPayee : c[h].n[p] = IF h = g /\ p = q THEN b[h].n[p] + 1 ELSE b[h].n[p]

Pending ==
    /\ \A th \in Thread : adding[th] # None => adding[th] \in votes \/ adding[th].height \in late
    /\ \A th, u \in Thread : (th # u /\ adding[th] # None /\ adding[th] = adding[u]) => adding[th].height \in late
    /\ \A th \in Thread : adding[th] = None => voting[th] = 0

Saved ==
    /\ (dump # None /\ quiet) => (dump = votes /\ \A th \in Thread : adding[th] = None)
    /\ disk.quiet => Exact(disk.votes, disk.blocks, disk.late)
    /\ IsFiniteSet(disk.votes) /\ Entries(disk.blocks)
    /\ dump # None => IsFiniteSet(dump)

Inv ==
    /\ TypeOK /\ VotesCounted /\ Pending /\ Saved
    /\ IsFiniteSet(votes) /\ Entries(blocks)

-----------------------------------------------------------------------------
(* Opening an entry changes no count.                                      *)
LEMMA OpenedFacts ==
    ASSUME NEW b \in BlockMap, Entries(b), NEW g \in Height, NEW at \in Height
    PROVE  /\ Opened(b, g, at) \in BlockMap
           /\ Entries(Opened(b, g, at))
           /\ \A h \in Height : Opened(b, g, at)[h].n = b[h].n
           /\ Opened(b, g, at)[g].at # None
<1> DEFINE c == Opened(b, g, at)
           e == Entry(at, <<>>, NoVotes)
<1>1. NoVotes \in [AnyPayee -> Nat]  BY DEF NoVotes, AnyPayee
<1>2. e \in [at : Height \cup {None}, vec : Seq(Payee \cup {NoPayee}), n : [Payee \cup {NoPayee} -> Nat]]
      /\ e.at = at /\ e.n = NoVotes
  BY <1>1 DEF Entry, AnyPayee
<1> HIDE DEF e
<1>3. CASE b[g].at = None
  <2>1. c = [b EXCEPT ![g] = e]  BY <1>3 DEF Opened, e
  <2>2. c \in BlockMap  BY <2>1, <1>2 DEF BlockMap
  <2>3. \A h \in Height : c[h] = IF h = g THEN e ELSE b[h]  BY <2>1 DEF BlockMap
  <2>4. b[g].n = NoVotes  BY <1>3 DEF Entries
  <2> QED  BY <2>2, <2>3, <2>4, <1>2, PaymentAssumption DEF Entries
<1>4. CASE b[g].at # None
  BY <1>4 DEF Opened
<1> QED  BY <1>3, <1>4

(* AddPayee adds one to one count.                                         *)
LEMMA AddPayeeFacts ==
    ASSUME NEW b \in BlockMap, NEW g \in Height, NEW q \in AnyPayee, b[g].at # None, Entries(b),
           NEW c, c = [b EXCEPT ![g] = AddPayee(b[g], q)]
    PROVE  c \in BlockMap /\ Entries(c) /\ OneMore(b, c, g, q)
<1> DEFINE e == AddPayee(b[g], q)
<1>0. c = [b EXCEPT ![g] = e]  OBVIOUS
<1>1. b[g].n \in [AnyPayee -> Nat] /\ b[g].vec \in Seq(AnyPayee) /\ b[g].at \in Height \cup {None}
  BY DEF BlockMap, AnyPayee
<1>2. /\ e.at = b[g].at
      /\ e.n = [b[g].n EXCEPT ![q] = b[g].n[q] + 1]
      /\ e \in [at : Height \cup {None}, vec : Seq(AnyPayee), n : [AnyPayee -> Nat]]
  BY <1>1 DEF AddPayee, Entry
<1> HIDE DEF e
<1>3. c \in BlockMap  BY <1>0, <1>2 DEF BlockMap, AnyPayee
<1>4. \A h \in Height : c[h] = IF h = g THEN e ELSE b[h]  BY <1>0 DEF BlockMap
<1>5. Entries(c)  BY <1>2, <1>4 DEF Entries
<1>6. \A h \in Height, p \in AnyPayee : c[h].n[p] = IF h = g /\ p = q THEN b[h].n[p] + 1 ELSE b[h].n[p]
  BY <1>1, <1>2, <1>4
<1> QED  BY <1>3, <1>5, <1>6 DEF OneMore

(* CleanPaymentList takes all votes of a height and its counts, or none.   *)
LEMMA CleanedFacts ==
    ASSUME NEW b \in BlockMap, NEW w \in SUBSET Vote, Entries(b)
    PROVE  /\ Cleaned(b, w) \in BlockMap /\ Entries(Cleaned(b, w))
           /\ \A v \in SUBSET w, l \in SUBSET Height : Exact(v, b, l) => Exact({x \in v : ~ Old(x)}, Cleaned(b, w), l)
<1> DEFINE c == Cleaned(b, w)
<1>1. NoVotes \in [AnyPayee -> Nat] /\ \A p \in AnyPayee : NoVotes[p] = 0  BY DEF NoVotes, AnyPayee
<1>2. NoEntry \in [at : Height \cup {None}, vec : Seq(AnyPayee), n : [AnyPayee -> Nat]]
      /\ NoEntry.at = None /\ NoEntry.n = NoVotes
  BY <1>1 DEF NoEntry, Entry
<1>3. \A h \in Height : c[h] = IF \E x \in w : x.height = h /\ Old(x) THEN NoEntry ELSE b[h]  BY DEF Cleaned
<1>4. c \in BlockMap  BY <1>2, <1>3 DEF BlockMap, Cleaned, AnyPayee
<1>5. Entries(c)  BY <1>2, <1>3 DEF Entries
<1>6. ASSUME NEW v \in SUBSET w, NEW l, Exact(v, b, l), NEW h \in Height \ l, NEW p \in AnyPayee
      PROVE  c[h].n[p] = Cardinality(Counted({x \in v : ~ Old(x)}, h, p))
  <2>1. CASE \E x \in w : x.height = h /\ Old(x)
    <3>1. \A x \in v : x.height = h => Old(x)  BY <2>1 DEF Old
    <3>2. Counted({x \in v : ~ Old(x)}, h, p) = {}  BY <3>1 DEF Counted
    <3>3. c[h].n[p] = 0  BY <2>1, <1>1, <1>2, <1>3
    <3> QED  BY <3>2, <3>3, FS_EmptySet
  <2>2. CASE ~ \E x \in w : x.height = h /\ Old(x)
    <3>1. Counted({x \in v : ~ Old(x)}, h, p) = Counted(v, h, p)  BY <2>2 DEF Counted
    <3>2. c[h] = b[h]  BY <2>2, <1>3
    <3> QED  BY <3>1, <3>2, <1>6 DEF Exact
  <2> QED  BY <2>1, <2>2
<1> QED  BY <1>4, <1>5, <1>6 DEF Exact

(* A stored vote is not counted yet, and changes no count.                 *)
LEMMA StoreStep ==
    ASSUME Inv, NEW th \in Thread, NEW v \in Vote, adding[th] = None, Store(th, v),
           UNCHANGED <<dump, disk, torn, late>>, voting' \in [Thread -> Height],
           \A u \in Thread \ {th} : voting'[u] = voting[u], TypeOK'
    PROVE  Inv'
<1> USE DEF Inv, Store
<1>1. v.height \in Height /\ v # None  BY PaymentAssumption DEF Vote
<1>2. /\ Entries(blocks') /\ \A h \in Height : blocks'[h].n = blocks[h].n
  <2>1. blocks \in BlockMap /\ Entries(blocks) /\ blocks' = Opened(blocks, v.height, v.height)  BY DEF TypeOK
  <2> QED  BY ONLY <2>1, <1>1, OpenedFacts
<1>3. IsFiniteSet(votes')  BY FS_AddElement
<1>4. /\ adding' = [adding EXCEPT ![th] = v] /\ adding \in [Thread -> Vote \cup {None}]
      /\ \A u \in Thread : adding'[u] = IF u = th THEN v ELSE adding[u]
  BY DEF TypeOK
<1>5. votes' \ Uncounted' = votes \ Uncounted
  <2>1. None \notin votes /\ v \notin votes  BY PaymentAssumption DEF TypeOK
  <2>2. ASSUME NEW x PROVE x \in votes' \ Uncounted' <=> x \in votes \ Uncounted
    <3>1. CASE x = v  BY <3>1, <2>1, <1>4 DEF Uncounted
    <3>2. CASE x # v /\ x \in votes
      <4>1. x # None  BY <3>2, <2>1
      <4>2. (\E u \in Thread : adding'[u] = x) <=> (\E u \in Thread : adding[u] = x)  BY <3>2, <4>1, <1>4
      <4> QED  BY <3>2, <4>2 DEF Uncounted
    <3> QED  BY <3>1, <3>2
  <2> QED  BY <2>2
<1>6. VotesCounted'
  BY <1>2, <1>5 DEF VotesCounted, Uncounted
<1>7. Pending'
  <2>1. \A u \in Thread : adding'[u] # None => adding'[u] \in votes' \/ adding'[u].height \in late'
    BY <1>4 DEF Pending
  <2>2. \A u \in Thread : adding'[u] = None => voting'[u] = 0  BY <1>1, <1>4 DEF Pending
  <2>3. ASSUME NEW t \in Thread, NEW u \in Thread, t # u, adding'[t] # None, adding'[t] = adding'[u]
        PROVE  adding'[t].height \in late'
    <3>1. CASE t # th /\ u # th  BY <3>1, <2>3, <1>4 DEF Pending
    <3>2. CASE t = th
      <4>1. adding[u] = v  BY <3>2, <2>3, <1>4
      <4> QED  BY <4>1, <3>2, <1>1, <1>4 DEF Pending
    <3>3. CASE u = th
      <4>1. adding[t] = v  BY <3>3, <2>3, <1>4
      <4> QED  BY <4>1, <3>3, <2>3, <1>1, <1>4 DEF Pending
    <3> QED  BY <3>1, <3>2, <3>3
  <2> QED  BY <2>1, <2>2, <2>3 DEF Pending
<1>8. Saved'
  BY DEF Saved, Exact, Entries, Counted
<1> QED  BY <1>2, <1>3, <1>6, <1>7, <1>8

(* Neither the votes, the counts nor the file are touched.                 *)
LEMMA OtherStep ==
    ASSUME Inv, UNCHANGED <<votes, blocks, adding, voting, late, dump, disk, torn, quiet>>, TypeOK'
    PROVE  Inv'
<1>1. VotesCounted'  BY DEF Inv, VotesCounted
<1>2. Pending'  BY DEF Inv, Pending
<1>3. Saved'  BY DEF Inv, Saved
<1>4. IsFiniteSet(votes') /\ Entries(blocks')  BY DEF Inv
<1> QED  BY <1>1, <1>2, <1>3, <1>4 DEF Inv

(* The count of a vote: it is the only thread counting it.                 *)
LEMMA CountStep ==
    ASSUME Inv, NEW th \in Thread, Count(th)
    PROVE  Inv'
<1> DEFINE v == adding[th]
           b == Opened(blocks, v.height, 0)
<1> USE DEF Inv, Count
<1>1. v \in Vote /\ v.height \in Height /\ v.payee \in AnyPayee /\ 0 \in Height
  BY PaymentAssumption DEF TypeOK, Vote, AnyPayee, Height
<1>2. /\ blocks \in BlockMap /\ Entries(blocks) /\ blocks' = [b EXCEPT ![v.height] = AddPayee(b[v.height], v.payee)]
      /\ adding' = [adding EXCEPT ![th] = None] /\ voting' = [voting EXCEPT ![th] = 0]
  BY DEF TypeOK, NotVoting
<1> HIDE DEF b
<1>3. b \in BlockMap /\ Entries(b) /\ b[v.height].at # None /\ \A h \in Height : b[h].n = blocks[h].n
  BY ONLY <1>1, <1>2, OpenedFacts DEF b
<1>4. /\ blocks' \in BlockMap /\ Entries(blocks')
      /\ \A h \in Height, p \in AnyPayee :
            blocks'[h].n[p] = IF h = v.height /\ p = v.payee THEN b[h].n[p] + 1 ELSE b[h].n[p]
  <2> DEFINE c == blocks'
             g == v.height
             q == v.payee
  <2>1. /\ b \in BlockMap /\ g \in Height /\ q \in AnyPayee /\ b[g].at # None /\ Entries(b)
        /\ c = [b EXCEPT ![g] = AddPayee(b[g], q)]
    BY <1>1, <1>2, <1>3
  <2> HIDE DEF c, g, q, v
  <2>2. c \in BlockMap /\ Entries(c) /\ OneMore(b, c, g, q)  BY ONLY <2>1, AddPayeeFacts
  <2> QED  BY <2>2 DEF c, g, q, Entries, OneMore
<1>5. \A u \in Thread : adding'[u] = IF u = th THEN None ELSE adding[u]  BY <1>2 DEF TypeOK
<1>6. TypeOK'
  <2>1. sent' \in SUBSET Vote /\ own' \in Height  BY <1>1 DEF TypeOK
  <2>2. adding' \in [Thread -> Vote \cup {None}] /\ voting' \in [Thread -> Height]  BY <1>1, <1>2 DEF TypeOK
  <2>3. \A u \in Thread : adding'[u] # None /\ (voting'[u] # 0 \/ u # MsgThread) => adding'[u].mn = Self
    BY <1>2, <1>5 DEF TypeOK
  <2> QED  BY <2>1, <2>2, <2>3, <1>4 DEF TypeOK, file
<1>7. Pending'  BY <1>2, <1>5 DEF Pending, TypeOK
<1>8. ASSUME ~ torn, NEW h \in Height \ late, NEW p \in AnyPayee
      PROVE  blocks'[h].n[p] = Cardinality(Counted(votes' \ Uncounted', h, p))
  <2>0. blocks[h].n[p] = Cardinality(Counted(votes \ Uncounted, h, p))  BY <1>8 DEF VotesCounted, Uncounted, AnyPayee
  <2>1. None \notin votes /\ votes' = votes  BY PaymentAssumption DEF TypeOK
  <2>2. \A x \in votes : x # v => (x \in Uncounted' <=> x \in Uncounted)  BY <2>1, <1>5 DEF Uncounted
  <2>3. CASE h = v.height /\ p = v.payee
    <3>1. v \in votes /\ \A u \in Thread \ {th} : adding[u] # v  BY <2>3, <1>8 DEF Pending
    <3>2. v \notin Uncounted' /\ v \in Uncounted  BY <3>1, <1>5, <2>1 DEF Uncounted
    <3>3. Counted(votes' \ Uncounted', h, p) = Counted(votes \ Uncounted, h, p) \cup {v}
      BY <2>1, <2>2, <2>3, <3>1, <3>2 DEF Counted
    <3>4. v \notin Counted(votes \ Uncounted, h, p)  BY <3>2 DEF Counted
    <3>5. Counted(votes \ Uncounted, h, p) \in SUBSET votes  BY DEF Counted
    <3>6. IsFiniteSet(Counted(votes \ Uncounted, h, p))  BY <3>5, FS_Subset
    <3>7. Cardinality(Counted(votes' \ Uncounted', h, p)) = Cardinality(Counted(votes \ Uncounted, h, p)) + 1
      BY <3>3, <3>4, <3>6, FS_AddElement
    <3> QED  BY <3>7, <2>0, <2>3, <1>3, <1>4
  <2>4. CASE ~ (h = v.height /\ p = v.payee)
    <3>1. Counted(votes' \ Uncounted', h, p) = Counted(votes \ Uncounted, h, p)
      BY <2>1, <2>2, <2>4 DEF Counted
    <3> QED  BY <3>1, <2>0, <2>4, <1>3, <1>4
  <2> QED  BY <2>3, <2>4
<1>9. VotesCounted'  BY <1>8 DEF VotesCounted, Uncounted, AnyPayee, file
<1>10. Saved'  BY DEF Saved, file
<1> QED  BY <1>4, <1>6, <1>7, <1>9, <1>10

(* CleanPaymentList.                                                       *)
LEMMA CleanStep ==
    ASSUME Inv, CleanPaymentList
    PROVE  Inv'
<1> USE DEF Inv, CleanPaymentList
<1>1. blocks \in BlockMap /\ votes \in SUBSET Vote /\ Entries(blocks) /\ blocks' = Cleaned(blocks, votes)
  BY DEF TypeOK
<1>2. /\ blocks' \in BlockMap /\ Entries(blocks')
      /\ \A v \in SUBSET votes, l \in SUBSET Height : Exact(v, blocks, l) => Exact({x \in v : ~ Old(x)}, blocks', l)
  BY ONLY <1>1, CleanedFacts
<1>3. \A x \in votes : x.height \in Height  BY DEF TypeOK, Vote
<1>4. TypeOK'  BY <1>1, <1>2, <1>3 DEF TypeOK
<1>5. votes' \in SUBSET votes /\ IsFiniteSet(votes')  BY FS_Subset
<1>6. VotesCounted'
  <2> SUFFICES ASSUME ~ torn PROVE Exact(votes' \ Uncounted', blocks', late')
    BY DEF VotesCounted, Exact, Uncounted, AnyPayee
  <2>1. Exact(votes \ Uncounted, blocks, late)  BY DEF VotesCounted, Exact, Uncounted, AnyPayee
  <2>2. Exact({x \in votes \ Uncounted : ~ Old(x)}, blocks', late)  BY <2>1, <1>2 DEF TypeOK
  <2>3. {x \in votes \ Uncounted : ~ Old(x)} = votes' \ Uncounted'  BY DEF Uncounted
  <2> QED  BY <2>2, <2>3 DEF Exact
<1>7. Pending'  BY DEF Pending
<1>8. Saved'  BY DEF Saved
<1> QED  BY <1>2, <1>4, <1>5, <1>6, <1>7, <1>8

(* Reading a file that is exact if it was written in quiet.                *)
LEMMA StartStep ==
    ASSUME Inv, NEW f \in [votes : SUBSET Vote, blocks : BlockMap, quiet : BOOLEAN, late : SUBSET Height],
           IsFiniteSet(f.votes), Entries(f.blocks), f.quiet => Exact(f.votes, f.blocks, f.late),
           Start(f), readable' \in BOOLEAN
    PROVE  Inv'
<1> USE DEF Start
<1>1. f.blocks \in BlockMap /\ f.votes \in SUBSET Vote /\ Entries(f.blocks) /\ blocks' = Cleaned(f.blocks, f.votes)
  OBVIOUS
<1>2. /\ blocks' \in BlockMap /\ Entries(blocks')
      /\ \A v \in SUBSET f.votes, l \in SUBSET Height : Exact(v, f.blocks, l) => Exact({x \in v : ~ Old(x)}, blocks', l)
  BY ONLY <1>1, CleanedFacts
<1>3. 0 \in Height  BY PaymentAssumption DEF Height
<1>4. /\ adding' \in [Thread -> Vote \cup {None}] /\ voting' \in [Thread -> Height] /\ lastVote' \in [MN -> Height \cup {None}]
      /\ \A th \in Thread : adding'[th] = None /\ voting'[th] = 0
  BY <1>3
<1>5. TypeOK'
  <2>1. votes' \in SUBSET Vote /\ disk' = f /\ late' \in SUBSET Height /\ torn' \in BOOLEAN  OBVIOUS
  <2> QED  BY <2>1, <1>2, <1>3, <1>4 DEF TypeOK, Inv
<1>6. votes' \in SUBSET f.votes /\ IsFiniteSet(votes')  BY FS_Subset
<1>7. VotesCounted'
  <2> SUFFICES ASSUME ~ torn' PROVE Exact(votes' \ Uncounted', blocks', late')
    BY DEF VotesCounted, Exact, Uncounted, AnyPayee
  <2>1. Exact(f.votes, f.blocks, f.late)  OBVIOUS
  <2>2. Exact({x \in f.votes : ~ Old(x)}, blocks', f.late)  BY <2>1, <1>2
  <2>3. None \notin votes'  BY <1>1, <1>6, PaymentAssumption
  <2>4. Uncounted' \subseteq {None}  BY <1>4 DEF Uncounted
  <2>5. votes' \ Uncounted' = votes'  BY <2>3, <2>4
  <2> QED  BY <2>2, <2>5
<1>8. Pending'  BY <1>4 DEF Pending
<1>9. Saved'
  <2>1. disk' = f /\ dump' = None  OBVIOUS
  <2> QED  BY <2>1 DEF Saved
<1> QED  BY <1>2, <1>5, <1>6, <1>7, <1>8, <1>9 DEF Inv

(* Beginning to write the file.                                            *)
LEMMA DumpStep ==
    ASSUME Inv, BeginDump
    PROVE  Inv'
<1> USE DEF Inv, BeginDump, memory
<1>1. TypeOK'  BY DEF TypeOK
<1>2. VotesCounted'  BY DEF VotesCounted
<1>3. Pending'  BY DEF Pending
<1>4. Saved'
  <2>1. dump' = votes' /\ quiet' => \A th \in Thread : adding'[th] = None  OBVIOUS
  <2>2. IsFiniteSet(dump') /\ disk' = disk  OBVIOUS
  <2> QED  BY <2>1, <2>2 DEF Saved
<1>5. IsFiniteSet(votes') /\ Entries(blocks')  BY DEF Entries
<1> QED  BY <1>1, <1>2, <1>3, <1>4, <1>5

(* The missing file, and the empty maps.                                   *)
LEMMA NoFileFacts ==
    /\ Empty \in BlockMap /\ Entries(Empty)
    /\ NoFile \in [votes : SUBSET Vote, blocks : BlockMap, quiet : BOOLEAN, late : SUBSET Height]
    /\ NoFile.votes = {} /\ NoFile.blocks = Empty /\ NoFile.late = {} /\ NoFile.quiet = TRUE
    /\ IsFiniteSet(NoFile.votes) /\ Entries(NoFile.blocks) /\ Exact(NoFile.votes, NoFile.blocks, NoFile.late)
<1>2. /\ NoVotes \in [AnyPayee -> Nat] /\ \A p \in AnyPayee : NoVotes[p] = 0  BY DEF NoVotes, AnyPayee
<1>3. NoEntry \in [at : Height \cup {None}, vec : Seq(AnyPayee), n : [AnyPayee -> Nat]]
      /\ NoEntry.at = None /\ NoEntry.n = NoVotes
  BY <1>2 DEF NoEntry, Entry
<1>4. Empty \in BlockMap /\ Entries(Empty) /\ \A h \in Height : Empty[h].n = NoVotes
  BY <1>3 DEF Empty, BlockMap, Entries, AnyPayee
<1>5. /\ NoFile \in [votes : SUBSET Vote, blocks : BlockMap, quiet : BOOLEAN, late : SUBSET Height]
      /\ NoFile.votes = {} /\ NoFile.blocks = Empty /\ NoFile.late = {} /\ NoFile.quiet = TRUE
  BY <1>4 DEF NoFile, File
<1>6. Exact({}, Empty, {})
  <2> SUFFICES ASSUME NEW h \in Height, NEW p \in AnyPayee
               PROVE  Empty[h].n[p] = Cardinality(Counted({}, h, p))
    BY DEF Exact
  <2>1. Counted({}, h, p) = {}  BY DEF Counted
  <2> QED  BY <2>1, <1>2, <1>4, FS_EmptySet
<1> QED  BY <1>4, <1>5, <1>6, FS_EmptySet

(* Nothing is stored, counted or on disk at first.                         *)
LEMMA InitStep ==
    ASSUME Init
    PROVE  Inv
<1> USE DEF Init
<1>1. 0 \in Height /\ 1 \in Nat  BY PaymentAssumption DEF Height
<1>4. Empty \in BlockMap /\ Entries(Empty)  BY NoFileFacts
<1>5. /\ NoFile \in [votes : SUBSET Vote, blocks : BlockMap, quiet : BOOLEAN, late : SUBSET Height]
      /\ NoFile.votes = {} /\ NoFile.blocks = Empty /\ NoFile.late = {} /\ NoFile.quiet = TRUE
  BY NoFileFacts
<1>6. Exact({}, Empty, {})  BY NoFileFacts
<1>7. \A th \in Thread : adding[th] = None /\ voting[th] = 0  OBVIOUS
<1>8. TypeOK
  <2>1. lastVote \in [MN -> Height \cup {None}] /\ adding \in [Thread -> Vote \cup {None}] /\ voting \in [Thread -> Height]
    BY <1>1
  <2>2. tip \in 1..MaxTip  BY PaymentAssumption
  <2>3. disk \in [votes : SUBSET Vote, blocks : BlockMap, quiet : BOOLEAN, late : SUBSET Height]  BY <1>5
  <2> QED  BY <2>1, <2>2, <2>3, <1>1, <1>4, <1>7 DEF TypeOK
<1>9. VotesCounted
  <2>1. votes \ Uncounted = {}  OBVIOUS
  <2> QED  BY <2>1, <1>6 DEF VotesCounted, Exact, Uncounted, AnyPayee
<1>10. Pending  BY <1>7 DEF Pending
<1>11. Saved  BY <1>4, <1>5, <1>6, FS_EmptySet DEF Saved
<1> QED  BY <1>4, <1>8, <1>9, <1>10, <1>11, FS_EmptySet DEF Inv

(* Storing a vote keeps the types.                                         *)
LEMMA StoreType ==
    ASSUME TypeOK, NEW th \in Thread, NEW v \in Vote, Store(th, v), Entries(blocks)
    PROVE  /\ votes' \in SUBSET Vote /\ blocks' \in BlockMap /\ quiet' \in BOOLEAN
           /\ adding' \in [Thread -> Vote \cup {None}]
           /\ \A u \in Thread : adding'[u] = IF u = th THEN v ELSE adding[u]
<1>1. blocks \in BlockMap /\ v.height \in Height /\ blocks' = Opened(blocks, v.height, v.height)
  BY DEF TypeOK, Store, Vote
<1>2. blocks' \in BlockMap  BY ONLY <1>1, OpenedFacts, Entries(blocks)
<1> QED  BY <1>2 DEF TypeOK, Store

(* Every step keeps the invariant.                                         *)
LEMMA NextStep ==
    ASSUME Inv, [Next]_vars
    PROVE  Inv'
<1>0. TypeOK /\ Entries(blocks)  BY DEF Inv
<1>1. ASSUME NEW v \in Network \cup sent, WinnerAccepted(v)  PROVE Inv'
  <2>1. v \in Vote /\ MsgThread \in Thread  BY <1>0, PaymentAssumption DEF TypeOK
  <2>2. Store(MsgThread, v) /\ adding[MsgThread] = None  BY <1>1 DEF WinnerAccepted
  <2>3. voting[MsgThread] = 0  BY <2>1, <2>2 DEF Inv, Pending
  <2>4. v.mn \in MN /\ v.height \in Height  BY <2>1 DEF Vote
  <2>5. TypeOK'
    <3>1. lastVote' \in [MN -> Height \cup {None}]  BY <2>4, <1>0, <1>1 DEF WinnerAccepted, TypeOK
    <3>2. /\ votes' \in SUBSET Vote /\ blocks' \in BlockMap /\ quiet' \in BOOLEAN
          /\ adding' \in [Thread -> Vote \cup {None}]
          /\ \A u \in Thread : adding'[u] = IF u = MsgThread THEN v ELSE adding[u]
      BY <1>0, <2>1, <2>2, StoreType
    <3> QED  BY <3>1, <3>2, <2>3, <1>0, <1>1 DEF WinnerAccepted, TypeOK
  <2> QED  BY <2>1, <2>2, <2>5, <1>0, <1>1, StoreStep DEF WinnerAccepted, TypeOK
<1>2. ASSUME NEW v \in Network \cup sent, WinnerRefused(v)  PROVE Inv'
  <2>1. v \in Vote  BY <1>0, PaymentAssumption DEF TypeOK
  <2>2. v.mn \in MN /\ v.height \in Height  BY <2>1 DEF Vote
  <2>3. TypeOK'  BY <2>2, <1>0, <1>2 DEF WinnerRefused, TypeOK, file
  <2> QED  BY <2>3, <1>2, OtherStep DEF WinnerRefused, file
<1>3. ASSUME NEW m \in MN, LearnMasternode(m)  PROVE Inv'
  <2>1. TypeOK'  BY <1>0, <1>3 DEF LearnMasternode, TypeOK, memory, file
  <2> QED  BY <2>1, <1>3, OtherStep DEF LearnMasternode, memory, file
<1>4. ASSUME NEW th \in Thread, NEW v \in Vote, ProcessBlock(th, v)  PROVE Inv'
  <2>1. Store(th, v) /\ adding[th] = None  BY <1>4 DEF ProcessBlock
  <2>2. tip + Ahead \in Height  BY <1>0, PaymentAssumption DEF TypeOK, Height
  <2>3. v.mn = Self  BY <1>4 DEF ProcessBlock, VoteOf
  <2>4. /\ voting' \in [Thread -> Height]
        /\ \A u \in Thread \ {th} : voting'[u] = voting[u]
    BY <2>2, <1>0, <1>4 DEF ProcessBlock, TypeOK
  <2>5. TypeOK'
    <3>2. /\ votes' \in SUBSET Vote /\ blocks' \in BlockMap /\ quiet' \in BOOLEAN
          /\ adding' \in [Thread -> Vote \cup {None}]
          /\ \A u \in Thread : adding'[u] = IF u = th THEN v ELSE adding[u]
      BY <1>0, <2>1, StoreType
    <3> QED  BY <3>2, <2>3, <2>4, <1>0, <1>4 DEF ProcessBlock, TypeOK
  <2> QED  BY <2>1, <2>4, <2>5, <1>4, StoreStep DEF ProcessBlock
<1>5. ASSUME NewTip  PROVE Inv'
  <2>1. tip' \in 1..MaxTip  BY <1>0, <1>5, PaymentAssumption DEF NewTip, TypeOK
  <2>2. TypeOK'  BY <2>1, <1>0, <1>5 DEF NewTip, TypeOK, memory, file
  <2> QED  BY <2>2, <1>5, OtherStep DEF NewTip, memory, file
<1>6. ASSUME Restart  PROVE Inv'
  <2> DEFINE f == File(dump, blocks, quiet /\ ~ torn, late)
  <2>1. /\ f \in [votes : SUBSET Vote, blocks : BlockMap, quiet : BOOLEAN, late : SUBSET Height]
        /\ f.votes = dump /\ f.blocks = blocks /\ f.late = late /\ f.quiet = (quiet /\ ~ torn)
    BY <1>0, <1>6 DEF Restart, File, TypeOK
  <2>2. Start(f) /\ readable' \in BOOLEAN  BY <1>0, <1>6 DEF Restart, TypeOK
  <2> HIDE DEF f
  <2>3. IsFiniteSet(f.votes) /\ Entries(f.blocks)  BY <2>1, <1>6 DEF Inv, Saved, Restart
  <2>4. ASSUME f.quiet  PROVE Exact(f.votes, f.blocks, f.late)
    <3>1. quiet /\ ~ torn /\ dump # None  BY <2>1, <2>4, <1>6 DEF Restart
    <3>2. dump = votes /\ \A th \in Thread : adding[th] = None  BY <3>1 DEF Inv, Saved
    <3>3. None \notin votes  BY <1>0, PaymentAssumption DEF TypeOK
    <3>4. votes \ Uncounted = votes  BY <3>2, <3>3 DEF Uncounted
    <3>5. Exact(votes \ Uncounted, blocks, late)  BY <3>1 DEF Inv, VotesCounted, Exact, Uncounted, AnyPayee
    <3> QED  BY <3>2, <3>4, <3>5, <2>1
  <2> QED  BY <2>1, <2>2, <2>3, <2>4, StartStep
<1>7. ASSUME Crash  PROVE Inv'
  <2>1. /\ disk \in [votes : SUBSET Vote, blocks : BlockMap, quiet : BOOLEAN, late : SUBSET Height]
        /\ Start(disk) /\ readable' \in BOOLEAN
    BY <1>0, <1>7 DEF Crash, TypeOK
  <2>2. IsFiniteSet(disk.votes) /\ Entries(disk.blocks) /\ (disk.quiet => Exact(disk.votes, disk.blocks, disk.late))
    BY DEF Inv, Saved
  <2> QED  BY <2>1, <2>2, StartStep
<1>8. ASSUME CrashInWrite  PROVE Inv'
  <2>1. Start(NoFile) /\ readable' \in BOOLEAN  BY <1>8 DEF CrashInWrite
  <2> QED  BY <2>1, NoFileFacts, StartStep
<1>9. CASE UNCHANGED vars
  <2>1. TypeOK'  BY <1>0, <1>9 DEF TypeOK, vars
  <2> QED  BY <2>1, <1>9, OtherStep DEF vars
<1> QED
  BY <1>1, <1>2, <1>3, <1>4, <1>5, <1>6, <1>7, <1>8, <1>9, CountStep, CleanStep, DumpStep DEF Next

(* The invariant holds in every reachable state.                           *)
LEMMA Invariance == Spec => []Inv
<1>1. Init => Inv  BY InitStep
<1>2. Inv /\ [Next]_vars => Inv'  BY NextStep
<1> QED  BY <1>1, <1>2, PTL DEF Spec

(* Every variable keeps its type, and a vote being counted by a thread that*)
(* is not the message thread is the node's own, for any bounds.            *)
THEOREM TypeCorrect == Spec => []TypeOK
<1>1. Inv => TypeOK  BY DEF Inv
<1> QED  BY <1>1, Invariance, PTL

(* AddWinningMasternode, CleanPaymentList, the dump and the load keep each *)
(* payee's count equal to its stored votes, for any number of threads.     *)
THEOREM VotesCorrect == Spec => []VotesCounted
<1>1. Inv => VotesCounted  BY DEF Inv
<1> QED  BY <1>1, Invariance, PTL

-----------------------------------------------------------------------------
(* What a node mines, it accepts.  An entry is about its own height, and   *)
(* has every payee with votes in its vector; a vote that is yet to be      *)
(* counted finds the entry that was made for it.  Only the heights whose   *)
(* votes were cleaned away uncounted are different.                        *)
Placed(b, l) ==
    \A h \in Height :
        /\ b[h].at # None => b[h].at = h \/ h \in l
        /\ \A p \in AnyPayee : b[h].n[p] # 0 => \E i \in 1..Len(b[h].vec) : b[h].vec[i] = p
PlacedInv ==
    /\ Placed(blocks, late) /\ Placed(disk.blocks, disk.late)
    /\ \A th \in Thread : adding[th] # None => adding[th].height \in late \/ blocks[adding[th].height].at # None

(* A nonempty set of naturals has a least element ...                      *)
LEMMA LeastNatural ==
    ASSUME NEW S \in SUBSET Nat, S # {}
    PROVE  \E x \in S : \A y \in S : x <= y
<1> DEFINE R == OpToRel(<, Nat)
<1>1. IsWellFoundedOn(R, Nat)  BY NatLessThanWellFounded
<1>2. \A x, y \in Nat : y < x => <<y, x>> \in R  BY DEF OpToRel
<1> HIDE DEF R
<1>3. PICK x \in S : \A y \in S : ~ (<<y, x>> \in R)  BY <1>1, WFMin
<1>4. ASSUME NEW y \in S  PROVE x <= y
  <2>1. ~ (y < x)  BY <1>2, <1>3
  <2>2. x \in Nat /\ y \in Nat  OBVIOUS
  <2> QED  BY <2>1, <2>2
<1> QED  BY <1>4

(* ... so a step that carries a fact from each number of a sequence's      *)
(* indices to the next carries it to the last: the first of the best.      *)
LEMMA FirstBest ==
    ASSUME NEW L \in Nat \ {0}, NEW f \in [1..L -> Nat]
    PROVE  \E i \in 1..L : \A j \in 1..L : IF j < i THEN f[j] < f[i] ELSE f[j] <= f[i]
<1> DEFINE Best(i, k) == \A j \in 1..k : IF j < i THEN f[j] < f[i] ELSE f[j] <= f[i]
           Has(k) == \E i \in 1..k : Best(i, k)
           Bad == {k \in 1..L : ~ Has(k)}
<1> SUFFICES Has(L)
  OBVIOUS
<1>1. Bad \in SUBSET Nat /\ \A k \in 1..L : k \in Bad <=> ~ Has(k)  OBVIOUS
<1>2. Has(1)
  <2>1. Best(1, 1)  OBVIOUS
  <2> QED  BY <2>1
<1>3. ASSUME NEW k \in 1..L, k # L, Has(k)  PROVE Has(k + 1)
  <2>1. PICK i \in 1..k : Best(i, k)  BY <1>3
  <2>2. \A j \in 1..k : f[j] <= f[i] /\ f[j] \in Nat /\ f[i] \in Nat  BY <2>1
  <2>3. k + 1 \in 1..L /\ f[k + 1] \in Nat  BY <1>3
  <2>4. CASE f[k + 1] <= f[i]
    <3>1. Best(i, k + 1) /\ i \in 1..(k + 1)  BY <2>1, <2>3, <2>4
    <3> HIDE DEF Best
    <3> QED  BY <3>1
  <2>5. CASE ~ (f[k + 1] <= f[i])
    <3>1. \A j \in 1..k : f[j] < f[k + 1]  BY <2>2, <2>3, <2>5
    <3>2. Best(k + 1, k + 1)  BY <3>1, <2>3
    <3> QED  BY <3>2
  <2> QED  BY <2>4, <2>5
<1> HIDE DEF Has, Bad
<1>4. ASSUME Bad # {}  PROVE FALSE
  <2>1. PICK k \in Bad : \A m \in Bad : k <= m  BY <1>1, <1>4, LeastNatural
  <2>2. k \in 1..L /\ ~ Has(k) /\ k # 1  BY <1>1, <1>2 DEF Bad
  <2>3. k - 1 \in 1..L /\ k - 1 # L /\ ~ (k <= k - 1)  BY <2>2
  <2>4. Has(k - 1)  BY <2>1, <2>3, <1>1
  <2>5. Has((k - 1) + 1)  BY <2>3, <2>4, <1>3
  <2> QED  BY <2>2, <2>5
<1> QED  BY <1>1, <1>4

(* GetPayee finds a payee whenever there is one with votes, and none has   *)
(* more than the one it finds.                                             *)
LEMMA GetPayeeFacts ==
    ASSUME TypeOK, NEW h \in Height
    PROVE  /\ blocks[h].vec # <<>> => GetPayee(h) # {}
           /\ \A p \in GetPayee(h) : p \in AnyPayee
           /\ \A p \in GetPayee(h), i \in 1..Len(blocks[h].vec) : blocks[h].n[blocks[h].vec[i]] <= blocks[h].n[p]
<1> DEFINE vec == blocks[h].vec
           n == blocks[h].n
           L == Len(vec)
           f == [i \in 1..L |-> n[vec[i]]]
           Best(i) == \A j \in 1..L : IF j < i THEN n[vec[j]] < n[vec[i]] ELSE n[vec[j]] <= n[vec[i]]
<1>1. vec \in Seq(AnyPayee) /\ n \in [AnyPayee -> Nat]  BY DEF TypeOK, BlockMap, AnyPayee
<1>2. GetPayee(h) = {vec[i] : i \in {i \in 1..L : Best(i)}}  BY DEF GetPayee
<1> HIDE DEF vec, n
<1>3. L \in Nat /\ \A i \in 1..L : vec[i] \in AnyPayee /\ n[vec[i]] \in Nat  BY <1>1
<1>4. ASSUME vec # <<>>  PROVE \E i \in 1..L : Best(i)
  <2>1. L # 0  BY <1>1, <1>4
  <2>2. f \in [1..L -> Nat]  BY <1>3
  <2> HIDE DEF f
  <2>3. PICK i \in 1..L : \A j \in 1..L : IF j < i THEN f[j] < f[i] ELSE f[j] <= f[i]
    BY <2>1, <2>2, <1>3, FirstBest
  <2>4. \A j \in 1..L : f[j] = n[vec[j]]  BY DEF f
  <2> QED  BY <2>3, <2>4
<1>5. ASSUME NEW p \in GetPayee(h)
      PROVE  p \in AnyPayee /\ \A i \in 1..L : n[vec[i]] <= n[p]
  <2>1. PICK i \in 1..L : p = vec[i] /\ Best(i)  BY <1>2
  <2>2. ASSUME NEW j \in 1..L  PROVE n[vec[j]] <= n[p]  BY <2>1, <1>3
  <2> QED  BY <2>1, <2>2, <1>3
<1> QED  BY <1>2, <1>4, <1>5 DEF vec, n

(* Whom FillBlockPayee pays has the most votes, so enough if any has, and  *)
(* is paid what IsTransactionValid wants for the height of the entry.      *)
LEMMA PlacedMined == Inv /\ PlacedInv => MinedIsAccepted
<1> SUFFICES ASSUME Inv, PlacedInv, tip # FirstPaid, tip + 1 # EarlyEnd, tip + 1 \notin late, NEW p \in FillBlockPayee,
                    blocks[tip + 1].at # None,
                    NEW w \in AnyPayee, blocks[tip + 1].n[w] >= Required
             PROVE  /\ p \in AnyPayee /\ blocks[tip + 1].n[p] >= Required
                    /\ Paid = GetMasternodePayment(blocks[tip + 1].at)
  BY DEF MinedIsAccepted, IsTransactionValid, AnyPayee
<1> DEFINE h == tip + 1
           e == blocks[h]
<1>1. TypeOK /\ h \in Height /\ tip \in Nat \ {0}
  <2>1. TypeOK  BY DEF Inv
  <2>2. tip \in 1..MaxTip  BY <2>1 DEF TypeOK
  <2>3. MaxTip \in Nat /\ Window \in Nat /\ Window > 0  BY PaymentAssumption
  <2> QED  BY <2>1, <2>2, <2>3 DEF Height
<1>2. e.n \in [AnyPayee -> Nat] /\ e.vec \in Seq(AnyPayee)  BY <1>1 DEF TypeOK, BlockMap, AnyPayee
<1>3. e.at = h  BY <1>1 DEF PlacedInv, Placed
<1>4. e.n[w] # 0  BY <1>2, PaymentAssumption
<1>5. PICK i \in 1..Len(e.vec) : e.vec[i] = w  BY <1>1, <1>4 DEF PlacedInv, Placed
<1>6. e.vec # <<>>  BY <1>2, <1>5
<1>7. p \in GetPayee(h)  BY <1>1, <1>6, GetPayeeFacts DEF FillBlockPayee
<1>8. p \in AnyPayee /\ e.n[w] <= e.n[p]  BY <1>1, <1>5, <1>7, GetPayeeFacts
<1>9. e.n[p] >= Required  BY <1>2, <1>8, PaymentAssumption
<1>10. Paid = GetMasternodePayment(e.at)
  <2>1. tip > 0 /\ FirstPaid \in Nat /\ EarlyEnd \in Nat  BY <1>1, PaymentAssumption
  <2>2. GetBlockValue(tip) = GetBlockValue(h)  BY <2>1, <1>1 DEF GetBlockValue
  <2>3. tip <= FirstPaid <=> h <= FirstPaid  BY <2>1, <1>1
  <2> QED  BY <2>2, <2>3, <1>3 DEF Paid, GetMasternodePayment
<1> QED  BY <1>8, <1>9, <1>10

(* Opening an entry for its height, adding a payee and cleaning keep the   *)
(* entries in their places.                                                *)
LEMMA OpenedPlaced ==
    ASSUME NEW b \in BlockMap, Entries(b), NEW l, Placed(b, l), NEW g \in Height, NEW at \in Height,
           b[g].at # None \/ at = g \/ g \in l
    PROVE  /\ Placed(Opened(b, g, at), l)
           /\ \A h \in Height : b[h].at # None => Opened(b, g, at)[h].at # None
<1> DEFINE c == Opened(b, g, at)
           e == Entry(at, <<>>, NoVotes)
<1>1. CASE b[g].at = None
  <2>1. c = [b EXCEPT ![g] = e]  BY <1>1 DEF Opened
  <2>2. e.at = at /\ \A p \in AnyPayee : e.n[p] = 0  BY DEF Entry, NoVotes, AnyPayee
  <2> HIDE DEF e
  <2>3. \A h \in Height : c[h] = IF h = g THEN e ELSE b[h]  BY <2>1 DEF BlockMap
  <2> HIDE DEF c
  <2>4. Placed(c, l)  BY <2>2, <2>3, <1>1 DEF Placed
  <2>5. \A h \in Height : b[h].at # None => c[h].at # None  BY <2>3, <1>1
  <2> QED  BY <2>4, <2>5 DEF c
<1>2. CASE b[g].at # None
  BY <1>2 DEF Opened
<1> QED  BY <1>1, <1>2

LEMMA AddPayeePlaced ==
    ASSUME NEW b \in BlockMap, NEW l, Placed(b, l), NEW g \in Height, NEW q \in AnyPayee,
           NEW c, c = [b EXCEPT ![g] = AddPayee(b[g], q)]
    PROVE  Placed(c, l) /\ \A h \in Height : b[h].at # None => c[h].at # None
<1> DEFINE e == AddPayee(b[g], q)
           n == b[g].n
           vec == b[g].vec
<1>1. n \in [AnyPayee -> Nat] /\ vec \in Seq(AnyPayee)  BY DEF BlockMap, AnyPayee
<1>2. /\ e.at = b[g].at /\ e.n = [n EXCEPT ![q] = n[q] + 1]
      /\ e.vec = IF n[q] = 0 THEN Append(vec, q) ELSE vec
  BY DEF AddPayee, Entry
<1>3. \A h \in Height : c[h] = IF h = g THEN e ELSE b[h]  BY DEF BlockMap
<1>4. \A p \in AnyPayee : n[p] # 0 => \E i \in 1..Len(vec) : vec[i] = p  BY DEF Placed
<1> HIDE DEF e, n, vec
<1>5. ASSUME NEW p \in AnyPayee, e.n[p] # 0  PROVE \E i \in 1..Len(e.vec) : e.vec[i] = p
  <2>1. CASE n[p] # 0
    <3>1. PICK i \in 1..Len(vec) : vec[i] = p  BY <2>1, <1>4
    <3>2. i \in 1..Len(e.vec) /\ e.vec[i] = p  BY <3>1, <1>1, <1>2
    <3> QED  BY <3>2
  <2>2. CASE n[p] = 0
    <3>1. p = q  BY <2>2, <1>1, <1>2, <1>5
    <3>2. e.vec = Append(vec, q)  BY <3>1, <2>2, <1>2
    <3>3. Len(vec) + 1 \in 1..Len(e.vec) /\ e.vec[Len(vec) + 1] = q  BY <3>2, <1>1
    <3> QED  BY <3>1, <3>3
  <2> QED  BY <2>1, <2>2
<1>6. e.at # None => e.at = g \/ g \in l  BY <1>2 DEF Placed
<1>7. ASSUME NEW h \in Height
      PROVE  /\ c[h].at # None => c[h].at = h \/ h \in l
             /\ \A p \in AnyPayee : c[h].n[p] # 0 => \E i \in 1..Len(c[h].vec) : c[h].vec[i] = p
             /\ b[h].at # None => c[h].at # None
  <2>1. CASE h = g
    <3>1. c[h] = e  BY <2>1, <1>3
    <3> QED  BY <3>1, <2>1, <1>2, <1>5, <1>6
  <2>2. CASE h # g
    <3>1. c[h] = b[h]  BY <2>2, <1>3
    <3> QED  BY <3>1 DEF Placed
  <2> QED  BY <2>1, <2>2
<1> QED  BY <1>7 DEF Placed

LEMMA CleanedPlaced ==
    ASSUME NEW b, NEW w, NEW l, NEW k, l \subseteq k, Placed(b, l)
    PROVE  /\ Placed(Cleaned(b, w), k)
           /\ \A h \in Height : b[h].at # None /\ Cleaned(b, w)[h].at = None => \E x \in w : x.height = h /\ Old(x)
<1> DEFINE c == Cleaned(b, w)
<1>1. NoEntry.at = None /\ \A p \in AnyPayee : NoEntry.n[p] = 0  BY DEF NoEntry, Entry, NoVotes, AnyPayee
<1>2. \A h \in Height : c[h] = IF \E x \in w : x.height = h /\ Old(x) THEN NoEntry ELSE b[h]  BY DEF Cleaned
<1> HIDE DEF c
<1>3. Placed(c, k)  BY <1>1, <1>2 DEF Placed
<1> QED  BY <1>2, <1>3 DEF c

(* A start reads a file whose entries are in their places.                 *)
LEMMA StartPlaced ==
    ASSUME NEW f, Placed(f.blocks, f.late), Start(f)
    PROVE  PlacedInv'
<1>1. Placed(Cleaned(f.blocks, f.votes), f.late)  BY CleanedPlaced
<1>2. blocks' = Cleaned(f.blocks, f.votes) /\ late' = f.late /\ disk' = f  BY DEF Start
<1>3. \A th \in Thread : adding'[th] = None  BY DEF Start
<1>4. Placed(blocks', late') /\ Placed(disk'.blocks, disk'.late)  BY <1>1, <1>2
<1> QED  BY <1>3, <1>4 DEF PlacedInv, Placed

(* A vote is stored, and the entry for its height made.                    *)
LEMMA StorePlaced ==
    ASSUME Inv, PlacedInv, NEW th \in Thread, NEW v \in Vote, Store(th, v), UNCHANGED <<disk, late>>
    PROVE  PlacedInv'
<1>1. /\ blocks \in BlockMap /\ Entries(blocks) /\ v.height \in Height
      /\ blocks' = Opened(blocks, v.height, v.height) /\ Placed(blocks, late)
  BY DEF Inv, TypeOK, Store, Vote, PlacedInv
<1>2. /\ Placed(blocks', late) /\ \A h \in Height : blocks[h].at # None => blocks'[h].at # None
      /\ blocks'[v.height].at # None
  BY ONLY <1>1, OpenedPlaced, OpenedFacts
<1>3. \A u \in Thread : adding'[u] = IF u = th THEN v ELSE adding[u]  BY DEF Store, Inv, TypeOK
<1>4. \A u \in Thread : adding[u] # None => adding[u].height \in Height  BY DEF Inv, TypeOK, Vote
<1>5. \A u \in Thread : adding'[u] # None => adding'[u].height \in late \/ blocks'[adding'[u].height].at # None
  BY <1>2, <1>3, <1>4 DEF PlacedInv
<1> QED  BY <1>2, <1>5 DEF PlacedInv, Placed

(* Its count finds that entry, unless it was cleaned away.                 *)
LEMMA CountPlaced ==
    ASSUME Inv, PlacedInv, NEW th \in Thread, Count(th)
    PROVE  PlacedInv'
<1> DEFINE v == adding[th]
           b == Opened(blocks, v.height, 0)
<1>1. v \in Vote /\ v.height \in Height /\ v.payee \in AnyPayee /\ 0 \in Height
  <2>1. v \in Vote  BY DEF Inv, Count, TypeOK
  <2>2. 0 \in Height  BY PaymentAssumption DEF Height
  <2> HIDE DEF v
  <2>3. v.height \in Height /\ v.payee \in AnyPayee  BY ONLY <2>1 DEF Vote, AnyPayee
  <2> QED  BY <2>1, <2>2, <2>3
<1>2. /\ blocks \in BlockMap /\ Entries(blocks) /\ Placed(blocks, late)
      /\ blocks[v.height].at # None \/ v.height \in late
  BY DEF Inv, TypeOK, PlacedInv, Count
<1>3. blocks' = [b EXCEPT ![v.height] = AddPayee(b[v.height], v.payee)]  BY DEF Count
<1>4. \A u \in Thread : adding'[u] = IF u = th THEN None ELSE adding[u]  BY DEF Count, Inv, TypeOK
<1>5. UNCHANGED <<disk, late>>  BY DEF Count, file
<1>6. \A u \in Thread : adding[u] # None => adding[u].height \in Height  BY DEF Inv, TypeOK, Vote
<1> HIDE DEF b, v
<1>7. b \in BlockMap /\ Placed(b, late) /\ \A h \in Height : blocks[h].at # None => b[h].at # None
  BY ONLY <1>1, <1>2, OpenedPlaced, OpenedFacts DEF b
<1>8. Placed(blocks', late) /\ \A h \in Height : b[h].at # None => blocks'[h].at # None
  <2> DEFINE c == blocks'
             g == v.height
             q == v.payee
  <2>1. g \in Height /\ q \in AnyPayee /\ c = [b EXCEPT ![g] = AddPayee(b[g], q)]  BY <1>1, <1>3
  <2> HIDE DEF c, g, q
  <2>2. Placed(c, late) /\ \A h \in Height : b[h].at # None => c[h].at # None  BY ONLY <2>1, <1>7, AddPayeePlaced
  <2> QED  BY <2>2 DEF c
<1>9. \A u \in Thread : adding'[u] # None => adding'[u].height \in late \/ blocks'[adding'[u].height].at # None
  BY <1>4, <1>6, <1>7, <1>8 DEF PlacedInv
<1> QED  BY <1>5, <1>8, <1>9 DEF PlacedInv, Placed

(* Cleaning takes the entry from a vote that is yet to be counted only by  *)
(* taking the vote too, which is then late.                                *)
LEMMA CleanPlaced ==
    ASSUME Inv, PlacedInv, CleanPaymentList
    PROVE  PlacedInv'
<1> USE DEF CleanPaymentList
<1>1. late \subseteq late' /\ Placed(blocks, late) /\ blocks' = Cleaned(blocks, votes)  BY DEF PlacedInv
<1>2. /\ Placed(blocks', late')
      /\ \A h \in Height : blocks[h].at # None /\ blocks'[h].at = None => \E x \in votes : x.height = h /\ Old(x)
  BY ONLY <1>1, CleanedPlaced
<1>3. ASSUME NEW th \in Thread, adding[th] # None, adding[th].height \notin late'
      PROVE  blocks'[adding[th].height].at # None
  <2>1. adding[th].height \in Height /\ adding[th].height \notin late  BY <1>1, <1>3 DEF Inv, TypeOK, Vote
  <2>2. blocks[adding[th].height].at # None /\ adding[th] \in votes  BY <2>1, <1>3 DEF PlacedInv, Inv, Pending
  <2>3. ASSUME NEW x \in votes, x.height = adding[th].height, Old(x)  PROVE FALSE
    <3>1. Old(adding[th])  BY <2>3 DEF Old
    <3> QED  BY <3>1, <2>2, <1>3
  <2> QED  BY <2>1, <2>2, <2>3, <1>2
<1> QED  BY <1>2, <1>3 DEF PlacedInv, Placed

LEMMA PlacedStep == Inv /\ PlacedInv /\ [Next]_vars => PlacedInv'
<1> SUFFICES ASSUME Inv, PlacedInv, [Next]_vars  PROVE PlacedInv'
  OBVIOUS
<1>0. ASSUME UNCHANGED <<blocks, adding, late, disk>>  PROVE PlacedInv'
  BY <1>0 DEF PlacedInv, Placed
<1>1. ASSUME NEW v \in Network \cup sent, WinnerAccepted(v)  PROVE PlacedInv'
  <2>1. v \in Vote /\ MsgThread \in Thread  BY PaymentAssumption DEF Inv, TypeOK
  <2> QED  BY <2>1, <1>1, StorePlaced DEF WinnerAccepted
<1>2. ASSUME NEW v \in Network \cup sent, WinnerRefused(v)  PROVE PlacedInv'
  BY <1>0, <1>2 DEF WinnerRefused, file
<1>3. ASSUME NEW m \in MN, LearnMasternode(m)  PROVE PlacedInv'
  BY <1>0, <1>3 DEF LearnMasternode, memory, file
<1>4. ASSUME NEW th \in Thread, NEW v \in Vote, ProcessBlock(th, v)  PROVE PlacedInv'
  BY <1>4, StorePlaced DEF ProcessBlock
<1>5. CASE NewTip \/ BeginDump
  BY <1>0, <1>5 DEF NewTip, BeginDump, memory, file
<1>6. CASE Restart
  <2> DEFINE f == File(dump, blocks, quiet /\ ~ torn, late)
  <2>1. f.blocks = blocks /\ f.late = late /\ Start(f)  BY <1>6 DEF File, Restart
  <2> HIDE DEF f
  <2>2. Placed(f.blocks, f.late)  BY <2>1 DEF PlacedInv
  <2> QED  BY <2>1, <2>2, StartPlaced
<1>7. CASE Crash
  BY <1>7, StartPlaced DEF Crash, PlacedInv
<1>8. CASE CrashInWrite
  <2>1. NoFile.blocks = Empty /\ \A h \in Height : Empty[h] = NoEntry  BY DEF NoFile, File, Empty
  <2>2. NoEntry.at = None /\ \A p \in AnyPayee : NoEntry.n[p] = 0  BY DEF NoEntry, Entry, NoVotes, AnyPayee
  <2>3. Placed(NoFile.blocks, NoFile.late)  BY <2>1, <2>2 DEF Placed
  <2> QED  BY <2>3, <1>8, StartPlaced DEF CrashInWrite
<1>9. CASE UNCHANGED vars
  BY <1>0, <1>9 DEF vars
<1> QED
  BY <1>1, <1>2, <1>3, <1>4, <1>5, <1>6, <1>7, <1>8, <1>9, CountPlaced, CleanPlaced DEF Next

(* The payee that FillBlockPayee takes from GetPayee is one that           *)
(* IsTransactionValid accepts, for any votes, threads, cleaning, dumps and *)
(* restarts in between.                                                    *)
THEOREM MinedCorrect == Spec => []MinedIsAccepted
<1>1. Init => PlacedInv
  <2> SUFFICES ASSUME Init  PROVE PlacedInv
    OBVIOUS
  <2>1. NoFile.blocks = Empty /\ \A h \in Height : Empty[h] = NoEntry  BY DEF NoFile, File, Empty
  <2>2. NoEntry.at = None /\ \A p \in AnyPayee : NoEntry.n[p] = 0  BY DEF NoEntry, Entry, NoVotes, AnyPayee
  <2>3. Placed(Empty, late) /\ Placed(NoFile.blocks, NoFile.late)  BY <2>1, <2>2 DEF Placed
  <2> QED  BY <2>3 DEF Init, PlacedInv
<1> QED  BY <1>1, Invariance, PlacedStep, PlacedMined, PTL DEF Spec
=============================================================================

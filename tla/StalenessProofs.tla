---------------------------- MODULE StalenessProofs ----------------------------
(***************************************************************************)
(* Proofs about what readers see that are told of changes too late.  For a *)
(* cached page, any number of readers and writers and any lifetimes: how   *)
(* old what it shows can be, and by whose change it can have been          *)
(* overtaken.  For the live seat count, any number of requests, clients    *)
(* and changes: no change is forgotten on the way to the group, a client   *)
(* that missed nothing follows the group, and so a screen at rest is stale *)
(* only for one of the reasons the code has.                               *)
(***************************************************************************)
EXTENDS ReadCaches, SeatBroadcast, SequenceTheorems, TLAPS

-----------------------------------------------------------------------------
(*                            Cached pages.                                *)

CacheIInv == CacheInv /\ StaleOnlyIfUntold

-----------------------------------------------------------------------------
(* The parts of a step.                                                    *)

LEMMA Lifetimes ==
  ASSUME page \in Pages
  PROVE  TTL[page] \in Nat \ {0} /\ RequestTime \in Nat /\ MaxVersion \in Nat /\ MaxAge \in Nat
BY CacheAssumption DEF MaxAge

(* A step of one reader leaves the others where they are. *)
LEMMA ReaderMoves ==
  ASSUME TypeOK, NEW r \in Readers, NEW q \in ReaderSet, reader' = [reader EXCEPT ![r] = q]
  PROVE  /\ reader' \in [Readers -> ReaderSet] /\ reader'[r] = q
         /\ \A s \in Readers : s # r => reader'[s] = reader[s]
BY DEF TypeOK

(* A step of one writer leaves the others where they are. *)
LEMMA WriterMoves ==
  ASSUME TypeOK, NEW w \in Writers, NEW q \in WriterSet, writer' = [writer EXCEPT ![w] = q]
  PROVE  /\ writer' \in [Writers -> WriterSet] /\ writer'[w] = q
         /\ \A x \in Writers : x # w => writer'[x] = writer[x]
BY DEF TypeOK

LEMMA IdleOK == IdleReader \in ReaderSet /\ IdleWriter \in WriterSet
BY CacheAssumption DEF IdleReader, IdleWriter, ReaderSet, WriterSet, Versions

(* What an entry is after a step that may remove it but does not set it. *)
LEMMA BustedOK == ASSUME TypeOK PROVE Busted \in {entry, None}
BY DEF Busted

(* A version of the rows that is new has not begun to age, and whatever is *)
(* read or cached is older than it.                                        *)
LEMMA NewVersionAges ==
  ASSUME CacheInv, NewVersion, entry' \in {entry, None}, UNCHANGED <<page, reader, age>>
  PROVE  version' \in Versions /\ AgesBounded'
<1>1. version \in Nat /\ version' = version + 1 /\ version' \in Versions
  BY CacheAssumption DEF CacheInv, TypeOK, NewVersion, Versions
<1>2. \A v \in Versions : v \in Nat
  BY DEF Versions
<1>3. (\A v \in Versions : v >= version => age[v] = 0)'
  BY <1>1, <1>2 DEF CacheInv, AgesBounded, Versions
<1>4. (\A r \in Readers : ReadOf(r, "set") =>
         reader[r].version <= version /\ age[reader[r].version] <= reader[r].time)'
  BY <1>1 DEF CacheInv, AgesBounded, ReadOf, TypeOK, ReaderSet, Versions
<1>5. (entry # None =>
         entry.version <= version /\ age[entry.version] + entry.left <= TTL[page] + RequestTime)'
  BY <1>1 DEF CacheInv, AgesBounded, TypeOK, Entries, Versions
<1> QED BY <1>1, <1>3, <1>4, <1>5 DEF AgesBounded

(* A version that stays leaves the ages alone. *)
LEMMA SameVersionAges ==
  ASSUME CacheInv, entry' \in {entry, None}, UNCHANGED <<page, version, reader, age>>
  PROVE  AgesBounded'
BY DEF CacheInv, AgesBounded, ReadOf

-----------------------------------------------------------------------------
(* The inductive step.                                                     *)

LEMMA InitKeeps == Init => CacheIInv
<1> SUFFICES ASSUME Init PROVE CacheIInv
  OBVIOUS
<1>1. page \in Pages
  BY DEF Init
<1>2. TypeOK
  <2>1. MaxAge \in Nat /\ RequestTime \in Nat /\ MaxVersion \in Nat
    BY <1>1, Lifetimes
  <2>2. version \in Versions /\ quiet \subseteq Versions /\ age \in [Versions -> 0..MaxAge]
    BY <2>1 DEF Init, Versions
  <2>3. status \in {"draft", "shown", "gone"} /\ entry \in {None} \cup Entries
    BY DEF Init
  <2> QED BY <1>1, <2>2, <2>3, IdleOK DEF Init, TypeOK
<1>3. AgesBounded
  BY DEF Init, AgesBounded, ReadOf, IdleReader
<1>4. StaleOnlyIfUntold
  BY DEF Init, StaleOnlyIfUntold
<1> QED BY <1>2, <1>3, <1>4 DEF CacheIInv, CacheInv

(* A reader sets what it has read: its version has aged no longer than the *)
(* request has taken, and the entry is called fresh only if nothing was    *)
(* committed meanwhile.                                                    *)
LEMMA ReaderKeeps ==
  ASSUME CacheIInv, NEW r \in Readers,
         Hit(r) \/ Miss(r) \/ Load(r) \/ SetPage(r) \/ ReaderDies(r)
  PROVE  CacheIInv'
<1> USE DEF CacheIInv, CacheInv
<1>t. TTL[page] \in Nat \ {0} /\ RequestTime \in Nat /\ MaxVersion \in Nat
  BY Lifetimes DEF TypeOK
<1>1. CASE Hit(r)
  BY <1>1 DEF Hit, vars, rowVars, TypeOK, MaxAge, Entries, AgesBounded, ReadOf, StaleOnlyIfUntold, Pending, At
<1>2. CASE Miss(r) \/ Load(r) \/ ReaderDies(r)
  <2>1. PICK q \in ReaderSet :
          /\ reader' = [reader EXCEPT ![r] = q]
          /\ q.step = "set" => q.version = version
    <3>1. CASE Miss(r)
      <4> DEFINE q == [reader[r] EXCEPT !.step = "load"]
      <4>1. q \in ReaderSet /\ q.step = "load" /\ reader' = [reader EXCEPT ![r] = q]
        BY <3>1 DEF Miss, TypeOK, ReaderSet
      <4> QED BY <4>1
    <3>2. CASE Load(r)
      <4>1. CASE Found
        <5> DEFINE q == [step |-> "set", version |-> version, time |-> 0]
        <5>1. q \in ReaderSet /\ reader' = [reader EXCEPT ![r] = q]
          BY <1>t, <3>2, <4>1 DEF Load, TypeOK, ReaderSet
        <5> QED BY <5>1
      <4>2. CASE ~Found
        BY <3>2, <4>2, IdleOK DEF Load, IdleReader
      <4> QED BY <4>1, <4>2
    <3>3. CASE ReaderDies(r)
      BY <3>3, IdleOK DEF ReaderDies, IdleReader
    <3> QED BY <1>2, <3>1, <3>2, <3>3
  <2>2. /\ reader' \in [Readers -> ReaderSet] /\ reader'[r] = q
        /\ \A s \in Readers : s # r => reader'[s] = reader[s]
    BY <2>1, ReaderMoves
  <2>3. UNCHANGED <<page, version, status, quiet, entry, writer, age>>
    BY <1>2 DEF Miss, Load, ReaderDies, rowVars
  <2>4. TypeOK'
    BY <2>2, <2>3 DEF TypeOK, MaxAge, Entries
  <2>5. AgesBounded'
    <3>1. version \in Nat /\ version \in Versions /\ age[version] = 0 /\ q.time \in Nat
      BY <1>t DEF TypeOK, AgesBounded, Versions, ReaderSet
    <3>2. ASSUME NEW s \in Readers, reader'[s].step = "set"
          PROVE  reader'[s].version <= version /\ age[reader'[s].version] <= reader'[s].time
      BY <2>1, <2>2, <3>1, <3>2 DEF AgesBounded, ReadOf
    <3> QED BY <2>3, <3>2 DEF AgesBounded, ReadOf
  <2>6. StaleOnlyIfUntold'
    BY <2>3 DEF StaleOnlyIfUntold, Pending, At
  <2> QED BY <2>4, <2>5, <2>6
<1>3. CASE SetPage(r)
  <2>1. /\ reader' \in [Readers -> ReaderSet] /\ reader'[r] = IdleReader
        /\ \A s \in Readers : s # r => reader'[s] = reader[s]
    BY <1>3, IdleOK, ReaderMoves DEF SetPage
  <2>2. /\ entry' = [version |-> reader[r].version, left |-> TTL[page],
                     fresh |-> reader[r].version = version]
        /\ UNCHANGED <<page, version, status, quiet, writer, age>>
    BY <1>3 DEF SetPage, rowVars
  <2>3. /\ reader[r].version \in Versions /\ reader[r].version <= version
        /\ age[reader[r].version] <= reader[r].time
        /\ reader[r].time \in 0..RequestTime
        /\ age[reader[r].version] \in Nat
    BY <1>3, <1>t DEF SetPage, ReadOf, TypeOK, AgesBounded, ReaderSet, MaxAge
  <2>4. TypeOK'
    <3>1. entry' \in Entries
      BY <2>2, <2>3, <1>t DEF Entries
    <3> QED BY <2>1, <2>2, <3>1 DEF TypeOK, MaxAge, Entries
  <2>5. AgesBounded'
    BY <1>t, <2>1, <2>2, <2>3 DEF AgesBounded, ReadOf, IdleReader
  <2>6. StaleOnlyIfUntold'
    <3>1. ASSUME entry'.fresh PROVE entry'.version = version
      BY <2>2, <3>1
    <3>2. \A v \in Versions : ~(version < v /\ v <= version)
      BY DEF TypeOK, Versions
    <3> QED BY <2>2, <3>1, <3>2 DEF StaleOnlyIfUntold
  <2> QED BY <2>4, <2>5, <2>6
<1> QED BY <1>1, <1>2, <1>3

(* The versions that may overtake a fresh entry: a step keeps them all, or *)
(* takes the entry away, and adds the version it has committed.            *)
LEMMA UntoldKeeps ==
  ASSUME CacheIInv, page' = page, entry' \in {entry, None}, version' \in {version, version + 1},
         \/ page = "list" \/ entry' = None
         \/ /\ Pending \subseteq Pending' \cup quiet' /\ quiet \subseteq quiet'
            /\ version' = version \/ version' \in Pending' \cup quiet'
  PROVE  StaleOnlyIfUntold'
<1>1. \A v \in Versions : v \in Nat
  BY DEF Versions
<1>2. version \in Versions /\ version \in Nat
  BY DEF CacheIInv, CacheInv, TypeOK, Versions
<1>3. CASE page = "list" \/ entry' = None
  BY <1>3 DEF StaleOnlyIfUntold
<1>4. CASE entry' = entry /\ page # "list" /\ entry # None
  <2>1. SUFFICES ASSUME entry.fresh, NEW v \in Versions, entry.version < v, v <= version'
                 PROVE  v \in Pending' \cup quiet'
    BY <1>4 DEF StaleOnlyIfUntold, Versions
  <2>2. CASE v <= version
    BY <1>4, <2>1, <2>2 DEF CacheIInv, StaleOnlyIfUntold
  <2>3. CASE v = version' /\ version' # version
    BY <1>4, <2>3
  <2> QED BY <1>1, <1>2, <2>1, <2>2, <2>3
<1> QED BY <1>3, <1>4

(* A writer that commits nothing: its version stays pending until the      *)
(* writer has busted the key, or died.                                     *)
LEMMA WriterKeeps ==
  ASSUME CacheIInv, NEW w \in Writers, SaveStatus(w) \/ Signal(w) \/ Tell(w) \/ WriterDies(w)
  PROVE  CacheIInv'
<1> USE DEF CacheIInv, CacheInv
<1>1. PICK q \in WriterSet : writer' = [writer EXCEPT ![w] = q]
  <2>1. CASE SaveStatus(w)
    <3> DEFINE q == [writer[w] EXCEPT !.step = "open"]
    <3>1. q \in WriterSet /\ writer' = [writer EXCEPT ![w] = q]
      BY <2>1 DEF SaveStatus, TypeOK, WriterSet
    <3> QED BY <3>1
  <2>2. CASE Signal(w)
    <3> DEFINE p == [writer[w] EXCEPT !.step = "signalled"]
               q == [writer[w] EXCEPT !.step = "committed"]
    <3>1. /\ p \in WriterSet /\ q \in WriterSet
          /\ writer' = [writer EXCEPT ![w] = p] \/ writer' = [writer EXCEPT ![w] = q]
      BY <2>2 DEF Signal, TypeOK, WriterSet
    <3> QED BY <3>1
  <2>3. CASE Tell(w) \/ WriterDies(w)
    BY <2>3, IdleOK DEF Tell, WriterDies
  <2> QED BY <2>1, <2>2, <2>3
<1>2. /\ writer' \in [Writers -> WriterSet] /\ writer'[w] = q
      /\ \A x \in Writers : x # w => writer'[x] = writer[x]
  BY <1>1, WriterMoves
<1>3. /\ UNCHANGED <<page, version, status, reader, age>>
      /\ entry' \in {entry, None} /\ quiet \subseteq quiet'
      /\ quiet' \subseteq quiet \cup {writer[w].version}
  BY BustedOK DEF SaveStatus, Signal, Tell, WriterDies, rowVars
<1>4. TypeOK'
  <2>1. writer[w].version \in Versions
    BY DEF TypeOK, WriterSet
  <2> QED BY <1>2, <1>3, <2>1 DEF TypeOK, MaxAge, Entries
<1>5. AgesBounded'
  BY <1>3, SameVersionAges
<1>6. page = "list" \/ entry' = None \/ Pending \subseteq Pending' \cup quiet'
  <2>1. CASE Tell(w)
    BY <2>1 DEF Tell, Busted
  <2>2. CASE SaveStatus(w) \/ Signal(w) \/ WriterDies(w)
    <3>1. At(w, "saved") \/ At(w, "committed") =>
            \/ writer[w].version \in quiet'
            \/ At(w, "committed")' /\ writer'[w].version = writer[w].version
      BY <2>2 DEF SaveStatus, Signal, WriterDies, At, TypeOK, WriterSet
    <3> QED BY <1>2, <3>1 DEF Pending, At
  <2> QED BY <2>1, <2>2
<1>7. StaleOnlyIfUntold'
  BY <1>3, <1>6, UntoldKeeps
<1> QED BY <1>4, <1>5, <1>7

(* A commit: its version is pending, or its writer is one that never tells. *)
LEMMA CommitKeeps ==
  ASSUME CacheIInv,
         \/ \E w \in Writers : Edit(w) \/ CommitStatus(w) \/ CommitForm(w) \/ OrderCommit(w)
         \/ QuietChange
  PROVE  CacheIInv'
<1> USE DEF CacheIInv, CacheInv
<1>1. /\ NewVersion /\ UNCHANGED <<page, entry, reader, age>>
      /\ quiet' = quiet \/ quiet' = quiet \cup {version + 1}
      /\ status' \in {"draft", "shown", "gone"}
  BY DEF Edit, CommitStatus, CommitForm, OrderCommit, QuietChange, NewVersion, TypeOK
<1>2. version' = version + 1 /\ version' \in Versions /\ AgesBounded'
  BY <1>1, NewVersionAges DEF NewVersion
<1>3. /\ writer' \in [Writers -> WriterSet]
      /\ Pending \subseteq Pending'
      /\ version' \in Pending' \cup quiet'
  <2>1. CASE QuietChange
    BY <1>2, <2>1 DEF QuietChange, TypeOK, Pending, At
  <2>2. ASSUME NEW w \in Writers, Edit(w) \/ CommitStatus(w) \/ OrderCommit(w)
        PROVE  writer' \in [Writers -> WriterSet] /\ Pending \subseteq Pending' /\ version' \in Pending' \cup quiet'
    <3>1. PICK step \in {"saved", "committed"} : Committed(w, step)
      BY <2>2 DEF Edit, CommitStatus, OrderCommit
    <3> DEFINE q == [step |-> step, version |-> version + 1]
    <3>2. q \in WriterSet /\ writer' = [writer EXCEPT ![w] = q]
      BY <1>2, <3>1 DEF Committed, WriterSet
    <3>3. /\ writer' \in [Writers -> WriterSet] /\ writer'[w] = q
          /\ \A x \in Writers : x # w => writer'[x] = writer[x]
      BY <3>2, WriterMoves
    <3>4. ~At(w, "saved") /\ ~At(w, "committed")
      BY <2>2 DEF Edit, CommitStatus, OrderCommit, At
    <3> QED BY <1>2, <3>3, <3>4 DEF Pending, At
  <2>3. ASSUME NEW w \in Writers, CommitForm(w)
        PROVE  writer' \in [Writers -> WriterSet] /\ Pending \subseteq Pending' /\ version' \in Pending' \cup quiet'
    <3>1. /\ writer' \in [Writers -> WriterSet]
          /\ \A x \in Writers : x # w => writer'[x] = writer[x]
      BY <2>3, IdleOK, WriterMoves DEF CommitForm
    <3>2. ~At(w, "saved") /\ ~At(w, "committed") /\ quiet' = quiet \cup {version + 1}
      BY <2>3 DEF CommitForm, At
    <3> QED BY <1>2, <3>1, <3>2 DEF Pending, At
  <2> QED BY <2>1, <2>2, <2>3
<1>4. TypeOK'
  BY <1>1, <1>2, <1>3 DEF TypeOK, MaxAge, Entries
<1>5. StaleOnlyIfUntold'
  BY <1>1, <1>2, <1>3, UntoldKeeps
<1> QED BY <1>2, <1>4, <1>5

(* A tick: what has aged by one has one less left, or one more tick in the *)
(* hands of its reader.                                                    *)
LEMMA TickKeeps ==
  ASSUME CacheIInv, Tick
  PROVE  CacheIInv'
<1> USE DEF CacheIInv, CacheInv
<1>1. TTL[page] \in Nat \ {0} /\ RequestTime \in Nat /\ MaxVersion \in Nat /\ MaxAge \in Nat
  BY Lifetimes DEF TypeOK
<1>2. UNCHANGED <<page, version, status, quiet, writer>>
  BY DEF Tick, rowVars
<1>3. /\ age' \in [Versions -> 0..MaxAge]
      /\ \A v \in Versions : age[v] \in Nat /\ age'[v] \in Nat /\ age'[v] <= age[v] + 1
      /\ \A v \in Versions : v >= version => age'[v] = 0
  BY <1>1 DEF Tick, TypeOK, AgesBounded, Versions
<1>4. \/ entry' = None
      \/ /\ entry \in Entries /\ entry # None /\ entry' = [entry EXCEPT !.left = @ - 1]
         /\ entry' \in Entries
         /\ entry'.version = entry.version /\ entry'.left = entry.left - 1
         /\ entry'.fresh = entry.fresh
  BY <1>1 DEF Tick, Aged, TypeOK, Entries
<1>5. reader' \in [Readers -> ReaderSet]
  BY <1>1 DEF Tick, TypeOK, ReaderSet, ReadOf
<1>6. \A r \in Readers : reader'[r].step = "set" =>
        /\ reader[r].step = "set"
        /\ reader'[r].version = reader[r].version /\ reader'[r].time = reader[r].time + 1
  BY <1>1 DEF Tick, TypeOK, ReaderSet, ReadOf
<1>7. TypeOK'
  BY <1>2, <1>3, <1>4, <1>5 DEF TypeOK, MaxAge, Entries
<1>8. AgesBounded'
  <2>1. ASSUME NEW r \in Readers, reader'[r].step = "set"
        PROVE  reader'[r].version <= version /\ age'[reader'[r].version] <= reader'[r].time
    BY <1>1, <1>3, <1>6, <2>1 DEF AgesBounded, ReadOf, TypeOK, ReaderSet
  <2>2. ASSUME entry' # None
        PROVE  /\ entry'.version <= version
               /\ age'[entry'.version] + entry'.left <= TTL[page] + RequestTime
    BY <1>1, <1>3, <1>4, <2>2 DEF AgesBounded, Entries
  <2> QED BY <1>2, <1>3, <2>1, <2>2 DEF AgesBounded, ReadOf
<1>9. StaleOnlyIfUntold'
  BY <1>2, <1>4 DEF StaleOnlyIfUntold, Pending, At
<1> QED BY <1>7, <1>8, <1>9

LEMMA CacheStep == CacheIInv /\ [Next]_vars => CacheIInv'
<1> SUFFICES ASSUME CacheIInv, [Next]_vars PROVE CacheIInv'
  OBVIOUS
<1>1. CASE UNCHANGED vars
  <2>1. UNCHANGED <<page, version, status, quiet, entry, reader, writer, age>>
    BY <1>1 DEF vars, rowVars
  <2> QED BY <2>1 DEF CacheIInv, CacheInv, TypeOK, MaxAge, Entries, AgesBounded, ReadOf,
                      StaleOnlyIfUntold, Pending, At
<1>2. CASE Next
  BY <1>2, ReaderKeeps, WriterKeeps, CommitKeeps, TickKeeps DEF Next
<1> QED BY <1>1, <1>2

-----------------------------------------------------------------------------
(* The theorems.                                                           *)

(* The invariant of the page: what an entry has left and what its version  *)
(* has aged add up (core/cache.py, core/cache_keys.py).                    *)
THEOREM CacheInvariant == Spec => [](CacheInv /\ StaleOnlyIfUntold)
BY InitKeeps, CacheStep, PTL DEF Spec, CacheIInv

(* No hit shows what was superseded longer ago than the page's lifetime    *)
(* and the time of the request that cached it, for any lifetimes.          *)
THEOREM StalenessBounded == Spec => []StaleWithinTtl
<1>1. CacheInv => StaleWithinTtl
  <2> SUFFICES ASSUME CacheInv, entry # None
               PROVE  age[entry.version] <= TTL[page] + RequestTime
    BY DEF StaleWithinTtl
  <2>1. TTL[page] \in Nat /\ RequestTime \in Nat /\ MaxAge \in Nat
    BY Lifetimes DEF CacheInv, TypeOK
  <2>2. entry.left \in 1..TTL[page] /\ entry.version \in Versions
    BY DEF CacheInv, TypeOK, Entries
  <2>3. age[entry.version] \in Nat
    BY <2>1, <2>2 DEF CacheInv, TypeOK
  <2> QED BY <2>1, <2>2, <2>3 DEF CacheInv, AgesBounded
<1> QED BY <1>1, CacheInvariant, PTL

(* An event's or an order's page that was current when it was cached is    *)
(* overtaken only by changes not told to the cache yet, or never told.     *)
THEOREM StaleNeedsUntold == Spec => []StaleOnlyIfUntold
BY CacheInvariant, PTL

-----------------------------------------------------------------------------
(*                         The live seat count.                            *)

StrangersHearNothing == \A c \in Clients \ Members : inbox[c] = <<>>

LEMMA Parts ==
  SeatsInv <=> SeatsTypeOK /\ NothingAhead /\ StrangersHearNothing /\ EveryChangeTold /\ MembersFollow
BY DEF SeatsInv, StrangersHearNothing

-----------------------------------------------------------------------------
(* Sequences of counts.                                                    *)

(* A count that is appended becomes the last. *)
LEMMA Appended ==
  ASSUME NEW S, NEW q \in Seq(S), NEW n \in S
  PROVE  /\ Append(q, n) \in Seq(S) /\ Append(q, n) # <<>>
         /\ Append(q, n)[Len(Append(q, n))] = n
BY AppendProperties

(* The first count is taken: what is left ends as before. *)
LEMMA Taken ==
  ASSUME NEW S, NEW q \in Seq(S), q # <<>>
  PROVE  /\ Head(q) \in S /\ Tail(q) \in Seq(S)
         /\ Tail(q) = <<>> => q[Len(q)] = Head(q)
         /\ Tail(q) # <<>> => Tail(q)[Len(Tail(q))] = q[Len(q)]
<1>1. Head(q) = q[1] /\ Head(q) \in S /\ Tail(q) \in Seq(S) /\ Len(q) \in Nat \ {0}
      /\ Len(Tail(q)) = Len(q) - 1
  BY HeadTailProperties, EmptySeq
<1>2. CASE Len(q) = 1
  <2>1. Len(Tail(q)) = 0 /\ \A p \in Seq(S) : p # <<>> => Len(p) \in Nat \ {0}
    BY <1>1, <1>2, EmptySeq
  <2>2. Tail(q) = <<>>
    BY <1>1, <2>1
  <2> QED BY <1>1, <1>2, <2>2
<1>3. CASE Len(q) # 1
  <2>1. Len(Tail(q)) \in 1..Len(Tail(q)) /\ Len(Tail(q)) + 1 = Len(q)
    BY <1>1, <1>3
  <2>2. Tail(q)[Len(Tail(q))] = q[Len(q)]
    BY <1>1, <2>1, HeadTailProperties
  <2> QED BY <1>1, <2>1, <2>2, EmptySeq
<1> QED BY <1>2, <1>3

(* A sequence of old counts is one of counts. *)
LEMMA Wider ==
  ASSUME NEW m \in Nat, NEW n \in Nat, m <= n, NEW q \in Seq(0..m)
  PROVE  q \in Seq(0..n)
BY SeqMonotonic

-----------------------------------------------------------------------------
(* Requests.                                                               *)

Announcers == {Idle} \cup
  [step : {"read", "send"}, change : 1..MaxChanges, seen : 0..MaxChanges]

(* A step of one request leaves the others where they are. *)
LEMMA SellerMoves ==
  ASSUME SeatsTypeOK, NEW s \in Sellers, NEW q \in Announcers, seller' = [seller EXCEPT ![s] = q]
  PROVE  /\ seller' \in [Sellers -> Announcers] /\ seller'[s] = q
         /\ \A x \in Sellers \ {s} : seller'[x] = seller[x]
BY DEF SeatsTypeOK, Announcers

LEMMA IdleIsIdle == Idle \in Announcers /\ Idle.step = "idle"
BY DEF Idle, Announcers

(* What a busy request has. *)
LEMMA Busy ==
  ASSUME SeatsInv, NEW s \in Sellers, seller[s] # Idle
  PROVE  /\ seller[s].step \in {"read", "send"}
         /\ seller[s].change \in 1..changes /\ seller[s].seen \in 0..changes
         /\ changes \in 0..MaxChanges /\ MaxChanges \in Nat
BY BroadcastAssumption DEF SeatsInv, SeatsTypeOK, NothingAhead

(* Nothing is ahead of a changes that is newer. *)
LEMMA LaterVersion ==
  ASSUME SeatsInv, changes < MaxChanges, changes' = changes + 1,
         UNCHANGED <<groupVars, clientVars>>
  PROVE  /\ changes \in 0..MaxChanges /\ changes' \in 1..MaxChanges
         /\ last' \in 0..changes' /\ told' \in 0..changes'
         /\ \A c \in Clients : number'[c] \in 0..changes' /\ inbox'[c] \in Seq(0..changes')
         /\ (SeatsTypeOK => stage' \in [Clients -> Stages]) /\ StrangersHearNothing' /\ MembersFollow'
<1>1. changes \in 0..MaxChanges /\ MaxChanges \in Nat
  BY BroadcastAssumption DEF SeatsInv, SeatsTypeOK
<1>2. changes' \in 1..MaxChanges /\ 0..changes \subseteq 0..changes'
  BY <1>1
<1>3. \A c \in Clients : inbox'[c] \in Seq(0..changes')
  BY <1>1, <1>2, Wider DEF SeatsInv, NothingAhead, clientVars
<1>4. StrangersHearNothing' /\ MembersFollow'
  BY Parts DEF StrangersHearNothing, MembersFollow, Members, Final, groupVars, clientVars
<1> QED BY <1>1, <1>2, <1>3, <1>4 DEF SeatsInv, NothingAhead, SeatsTypeOK, groupVars, clientVars

-----------------------------------------------------------------------------
(* The inductive step.                                                     *)

LEMMA SeatsInitKeeps == SeatsInit => SeatsInv
<1> SUFFICES ASSUME SeatsInit PROVE SeatsInv
  OBVIOUS
<1>1. SeatsTypeOK
  <2>1. changes \in 0..MaxChanges /\ <<>> \in Seq(0..MaxChanges)
    BY BroadcastAssumption, EmptySeq DEF SeatsInit
  <2>2. /\ stage \in [Clients -> Stages] /\ number \in [Clients -> 0..MaxChanges]
        /\ inbox \in [Clients -> Seq(0..MaxChanges)]
    BY <2>1 DEF SeatsInit, Stages
  <2> QED BY <2>1, <2>2 DEF SeatsInit, SeatsTypeOK
<1>2. NothingAhead
  BY EmptySeq DEF SeatsInit, NothingAhead
<1>3. StrangersHearNothing /\ EveryChangeTold /\ MembersFollow
  BY DEF SeatsInit, StrangersHearNothing, EveryChangeTold, MembersFollow, Members
<1> QED BY <1>1, <1>2, <1>3 DEF SeatsInv, StrangersHearNothing

(* A change is now somebody's to announce, or is untold. *)
LEMMA ChangeKeeps ==
  ASSUME SeatsInv, (\E s \in Sellers : Change(s)) \/ ChangeSilently
  PROVE  SeatsInv'
<1>v. changes < MaxChanges /\ changes' = changes + 1 /\ UNCHANGED <<groupVars, clientVars>>
  BY DEF Change, ChangeSilently
<1>l. /\ changes \in 0..MaxChanges /\ changes' \in 1..MaxChanges /\ MaxChanges \in Nat
      /\ last' \in 0..changes' /\ told' \in 0..changes'
      /\ \A c \in Clients : number'[c] \in 0..changes' /\ inbox'[c] \in Seq(0..changes')
      /\ StrangersHearNothing' /\ MembersFollow'
  BY <1>v, LaterVersion, BroadcastAssumption
<1>1. CASE ChangeSilently
  <2>1. SeatsTypeOK'
    BY <1>v, <1>l, <1>1 DEF ChangeSilently, SeatsInv, SeatsTypeOK, groupVars, clientVars
  <2>2. NothingAhead'
    BY <1>v, <1>l, <1>1 DEF ChangeSilently, SeatsInv, NothingAhead
  <2>3. EveryChangeTold'
    BY <1>v, <1>l, <1>1 DEF ChangeSilently, SeatsInv, EveryChangeTold, SellerAt, groupVars
  <2> QED BY <1>l, <2>1, <2>2, <2>3 DEF SeatsInv, StrangersHearNothing
<1>2. ASSUME NEW s \in Sellers, Change(s) PROVE SeatsInv'
  <2> DEFINE q == [step |-> "read", change |-> changes + 1, seen |-> 0]
  <2>1. q \in Announcers /\ q # Idle /\ seller' = [seller EXCEPT ![s] = q]
    BY <1>v, <1>l, <1>2 DEF Change, Announcers, Idle
  <2>2. /\ seller' \in [Sellers -> Announcers] /\ seller'[s] = q
        /\ \A x \in Sellers \ {s} : seller'[x] = seller[x]
    BY <2>1, SellerMoves DEF SeatsInv
  <2>3. SeatsTypeOK'
    BY <1>v, <1>l, <1>2, <2>2 DEF Change, SeatsInv, SeatsTypeOK, Announcers, groupVars, clientVars
  <2>4. NothingAhead'
    BY <1>v, <1>l, <2>2 DEF SeatsInv, NothingAhead
  <2>5. EveryChangeTold'
    <3> SUFFICES ASSUME NEW v \in 1..changes',
                        v \notin untold', ~(told' >= v)
                 PROVE  \E x \in Sellers : /\ seller'[x] # Idle /\ seller'[x].change = v
                                           /\ seller'[x].step = "send" => seller'[x].seen >= v
      BY DEF EveryChangeTold, SellerAt
    <3>1. CASE v = changes + 1
      BY <2>1, <2>2, <3>1
    <3>2. CASE v # changes + 1
      <4>1. v \in 1..changes
        BY <1>v, <1>l, <3>2
      <4>2. PICK x \in Sellers : /\ seller[x] # Idle /\ seller[x].change = v
                                 /\ seller[x].step = "send" => seller[x].seen >= v
        BY <1>v, <1>2, <4>1 DEF Change, SeatsInv, EveryChangeTold, SellerAt, groupVars
      <4>3. x # s
        BY <1>2, <4>2 DEF Change
      <4> QED BY <2>2, <4>2, <4>3
    <3> QED BY <3>1, <3>2
  <2> QED BY <1>l, <2>3, <2>4, <2>5 DEF SeatsInv, StrangersHearNothing
<1> QED BY <1>1, <1>2

LEMMA DeleteKeeps == ASSUME SeatsInv, DeleteEvent PROVE SeatsInv'
<1> USE DEF DeleteEvent, groupVars, clientVars
<1>1. SeatsTypeOK'
  BY DEF SeatsInv, SeatsTypeOK
<1>2. NothingAhead'
  BY DEF SeatsInv, NothingAhead
<1>3. StrangersHearNothing' /\ EveryChangeTold' /\ MembersFollow'
  BY Parts DEF StrangersHearNothing, EveryChangeTold, MembersFollow, Members, Final, SellerAt
<1> QED BY <1>1, <1>2, <1>3 DEF SeatsInv, StrangersHearNothing

(* What a request that gives up would have announced is untold now. *)
LEMMA GiveUpKeeps ==
  ASSUME SeatsInv, NEW s \in Sellers, seller[s] # Idle, GiveUp(s)
  PROVE  SeatsInv'
<1> USE DEF groupVars, clientVars
<1>1. /\ seller' \in [Sellers -> Announcers] /\ seller'[s] = Idle
      /\ \A x \in Sellers \ {s} : seller'[x] = seller[x]
  BY IdleIsIdle, SellerMoves DEF SeatsInv, GiveUp
<1>2. seller[s].change \in 1..changes /\ seller[s].change \in 1..MaxChanges
  BY Busy
<1>3. SeatsTypeOK'
  BY <1>1, <1>2 DEF GiveUp, SeatsInv, SeatsTypeOK, Announcers
<1>4. NothingAhead'
  BY <1>1 DEF GiveUp, SeatsInv, NothingAhead
<1>5. EveryChangeTold'
  <2> SUFFICES ASSUME NEW v \in 1..changes, v \notin untold', ~(told >= v)
               PROVE  \E x \in Sellers : /\ seller'[x] # Idle /\ seller'[x].change = v
                                         /\ seller'[x].step = "send" => seller'[x].seen >= v
    BY DEF EveryChangeTold, SellerAt, GiveUp
  <2>1. v # seller[s].change /\ v \notin untold
    BY DEF GiveUp
  <2>2. PICK x \in Sellers : /\ seller[x] # Idle /\ seller[x].change = v
                             /\ seller[x].step = "send" => seller[x].seen >= v
    BY <2>1 DEF SeatsInv, EveryChangeTold, SellerAt
  <2> QED BY <1>1, <2>1, <2>2
<1>6. StrangersHearNothing' /\ MembersFollow'
  BY Parts DEF GiveUp, StrangersHearNothing, MembersFollow, Members, Final
<1> QED BY <1>3, <1>4, <1>5, <1>6 DEF SeatsInv, StrangersHearNothing

(* What is read after the commit includes the request's own change. *)
LEMMA ReadKeeps ==
  ASSUME SeatsInv, NEW s \in Sellers, ReadCount(s)
  PROVE  SeatsInv'
<1> USE DEF groupVars, clientVars
<1> DEFINE q == [seller[s] EXCEPT !.step = "send", !.seen = changes]
<1>1. seller[s] # Idle
  BY IdleIsIdle DEF ReadCount, SellerAt
<1>2. /\ seller[s].change \in 1..changes /\ changes \in 0..MaxChanges /\ MaxChanges \in Nat
      /\ q \in Announcers /\ q # Idle /\ seller' = [seller EXCEPT ![s] = q]
      /\ q.step = "send" /\ q.change = seller[s].change /\ q.seen = changes
  <2>1. seller[s] \in [step : {"read", "send"}, change : 1..MaxChanges, seen : 0..MaxChanges]
    BY <1>1 DEF SeatsInv, SeatsTypeOK
  <2>2. q.step = "send" /\ q.change = seller[s].change /\ q.seen = changes
    BY <2>1
  <2>3. /\ seller[s].change \in 1..changes /\ changes \in 0..MaxChanges /\ MaxChanges \in Nat
        /\ seller[s].change \in 1..MaxChanges
    BY <1>1, <2>1, Busy
  <2>4. q \in Announcers /\ q # Idle
    BY <2>1, <2>2, <2>3 DEF Announcers, Idle
  <2> QED BY <2>2, <2>3, <2>4 DEF ReadCount
<1>3. /\ seller' \in [Sellers -> Announcers] /\ seller'[s] = q
      /\ \A x \in Sellers \ {s} : seller'[x] = seller[x]
  BY <1>2, SellerMoves DEF SeatsInv
<1>4. SeatsTypeOK'
  BY <1>3 DEF ReadCount, SeatsInv, SeatsTypeOK, Announcers
<1>5. NothingAhead'
  BY <1>2, <1>3 DEF ReadCount, SeatsInv, NothingAhead
<1>6. EveryChangeTold'
  <2> SUFFICES ASSUME NEW v \in 1..changes, v \notin untold, ~(told >= v)
               PROVE  \E x \in Sellers : /\ seller'[x] # Idle /\ seller'[x].change = v
                                         /\ seller'[x].step = "send" => seller'[x].seen >= v
    BY DEF EveryChangeTold, SellerAt, ReadCount
  <2>1. PICK x \in Sellers : /\ seller[x] # Idle /\ seller[x].change = v
                             /\ seller[x].step = "send" => seller[x].seen >= v
    BY DEF SeatsInv, EveryChangeTold, SellerAt
  <2> QED BY <1>2, <1>3, <2>1
<1>7. StrangersHearNothing' /\ MembersFollow'
  BY Parts DEF ReadCount, StrangersHearNothing, MembersFollow, Members, Final
<1> QED BY <1>4, <1>5, <1>6, <1>7 DEF SeatsInv, StrangersHearNothing

(* Every member with room gets the count that is the group's last now. *)
LEMMA SendKeeps ==
  ASSUME SeatsInv, NEW s \in Sellers, Send(s)
  PROVE  SeatsInv'
<1> DEFINE n == seller[s].seen
<1>1. seller[s] # Idle
  BY IdleIsIdle DEF Send, SellerAt
<1>2. /\ seller[s].change \in 1..changes /\ n \in 0..changes /\ n \in 0..MaxChanges
      /\ changes \in 0..MaxChanges /\ MaxChanges \in Nat
  BY <1>1, Busy
<1>3. /\ seller' \in [Sellers -> Announcers] /\ seller'[s] = Idle
      /\ \A x \in Sellers \ {s} : seller'[x] = seller[x]
  BY IdleIsIdle, SellerMoves DEF SeatsInv, Send
<1>4. /\ last' = n /\ told' \in {n, told} /\ told' >= n /\ told' >= told
      /\ told \in 0..changes /\ UNCHANGED <<changes, deleted, untold, stage, number>>
  BY <1>2 DEF Send, SeatsInv, NothingAhead
<1>5. ASSUME NEW c \in Clients
      PROVE  /\ inbox'[c] \in Seq(0..changes) /\ inbox'[c] \in Seq(0..MaxChanges)
             /\ c \in Members /\ ~Full(c) => inbox'[c] # <<>> /\ inbox'[c][Len(inbox'[c])] = n
             /\ c \notin Members => inbox'[c] = inbox[c]
  <2>1. inbox[c] \in Seq(0..changes) /\ inbox[c] \in Seq(0..MaxChanges)
    BY DEF SeatsInv, SeatsTypeOK, NothingAhead
  <2>2. inbox'[c] = IF c \in Members /\ ~Full(c) THEN Append(inbox[c], n) ELSE inbox[c]
    BY DEF Send
  <2>3. /\ Append(inbox[c], n) \in Seq(0..changes) /\ Append(inbox[c], n) # <<>>
        /\ Append(inbox[c], n)[Len(Append(inbox[c], n))] = n
    <3> DEFINE S == 0..changes
               q == inbox[c]
    <3>1. q \in Seq(S) /\ n \in S
      BY <1>2, <2>1
    <3> HIDE DEF S, q, n
    <3>2. /\ Append(q, n) \in Seq(S) /\ Append(q, n) # <<>>
          /\ Append(q, n)[Len(Append(q, n))] = n
      BY <3>1, Appended
    <3> QED BY <3>2 DEF S, q
  <2>4. Append(inbox[c], n) \in Seq(0..MaxChanges)
    BY <1>2, <2>1, Appended
  <2>5. CASE c \in Members /\ ~Full(c)
    BY <2>2, <2>3, <2>4, <2>5
  <2>6. CASE ~(c \in Members /\ ~Full(c))
    BY <2>1, <2>2, <2>6
  <2> QED BY <2>5, <2>6
<1>6. SeatsTypeOK'
  <2>1. inbox' \in [Clients -> Seq(0..MaxChanges)] /\ missed' \subseteq Clients
    BY <1>5 DEF Send, Members
  <2> QED BY <1>2, <1>3, <1>4, <2>1 DEF SeatsInv, SeatsTypeOK, Announcers
<1>7. NothingAhead'
  BY <1>2, <1>3, <1>4, <1>5 DEF SeatsInv, NothingAhead
<1>8. EveryChangeTold'
  <2> SUFFICES ASSUME NEW v \in 1..changes, v \notin untold, ~(told' >= v)
               PROVE  \E x \in Sellers : /\ seller'[x] # Idle /\ seller'[x].change = v
                                         /\ seller'[x].step = "send" => seller'[x].seen >= v
    BY <1>4 DEF EveryChangeTold, SellerAt
  <2>1. ~(told >= v) /\ ~(n >= v)
    BY <1>2, <1>4
  <2>2. PICK x \in Sellers : /\ seller[x] # Idle /\ seller[x].change = v
                             /\ seller[x].step = "send" => seller[x].seen >= v
    BY <2>1 DEF SeatsInv, EveryChangeTold, SellerAt
  <2>3. x # s
    BY <2>1, <2>2 DEF Send, SellerAt
  <2> QED BY <1>3, <2>2, <2>3
<1>9. StrangersHearNothing'
  BY <1>4, <1>5, Parts DEF StrangersHearNothing, Members
<1>10. MembersFollow'
  BY <1>4, <1>5 DEF Send, MembersFollow, Members, Final
<1> QED BY <1>6, <1>7, <1>8, <1>9, <1>10 DEF SeatsInv, StrangersHearNothing

(* A client loads, joins, is greeted or leaves. *)
LEMMA StageKeeps ==
  ASSUME SeatsInv, NEW c \in Clients, Snapshot(c) \/ Join(c) \/ Greet(c) \/ Leave(c)
  PROVE  SeatsInv'
<1> USE DEF groupVars
<1>1. PICK to \in Stages : stage' = [stage EXCEPT ![c] = to]
  BY DEF Snapshot, Join, Greet, Leave, Goto, Stages
<1>2. /\ UNCHANGED <<changes, deleted, seller, last, told, untold>>
      /\ changes \in 0..MaxChanges /\ \A n \in 0..changes : n \in 0..MaxChanges
  BY BroadcastAssumption DEF Snapshot, Join, Greet, Leave, SeatsInv, SeatsTypeOK
<1>3. /\ number' \in [Clients -> 0..MaxChanges] /\ inbox' \in [Clients -> Seq(0..MaxChanges)]
      /\ missed' \subseteq Clients
  <2>1. <<>> \in Seq(0..MaxChanges) /\ 0 \in 0..MaxChanges
    BY EmptySeq, BroadcastAssumption
  <2>2. number' \in [Clients -> 0..MaxChanges]
    BY <1>2, <2>1 DEF Snapshot, Join, Greet, Leave, SeatsInv, SeatsTypeOK
  <2>3. inbox' \in [Clients -> Seq(0..MaxChanges)]
    BY <2>1 DEF Snapshot, Join, Greet, Leave, SeatsInv, SeatsTypeOK
  <2>4. missed' \subseteq Clients
    BY DEF Snapshot, Join, Greet, Leave, SeatsInv, SeatsTypeOK
  <2> QED BY <2>2, <2>3, <2>4
<1>4. \A d \in Clients : number'[d] \in 0..changes /\ inbox'[d] \in Seq(0..changes)
  <2>1. <<>> \in Seq(0..changes) /\ 0 \in 0..changes /\ changes \in 0..changes
    BY <1>2, EmptySeq, BroadcastAssumption
  <2> QED BY <1>2, <2>1 DEF Snapshot, Join, Greet, Leave, SeatsInv, SeatsTypeOK, NothingAhead
<1>5. SeatsTypeOK'
  BY <1>1, <1>2, <1>3 DEF SeatsInv, SeatsTypeOK
<1>6. NothingAhead'
  BY <1>2, <1>4 DEF SeatsInv, NothingAhead
<1>7. EveryChangeTold'
  BY <1>2 DEF SeatsInv, EveryChangeTold, SellerAt
<1>8. ASSUME NEW d \in Clients
      PROVE  /\ d \notin Members' => inbox'[d] = <<>>
             /\ d \in Members' \ missed' => (Final(d) = last \/ Final(d) >= told)'
  <2>1. CASE d # c
    BY <1>2, <2>1, Parts DEF Snapshot, Join, Greet, Leave, Goto, SeatsInv, SeatsTypeOK,
       StrangersHearNothing, MembersFollow, Members, Final
  <2>2. CASE d = c
    <3>1. CASE Snapshot(c) \/ Leave(c)
      BY <2>2, <3>1, Parts DEF Snapshot, Leave, Goto, SeatsInv, SeatsTypeOK, StrangersHearNothing, Members
    <3>2. CASE Join(c)
      <4>1. /\ inbox[c] = <<>> /\ number[c] \in Nat /\ told \in Nat
            /\ UNCHANGED <<number, inbox>>
        BY <3>2, Parts DEF Join, Goto, NothingAhead, StrangersHearNothing, Members
      <4>2. c \in Members'
        BY <1>1, <3>2 DEF Join, Goto, SeatsInv, SeatsTypeOK, Members
      <4>3. c \notin missed' => ~(number[c] < told)
        BY <3>2 DEF Join
      <4> QED BY <1>2, <2>2, <4>1, <4>2, <4>3 DEF Final
    <3>3. CASE Greet(c)
      BY <1>2, <2>2, <3>3, Parts DEF Greet, Goto, SeatsInv, SeatsTypeOK, MembersFollow, Members, Final
    <3> QED BY <3>1, <3>2, <3>3
  <2> QED BY <2>1, <2>2
<1>9. StrangersHearNothing' /\ MembersFollow'
  BY <1>8 DEF StrangersHearNothing, MembersFollow, Members
<1> QED BY <1>5, <1>6, <1>7, <1>9 DEF SeatsInv, StrangersHearNothing

(* An inbox ends as it did when its first count is taken. *)
LEMMA UpdateKeeps ==
  ASSUME SeatsInv, NEW c \in Clients, Update(c)
  PROVE  SeatsInv'
<1> USE DEF groupVars
<1>1. /\ UNCHANGED <<changes, deleted, seller, last, told, untold, stage, missed>>
      /\ inbox[c] # <<>> /\ inbox[c] \in Seq(0..changes) /\ inbox[c] \in Seq(0..MaxChanges)
      /\ number' = [number EXCEPT ![c] = Head(inbox[c])]
      /\ inbox' = [inbox EXCEPT ![c] = Tail(inbox[c])]
  BY DEF Update, SeatsInv, SeatsTypeOK, NothingAhead
<1>2. /\ Head(inbox[c]) \in 0..changes /\ Tail(inbox[c]) \in Seq(0..changes)
      /\ Head(inbox[c]) \in 0..MaxChanges /\ Tail(inbox[c]) \in Seq(0..MaxChanges)
      /\ Tail(inbox[c]) = <<>> => inbox[c][Len(inbox[c])] = Head(inbox[c])
      /\ Tail(inbox[c]) # <<>> => Tail(inbox[c])[Len(Tail(inbox[c]))] = inbox[c][Len(inbox[c])]
  BY <1>1, Taken
<1>3. SeatsTypeOK'
  BY <1>1, <1>2 DEF SeatsInv, SeatsTypeOK
<1>4. NothingAhead'
  BY <1>1, <1>2 DEF SeatsInv, SeatsTypeOK, NothingAhead
<1>5. EveryChangeTold'
  BY <1>1 DEF SeatsInv, EveryChangeTold, SellerAt
<1>6. c \in Members
  BY DEF Update, Members
<1>7. StrangersHearNothing'
  BY <1>1, <1>6, Parts DEF StrangersHearNothing, Members, SeatsTypeOK
<1>8. \A d \in Clients : Final(d)' = Final(d)
  BY <1>1, <1>2 DEF SeatsInv, SeatsTypeOK, Final
<1>9. MembersFollow'
  BY <1>1, <1>8 DEF SeatsInv, MembersFollow, Members
<1> QED BY <1>3, <1>4, <1>5, <1>7, <1>9 DEF SeatsInv, StrangersHearNothing

LEMMA SeatsStep == SeatsInv /\ [SeatsNext]_seatVars => SeatsInv'
<1> SUFFICES ASSUME SeatsInv, [SeatsNext]_seatVars PROVE SeatsInv'
  OBVIOUS
<1>1. CASE UNCHANGED seatVars
  <2> USE <1>1 DEF seatVars, groupVars, clientVars
  <2>1. SeatsTypeOK' /\ NothingAhead'
    BY DEF SeatsInv, SeatsTypeOK, NothingAhead
  <2>2. StrangersHearNothing' /\ EveryChangeTold' /\ MembersFollow'
    BY Parts DEF StrangersHearNothing, EveryChangeTold, MembersFollow, Members, Final, SellerAt
  <2> QED BY <2>1, <2>2 DEF SeatsInv, StrangersHearNothing
<1>2. ASSUME NEW s \in Sellers, Announce(s) \/ Fail(s) PROVE SeatsInv'
  <2>1. CASE EventGone(s) \/ Fail(s)
    BY <2>1, GiveUpKeeps, IdleIsIdle DEF EventGone, Fail, SellerAt
  <2> QED BY <1>2, <2>1, ReadKeeps, SendKeeps DEF Announce
<1>3. ASSUME NEW c \in Clients, Snapshot(c) \/ Serve(c) \/ Leave(c) PROVE SeatsInv'
  BY <1>3, StageKeeps, UpdateKeeps DEF Serve
<1> QED BY <1>1, <1>2, <1>3, ChangeKeeps, DeleteKeeps DEF SeatsNext

-----------------------------------------------------------------------------
(* The theorems.                                                           *)

(* No change is forgotten on the way to the group, and a member that       *)
(* missed nothing comes to what the group was sent (SeatsInv).             *)
THEOREM SeatsInvariant == SeatsSpec => []SeatsInv
BY SeatsInitKeeps, SeatsStep, PTL DEF SeatsSpec

(* A screen at rest shows the current count, unless the last change was    *)
(* not announced, an older count overtook a newer one, or the client       *)
(* missed the newest.                                                      *)
THEOREM StaleForAReason == SeatsSpec => []StaleOnlyForAReason
<1>1. SeatsInv => StaleOnlyForAReason
  <2> SUFFICES ASSUME SeatsInv, NEW c \in Clients, Quiet(c), ~Excused(c)
               PROVE  number[c] = changes
    BY DEF StaleOnlyForAReason
  <2>1. /\ changes \in Nat /\ number[c] \in 0..changes /\ told \in 0..changes
        /\ last \in 0..changes
    BY DEF SeatsInv, SeatsTypeOK, NothingAhead
  <2>2. c \in Members \ missed /\ Final(c) = number[c]
    BY DEF Quiet, Excused, Members, Final
  <2>3. changes > 0 => told >= changes
    BY <2>1 DEF SeatsInv, EveryChangeTold, Quiet, Excused
  <2>4. number[c] = last \/ number[c] >= told
    BY <2>2 DEF SeatsInv, MembersFollow
  <2> QED BY <2>1, <2>3, <2>4 DEF Excused
<1> QED BY <1>1, SeatsInvariant, PTL
================================================================================

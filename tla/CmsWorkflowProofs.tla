--------------------------- MODULE CmsWorkflowProofs ---------------------------
(***************************************************************************)
(* The authoring workflow is safe for any authors, items, media, files and *)
(* bounds.  The argument is the one of two-phase locking: what a           *)
(* transaction has decided under its locks stays true until it commits,    *)
(* because whoever could make it false needs one of those locks.           *)
(*                                                                         *)
(*   TypeInv     the shape of the rows and of the transactions             *)
(*   DataInv     versions name revisions, jobs own their exercises         *)
(*   OpInv       what each transaction in progress works on                *)
(*   CoverInv    the locks it relies on are held or still to be taken      *)
(*   LockInv     two transactions share a row only in share mode           *)
(*   OrderInv    locks are taken in the order of their ranks               *)
(*   DecidedInv  the decision still holds                                  *)
(***************************************************************************)
EXTENDS CmsWorkflow, FiniteSetTheorems, SequenceTheorems, TLAPS

Rows == Authors \cup Sources \cup Items \cup Media
Modes == {"update", "share"}
Lock == [row : Rows, mode : Modes]
Revision == [content : Contents, review : {"none", "approved", "changes_requested"}]

ItemOps == {"create", "revise", "review", "publish", "archive"}
Ops == ItemOps \cup MediaOps \cup {"import", "replay"}
Args == Contents \cup {NoMedia} \cup [rev : Nat] \cup [key : Keys, file : Payloads]
        \cup [rev : Nat, decision : {"approved", "changes_requested"}]

TypeInv ==
  /\ item \in [Items -> [status : Statuses, live : Contents, version : Nat,
                         job : Keys \cup {NoMedia}]]
  /\ revs \in [Items -> Seq(Revision)]
  /\ media \in [Media -> {"ready", "quarantined", "archived"}]
  /\ active \in [Authors -> BOOLEAN]
  /\ jobs \in [Keys -> [by : SUBSET Authors, payload : SUBSET Payloads]]
  /\ tx \in [Authors -> [pc : {"idle", "locking", "decided"}, op : Ops \cup {"none"},
                         on : Items \cup Media \cup Sources \cup {NoMedia}, arg : Args,
                         todo : Seq(Lock), held : SUBSET Lock,
                         verdict : {"none", "refuse", "same", "apply"}]]
  /\ ops \in Nat

\* Every item has the revision its version names, or no row at all.
RowInv(x) ==
  IF Exists(x)
  THEN /\ item[x].version \in 1..Len(revs[x])
       /\ revs[x][item[x].version].content = item[x].live
       /\ item[x].status = "draft" => item[x].version = Len(revs[x])
  ELSE revs[x] = <<>> /\ item[x].job = NoMedia

DataInv == (\A x \in Items : RowInv(x)) /\ ImportsAreExact

Busy(a) == tx[a].pc # "idle"

\* The target and the argument of a transaction in progress.
OpInv(a) ==
  LET t == tx[a]  x == t.on IN
  \/ /\ t.op = "create" /\ x \in Items \ ImportRows /\ ~Exists(x) /\ t.arg \in Contents
     /\ \A b \in Authors \ {a} : Busy(b) /\ tx[b].op \in ItemOps => tx[b].on # x
  \/ t.op = "revise" /\ x \in Items /\ Exists(x) /\ t.arg \in Contents
  \/ /\ t.op = "review" /\ x \in Items /\ Exists(x)
     /\ t.arg \in [rev : Nat, decision : {"approved", "changes_requested"}]
     /\ t.arg.rev \in 1..Len(revs[x])
  \/ /\ t.op = "publish" /\ x \in Items /\ Exists(x)
     /\ t.arg \in [rev : Nat] /\ t.arg.rev \in 1..Len(revs[x])
  \/ t.op = "archive" /\ x \in Items /\ Exists(x)
  \/ t.op \in MediaOps /\ x \in Media
  \/ /\ t.op \in {"import", "replay"} /\ t.arg \in [key : Keys, file : Payloads]
     /\ x = SourceOf[t.arg.file]

UpdateOf(r) == [row |-> r, mode |-> "update"]
ShareOf(r) == [row |-> r, mode |-> "share"]

\* The locks the decision of a transaction relies on.
Wants(a, lock) ==
  LET t == tx[a]  x == t.on IN
  \/ t.op \in ItemOps \ {"create"} /\ lock = UpdateOf(x)
  \/ t.op \in ItemOps \ {"create"} /\ \E p \in ToSet(ParentsOf[x]) : lock = UpdateOf(p)
  \/ /\ t.op = "publish" /\ x \in Exercises
     /\ MediaOf[revs[x][t.arg.rev].content] # NoMedia
     /\ lock = ShareOf(MediaOf[revs[x][t.arg.rev].content])
  \/ t.op \in MediaOps \cup {"import"} /\ lock = UpdateOf(x)
  \/ t.op \in MediaOps \cup {"import"} /\ lock = ShareOf(a)
  \/ t.op \in ItemOps /\ x \in Exercises /\ lock = ShareOf(a)

CoverInv(a) ==
  \A lock \in Lock : Wants(a, lock) => lock \in tx[a].held \cup ToSet(tx[a].todo)

\* An actor lock that is held keeps the account active.
ActorInv(a) == ShareOf(a) \in tx[a].held => active[a]

\* The rank of a row: its table in the order of locking, then its id.
Table(r) ==
  CASE r \in Authors -> 1 [] r \in Sources -> 2 [] r \in Lessons -> 3
    [] r \in Topics -> 4 [] r \in Exercises -> 5 [] OTHER -> 6
Rank(r) == Table(r) * (MaxId + 1) + (IF r \in Lessons \cup Topics THEN IdOf[r] ELSE 0)

Sorted(locks) == \A i, j \in 1..Len(locks) : i < j => Rank(locks[i].row) < Rank(locks[j].row)

OrderInv(a) ==
  /\ Sorted(tx[a].todo)
  /\ \A h \in tx[a].held : \A i \in 1..Len(tx[a].todo) : Rank(h.row) < Rank(tx[a].todo[i].row)

\* What an author was told to apply is still what the rows allow.
PublishHolds(x, r) ==
  /\ Mutable(x) /\ r = Len(revs[x]) /\ Latest(x).review = "approved"
  /\ ParentsLive(x)
  /\ x \in Lessons => LessonReady(x)
  /\ MediaReady(x, Latest(x).content)

DecidedInv(a) ==
  tx[a].pc = "decided" =>
    /\ tx[a].todo = <<>>
    /\ tx[a].verdict = "apply" =>
         /\ tx[a].op = "publish" => PublishHolds(tx[a].on, tx[a].arg.rev)
         /\ tx[a].op = "import" => \A x \in RowsOf[tx[a].arg.file] : ~Exists(x)
         /\ tx[a].op # "replay"

TxInv(a) ==
  IF Busy(a) THEN OpInv(a) /\ CoverInv(a) /\ ActorInv(a) /\ OrderInv(a) /\ DecidedInv(a)
             ELSE tx[a] = Idle

LockInv ==
  \A a, b \in Authors : a # b =>
    \A h \in tx[a].held, g \in tx[b].held :
      h.row = g.row => h.mode = "share" /\ g.mode = "share"

IInv == TypeInv /\ DataInv /\ LockInv /\ \A a \in Authors : TxInv(a)
-----------------------------------------------------------------------------
(***************************************************************************)
(* Sequences of locks.                                                     *)
(***************************************************************************)

\* What the locks of a sequence are and between which tables they lie.
Span(locks, m, n) ==
  /\ locks \in Seq(Lock) /\ Sorted(locks)
  /\ \A i \in 1..Len(locks) : Table(locks[i].row) \in m..n

LEMMA TablesDisjoint ==
  /\ Authors \cap (Sources \cup Items \cup Media) = {}
  /\ Sources \cap (Items \cup Media) = {}
  /\ Lessons \cap (Topics \cup Exercises \cup Media) = {}
  /\ Topics \cap (Exercises \cup Media) = {} /\ Exercises \cap Media = {}
<1> DEFINE Tables == <<Authors, Sources, Lessons, Topics, Exercises, Media>>
<1>1. \A i, j \in 1..6 : i # j => Tables[i] \cap Tables[j] = {}
  BY TableAssumption
<1>2. /\ Tables[1] = Authors /\ Tables[2] = Sources /\ Tables[3] = Lessons
      /\ Tables[4] = Topics /\ Tables[5] = Exercises /\ Tables[6] = Media
  OBVIOUS
<1> HIDE DEF Tables
<1>3. /\ Tables[1] \cap (Tables[2] \cup Tables[3] \cup Tables[4] \cup Tables[5] \cup Tables[6]) = {}
      /\ Tables[2] \cap (Tables[3] \cup Tables[4] \cup Tables[5] \cup Tables[6]) = {}
      /\ Tables[3] \cap (Tables[4] \cup Tables[5] \cup Tables[6]) = {}
      /\ Tables[4] \cap (Tables[5] \cup Tables[6]) = {} /\ Tables[5] \cap Tables[6] = {}
  BY <1>1
<1>. QED
  BY <1>2, <1>3 DEF Items

LEMMA TableOfRow ==
  /\ \A r \in Authors : Table(r) = 1
  /\ \A r \in Sources : Table(r) = 2
  /\ \A r \in Lessons : Table(r) = 3
  /\ \A r \in Topics : Table(r) = 4
  /\ \A r \in Exercises : Table(r) = 5
  /\ \A r \in Media : Table(r) = 6
BY TablesDisjoint DEF Table, Items

LEMMA RankBand ==
  ASSUME NEW r \in Rows
  PROVE  /\ Table(r) \in 1..6 /\ Rank(r) \in Nat
         /\ Table(r) * (MaxId + 1) <= Rank(r) /\ Rank(r) < (Table(r) + 1) * (MaxId + 1)
<1>1. MaxId \in Nat /\ \A x \in Lessons \cup Topics : IdOf[x] \in 0..MaxId
  BY TableAssumption
<1>2. Table(r) \in 1..6
  BY TableOfRow DEF Rows, Items
<1> DEFINE off == IF r \in Lessons \cup Topics THEN IdOf[r] ELSE 0
<1>3. off \in 0..MaxId
  BY <1>1
<1>4. Rank(r) = Table(r) * (MaxId + 1) + off
  BY DEF Rank
<1> HIDE DEF off
<1>5. /\ Table(r) * (MaxId + 1) \in Nat
      /\ (Table(r) + 1) * (MaxId + 1) = Table(r) * (MaxId + 1) + (MaxId + 1)
  BY <1>1, <1>2
<1>. QED
  BY <1>1, <1>2, <1>3, <1>4, <1>5

LEMMA TablesRank ==
  ASSUME NEW r \in Rows, NEW q \in Rows, Table(r) < Table(q)
  PROVE  Rank(r) < Rank(q)
<1>1. Table(r) \in 1..6 /\ Table(q) \in 1..6 /\ MaxId \in Nat
  BY RankBand, TableAssumption
<1>2. (Table(r) + 1) * (MaxId + 1) <= Table(q) * (MaxId + 1)
  <2>1. \A i, j \in 1..6 : i < j => (i + 1) * (MaxId + 1) <= j * (MaxId + 1)
    BY <1>1
  <2>. QED
    BY <1>1, <2>1
<1>3. (Table(r) + 1) * (MaxId + 1) \in Nat /\ Table(q) * (MaxId + 1) \in Nat
  BY <1>1
<1>. QED
  BY <1>2, <1>3, RankBand, SMTT(30)

LEMMA SpanWidens ==
  ASSUME NEW locks, NEW m \in 1..6, NEW n \in 1..6, NEW i \in 1..6, NEW j \in 1..6,
         Span(locks, i, j), m <= i, j <= n
  PROVE  Span(locks, m, n)
BY DEF Span

LEMMA SpanEmpty ==
  ASSUME NEW m \in 1..6, NEW n \in 1..6
  PROVE  Span(<<>>, m, n)
BY EmptySeq DEF Span, Sorted

LEMMA LocksJoin ==
  ASSUME NEW s \in Seq(Lock), NEW t \in Seq(Lock)
  PROVE  s \o t \in Seq(Lock) /\ ToSet(s \o t) = ToSet(s) \cup ToSet(t)
<1>1. /\ s \o t \in Seq(Lock) /\ Len(s \o t) = Len(s) + Len(t)
      /\ \A i \in 1..Len(s) + Len(t) :
           (s \o t)[i] = IF i <= Len(s) THEN s[i] ELSE t[i - Len(s)]
  BY ConcatProperties
<1>2. /\ DOMAIN s = 1..Len(s) /\ DOMAIN t = 1..Len(t) /\ Len(s) \in Nat /\ Len(t) \in Nat
      /\ DOMAIN (s \o t) = 1..(Len(s) + Len(t))
  BY <1>1, LenProperties
<1>3. ToSet(s \o t) \subseteq ToSet(s) \cup ToSet(t)
  <2>1. SUFFICES ASSUME NEW i \in 1..(Len(s) + Len(t))
                 PROVE  (s \o t)[i] \in ToSet(s) \cup ToSet(t)
    BY <1>2 DEF ToSet
  <2>2. CASE i <= Len(s)
    BY <2>2, <1>1, <1>2 DEF ToSet
  <2>3. CASE ~(i <= Len(s))
    <3>1. i - Len(s) \in DOMAIN t /\ (s \o t)[i] = t[i - Len(s)]
      BY <2>3, <1>1, <1>2
    <3>. QED
      BY <3>1 DEF ToSet
  <2>. QED
    BY <2>2, <2>3
<1>4. ToSet(s) \subseteq ToSet(s \o t)
  <2>1. \A i \in DOMAIN s : i \in DOMAIN (s \o t) /\ (s \o t)[i] = s[i]
    BY <1>1, <1>2
  <2>. QED
    BY <2>1 DEF ToSet
<1>5. ToSet(t) \subseteq ToSet(s \o t)
  <2>1. \A i \in DOMAIN t : Len(s) + i \in DOMAIN (s \o t) /\ (s \o t)[Len(s) + i] = t[i]
    BY <1>1, <1>2
  <2>. QED
    BY <2>1 DEF ToSet
<1>. QED
  BY <1>1, <1>3, <1>4, <1>5

LEMMA SpanJoins ==
  ASSUME NEW s, NEW t, NEW m \in 1..6, NEW n \in 1..6, NEW i \in 1..6, NEW j \in 1..6,
         Span(s, m, n), Span(t, i, j), m <= n, n < i, i <= j
  PROVE  Span(s \o t, m, j)
<1>1. s \in Seq(Lock) /\ t \in Seq(Lock) /\ Sorted(s) /\ Sorted(t)
  BY DEF Span
<1>2. /\ s \o t \in Seq(Lock) /\ Len(s \o t) = Len(s) + Len(t)
      /\ \A k \in 1..Len(s) + Len(t) :
           (s \o t)[k] = IF k <= Len(s) THEN s[k] ELSE t[k - Len(s)]
  BY <1>1, ConcatProperties
<1>3. /\ Len(s) \in Nat /\ Len(t) \in Nat
      /\ \A k \in 1..Len(s) : s[k] \in Lock /\ Table(s[k].row) \in m..n
      /\ \A k \in 1..Len(t) : t[k] \in Lock /\ Table(t[k].row) \in i..j
  BY <1>1, LenProperties, ElementOfSeq DEF Span
<1>4. ASSUME NEW k \in 1..Len(s), NEW l \in 1..Len(t)
      PROVE  Rank(s[k].row) < Rank(t[l].row)
  <2>1. s[k].row \in Rows /\ t[l].row \in Rows
    BY <1>3 DEF Lock
  <2>2. Table(s[k].row) < Table(t[l].row)
    BY <1>3
  <2>. QED
    BY <2>1, <2>2, TablesRank
<1>5. Sorted(s \o t)
  <2>1. SUFFICES ASSUME NEW k \in 1..(Len(s) + Len(t)), NEW l \in 1..(Len(s) + Len(t)), k < l
                 PROVE  Rank((s \o t)[k].row) < Rank((s \o t)[l].row)
    BY <1>2 DEF Sorted
  <2>2. CASE l <= Len(s)
    BY <2>1, <2>2, <1>1, <1>2, <1>3 DEF Sorted
  <2>3. CASE k > Len(s)
    <3>1. k - Len(s) \in 1..Len(t) /\ l - Len(s) \in 1..Len(t) /\ k - Len(s) < l - Len(s)
      BY <2>1, <2>3, <1>3
    <3>2. (s \o t)[k] = t[k - Len(s)] /\ (s \o t)[l] = t[l - Len(s)]
      BY <2>1, <2>3, <1>2, <1>3
    <3>. QED
      BY <3>1, <3>2, <1>1 DEF Sorted
  <2>4. CASE k <= Len(s) /\ ~(l <= Len(s))
    <3>1. k \in 1..Len(s) /\ l - Len(s) \in 1..Len(t)
      BY <2>4, <1>3
    <3>2. (s \o t)[k] = s[k] /\ (s \o t)[l] = t[l - Len(s)]
      BY <2>4, <1>2
    <3>. QED
      BY <3>1, <3>2, <1>4
  <2>. QED
    BY <2>1, <2>2, <2>3, <2>4, <1>3
<1>6. \A k \in 1..Len(s \o t) : Table((s \o t)[k].row) \in m..j
  <2>1. SUFFICES ASSUME NEW k \in 1..(Len(s) + Len(t)) PROVE Table((s \o t)[k].row) \in m..j
    BY <1>2
  <2>2. CASE k <= Len(s)
    BY <2>2, <1>2, <1>3
  <2>3. CASE ~(k <= Len(s))
    <3>1. PICK l : l = k - Len(s)
      OBVIOUS
    <3>2. l \in 1..Len(t) /\ (s \o t)[k] = t[l]
      BY <3>1, <2>3, <1>2, <1>3
    <3>3. Table(t[l].row) \in i..j
      BY <3>2, <1>3
    <3>4. Table(t[l].row) \in m..j
      BY <3>3
    <3>. QED
      BY <3>2, <3>4
  <2>. QED
    BY <2>2, <2>3
<1>. QED
  BY <1>2, <1>5, <1>6 DEF Span

LEMMA ForUpdateIs ==
  ASSUME NEW rows \in Seq(Rows)
  PROVE  /\ ForUpdate(rows) \in Seq(Lock) /\ Len(ForUpdate(rows)) = Len(rows)
         /\ \A i \in 1..Len(rows) : ForUpdate(rows)[i] = UpdateOf(rows[i])
         /\ \A r \in ToSet(rows) : UpdateOf(r) \in ToSet(ForUpdate(rows))
<1>1. DOMAIN rows = 1..Len(rows) /\ Len(rows) \in Nat /\ \A i \in 1..Len(rows) : rows[i] \in Rows
  BY LenProperties, ElementOfSeq
<1>2. ForUpdate(rows) = [i \in 1..Len(rows) |-> UpdateOf(rows[i])]
  BY <1>1 DEF ForUpdate, UpdateOf
<1>3. \A i \in 1..Len(rows) : UpdateOf(rows[i]) \in Lock
  BY <1>1 DEF UpdateOf, Lock, Modes
<1>4. ForUpdate(rows) \in [1..Len(rows) -> Lock]
  BY <1>2, <1>3
<1>5. ForUpdate(rows) \in Seq(Lock) /\ Len(ForUpdate(rows)) = Len(rows)
  BY <1>1, <1>4
<1>6. \A r \in ToSet(rows) : UpdateOf(r) \in ToSet(ForUpdate(rows))
  BY <1>1, <1>2 DEF ToSet
<1>. QED
  BY <1>2, <1>5, <1>6

LEMMA ForShareIs ==
  ASSUME NEW r \in Rows
  PROVE  Span(ForShare(r), Table(r), Table(r)) /\ ToSet(ForShare(r)) = {ShareOf(r)}
<1>1. ForShare(r) = <<ShareOf(r)>> /\ ShareOf(r) \in Lock /\ ShareOf(r).row = r
  BY DEF ForShare, ShareOf, Lock, Modes
<1>2. <<ShareOf(r)>> \in Seq(Lock) /\ Len(<<ShareOf(r)>>) = 1 /\ DOMAIN <<ShareOf(r)>> = 1..1
  BY <1>1
<1>3. Table(r) \in 1..6
  BY RankBand
<1>. QED
  BY <1>1, <1>2, <1>3 DEF Span, Sorted, ToSet

LEMMA UpdateOneIs ==
  ASSUME NEW r \in Rows
  PROVE  Span(ForUpdate(<<r>>), Table(r), Table(r)) /\ ToSet(ForUpdate(<<r>>)) = {UpdateOf(r)}
<1> DEFINE rows == <<r>>
<1>1. rows \in Seq(Rows) /\ Len(rows) = 1 /\ rows[1] = r
  OBVIOUS
<1>2. /\ ForUpdate(rows) \in Seq(Lock) /\ Len(ForUpdate(rows)) = 1
      /\ ForUpdate(rows)[1] = UpdateOf(r)
  <2> HIDE DEF rows
  <2>1. \A i \in 1..Len(rows) : ForUpdate(rows)[i] = UpdateOf(rows[i])
    BY <1>1, ForUpdateIs
  <2>. QED
    BY <1>1, <2>1, ForUpdateIs
<1>3. Table(r) \in 1..6 /\ UpdateOf(r).row = r
  BY RankBand DEF UpdateOf
<1>4. DOMAIN ForUpdate(<<r>>) = 1..1
  BY <1>2, LenProperties
<1>. QED
  BY <1>2, <1>3, <1>4 DEF Span, Sorted, ToSet

(***************************************************************************)
(* The locks of the operations.                                            *)
(***************************************************************************)

LEMMA ParentsAre ==
  ASSUME NEW x \in Items
  PROVE  /\ ParentsOf[x] \in Seq(Rows) /\ ToSet(ParentsOf[x]) \subseteq Lessons \cup Topics
         /\ x \in Lessons => ParentsOf[x] = <<>>
         /\ x \in Topics => Span(ForUpdate(ParentsOf[x]), 3, 3)
         /\ x \in Exercises => Span(ForUpdate(ParentsOf[x]), 3, 4)
<1>1. ParentsOf[x] \in Seq(Lessons \cup Topics)
  BY ShapeAssumption
<1>2. Lessons \cup Topics \subseteq Rows
  BY DEF Rows, Items
<1>3. ParentsOf[x] \in Seq(Rows)
  BY <1>1, <1>2, SeqMonotonic
<1>4. ToSet(ParentsOf[x]) \subseteq Lessons \cup Topics
  BY <1>1, LenProperties, ElementOfSeq DEF ToSet
<1>5. ASSUME NEW l \in Lessons PROVE Span(ForUpdate(<<l>>), 3, 3)
  BY <1>2, UpdateOneIs, TableOfRow
<1>6. ASSUME NEW l \in Lessons, NEW t \in Topics PROVE Span(ForUpdate(<<l, t>>), 3, 4)
  <2> DEFINE rows == <<l, t>>
  <2>1. rows \in Seq(Rows) /\ Len(rows) = 2 /\ rows[1] = l /\ rows[2] = t
    BY <1>2
  <2>2. Rank(l) < Rank(t) /\ Table(l) = 3 /\ Table(t) = 4
    BY <1>2, TableOfRow, TablesRank
  <2> HIDE DEF rows
  <2>3. /\ ForUpdate(rows) \in Seq(Lock) /\ Len(ForUpdate(rows)) = 2
        /\ \A i \in 1..Len(rows) : ForUpdate(rows)[i] = UpdateOf(rows[i])
    BY <2>1, ForUpdateIs
  <2>4. ForUpdate(rows)[1].row = l /\ ForUpdate(rows)[2].row = t
    BY <2>1, <2>3 DEF UpdateOf
  <2>5. \A i \in 1..2 : i = 1 \/ i = 2
    OBVIOUS
  <2>6. Sorted(ForUpdate(rows))
    BY <2>2, <2>3, <2>4, <2>5 DEF Sorted
  <2>7. Span(ForUpdate(rows), 3, 4)
    BY <2>2, <2>3, <2>4, <2>5, <2>6 DEF Span
  <2>. QED
    BY <2>7 DEF rows
<1>7. ASSUME x \in Lessons PROVE ParentsOf[x] = <<>>
  BY <1>7, ShapeAssumption
<1>8. ASSUME x \in Topics PROVE Span(ForUpdate(ParentsOf[x]), 3, 3)
  BY <1>5, <1>8, ParentAssumption
<1>9. ASSUME x \in Exercises PROVE Span(ForUpdate(ParentsOf[x]), 3, 4)
  <2>1. PICK l \in Lessons : ParentsOf[x] = <<l>> \/ \E t \in Topics : ParentsOf[x] = <<l, t>>
    BY <1>9, ParentAssumption
  <2>2. Span(ForUpdate(<<l>>), 3, 4)
    BY <1>5, SpanWidens
  <2>. QED
    BY <2>1, <2>2, <1>6
<1>. QED
  BY <1>3, <1>4, <1>7, <1>8, <1>9

LEMMA CreateLocksAre ==
  ASSUME NEW a \in Authors, NEW x \in Items
  PROVE  /\ Span(CreateLocks(a, x), 1, Table(x) - 1) /\ Table(x) \in 3..5
         /\ \A p \in ToSet(ParentsOf[x]) : UpdateOf(p) \in ToSet(CreateLocks(a, x))
         /\ x \in Exercises => ShareOf(a) \in ToSet(CreateLocks(a, x))
<1>1. a \in Rows /\ x \in Rows
  BY DEF Rows, Items
<1>2. Table(x) \in 3..5 /\ Table(a) = 1
  BY TableOfRow DEF Items
<1>3. /\ Span(Actor(a, x), 1, 1) /\ (x \in Exercises => ShareOf(a) \in ToSet(Actor(a, x)))
  BY <1>1, <1>2, ForShareIs, SpanEmpty DEF Actor
<1>4. /\ ForUpdate(ParentsOf[x]) \in Seq(Lock)
      /\ \A p \in ToSet(ParentsOf[x]) : UpdateOf(p) \in ToSet(ForUpdate(ParentsOf[x]))
  BY ParentsAre, ForUpdateIs
<1>5. Actor(a, x) \in Seq(Lock)
  BY <1>3 DEF Span
<1>6. ToSet(CreateLocks(a, x)) = ToSet(Actor(a, x)) \cup ToSet(ForUpdate(ParentsOf[x]))
  BY <1>4, <1>5, LocksJoin DEF CreateLocks
<1>7. Span(CreateLocks(a, x), 1, Table(x) - 1)
  <2>1. CASE x \in Lessons
    <3>1. Table(x) = 3 /\ ParentsOf[x] = <<>> /\ Actor(a, x) = <<>>
      BY <2>1, TableOfRow, ParentsAre, TablesDisjoint DEF Actor
    <3>2. ForUpdate(<<>>) = <<>>
      BY DEF ForUpdate
    <3>3. CreateLocks(a, x) = <<>>
      BY <3>1, <3>2 DEF CreateLocks
    <3>. QED
      BY <3>1, <3>3, SpanEmpty
  <2>2. CASE x \in Topics
    <3>1. Table(x) = 4 /\ Span(ForUpdate(ParentsOf[x]), 3, 3)
      BY <2>2, TableOfRow, ParentsAre
    <3>. QED
      BY <3>1, <1>3, SpanJoins DEF CreateLocks
  <2>3. CASE x \in Exercises
    <3>1. Table(x) = 5 /\ Span(ForUpdate(ParentsOf[x]), 3, 4)
      BY <2>3, TableOfRow, ParentsAre
    <3>. QED
      BY <3>1, <1>3, SpanJoins DEF CreateLocks
  <2>. QED
    BY <2>1, <2>2, <2>3 DEF Items
<1>. QED
  BY <1>2, <1>3, <1>4, <1>6, <1>7

LEMMA ItemLocksAre ==
  ASSUME NEW a \in Authors, NEW x \in Items
  PROVE  /\ Span(ItemLocks(a, x), 1, Table(x)) /\ UpdateOf(x) \in ToSet(ItemLocks(a, x))
         /\ \A p \in ToSet(ParentsOf[x]) : UpdateOf(p) \in ToSet(ItemLocks(a, x))
         /\ x \in Exercises => ShareOf(a) \in ToSet(ItemLocks(a, x))
<1>1. x \in Rows /\ Table(x) \in 3..5
  BY CreateLocksAre DEF Rows, Items
<1>2. Span(ForUpdate(<<x>>), Table(x), Table(x)) /\ ToSet(ForUpdate(<<x>>)) = {UpdateOf(x)}
  BY <1>1, UpdateOneIs
<1>3. ToSet(ItemLocks(a, x)) = ToSet(CreateLocks(a, x)) \cup {UpdateOf(x)}
  BY <1>2, CreateLocksAre, LocksJoin DEF ItemLocks, Span
<1>4. Span(ItemLocks(a, x), 1, Table(x))
  BY <1>1, <1>2, CreateLocksAre, SpanJoins DEF ItemLocks
<1>. QED
  BY <1>3, <1>4, CreateLocksAre

LEMMA PublishLocksAre ==
  ASSUME NEW a \in Authors, NEW x \in Items, NEW c \in Contents
  PROVE  /\ Span(PublishLocks(a, x, c), 1, 6)
         /\ ToSet(ItemLocks(a, x)) \subseteq ToSet(PublishLocks(a, x, c))
         /\ x \in Exercises /\ MediaOf[c] # NoMedia =>
              ShareOf(MediaOf[c]) \in ToSet(PublishLocks(a, x, c))
<1> DEFINE m == MediaOf[c]
<1>1. Table(x) \in 3..5 /\ Span(ItemLocks(a, x), 1, Table(x)) /\ ItemLocks(a, x) \in Seq(Lock)
  BY CreateLocksAre, ItemLocksAre DEF Span
<1>2. CASE x \in Exercises /\ m # NoMedia
  <2>1. m \in Media /\ m \in Rows /\ Table(m) = 6
    BY <1>2, ShapeAssumption, TableOfRow DEF Rows
  <2>2. Span(ForShare(m), 6, 6) /\ ToSet(ForShare(m)) = {ShareOf(m)} /\ ForShare(m) \in Seq(Lock)
    BY <2>1, ForShareIs DEF Span
  <2>3. PublishLocks(a, x, c) = ItemLocks(a, x) \o ForShare(m)
    BY <1>2 DEF PublishLocks
  <2> HIDE DEF m
  <2>4. ToSet(PublishLocks(a, x, c)) = ToSet(ItemLocks(a, x)) \cup {ShareOf(m)}
    BY <2>2, <2>3, <1>1, LocksJoin
  <2>5. Span(PublishLocks(a, x, c), 1, 6)
    BY <2>2, <2>3, <1>1, SpanJoins
  <2>. QED
    BY <2>4, <2>5 DEF m
<1>3. CASE ~(x \in Exercises /\ m # NoMedia)
  <2>1. PublishLocks(a, x, c) = ItemLocks(a, x) \o <<>>
    BY <1>3 DEF PublishLocks
  <2>2. PublishLocks(a, x, c) = ItemLocks(a, x)
    BY <1>1, <2>1, ConcatEmptySeq
  <2>. QED
    BY <1>1, <1>3, <2>2, SpanWidens
<1>. QED
  BY <1>2, <1>3

LEMMA MediaLocksAre ==
  ASSUME NEW a \in Authors, NEW m \in Media
  PROVE  Span(MediaLocks(a, m), 1, 6) /\ ToSet(MediaLocks(a, m)) = {ShareOf(a), UpdateOf(m)}
<1>1. a \in Rows /\ m \in Rows /\ Table(a) = 1 /\ Table(m) = 6
  BY TableOfRow DEF Rows
<1>2. /\ Span(ForShare(a), 1, 1) /\ ToSet(ForShare(a)) = {ShareOf(a)}
      /\ Span(ForUpdate(<<m>>), 6, 6) /\ ToSet(ForUpdate(<<m>>)) = {UpdateOf(m)}
  BY <1>1, ForShareIs, UpdateOneIs
<1>3. ForShare(a) \in Seq(Lock) /\ ForUpdate(<<m>>) \in Seq(Lock)
  BY <1>2 DEF Span
<1>4. Span(MediaLocks(a, m), 1, 6)
  BY <1>2, SpanJoins DEF MediaLocks
<1>5. ToSet(MediaLocks(a, m)) = ToSet(ForShare(a)) \cup ToSet(ForUpdate(<<m>>))
  BY <1>3, LocksJoin DEF MediaLocks
<1>. QED
  BY <1>2, <1>4, <1>5

\* The ids of a table put its rows in a sequence.
LEMMA InIdOrderIs ==
  ASSUME NEW U \in {Lessons, Topics}, NEW T \in SUBSET U
  PROVE  LET s == InIdOrder(T) IN
         /\ s \in Seq(T)
         /\ \A i, j \in 1..Len(s) : i < j => IdOf[s[i]] < IdOf[s[j]]
<1>1. /\ MaxId \in Nat /\ \A x \in T : IdOf[x] \in 0..MaxId
      /\ \A x, y \in T : x # y => IdOf[x] # IdOf[y]
  BY TableAssumption
<1>2. IsFiniteSet(T)
  <2> DEFINE f == [x \in T |-> IdOf[x]]
  <2>1. f \in Injection(T, 0..MaxId)
    BY <1>1 DEF Injection, IsInjective
  <2>2. IsFiniteSet(0..MaxId)
    BY <1>1, FS_Interval
  <2>. QED
    BY <2>1, <2>2, FS_Injection
<1> DEFINE n == Cardinality(T)
           Upto(x) == {y \in T : IdOf[y] <= IdOf[x]}
           pos == [x \in T |-> Cardinality(Upto(x))]
<1>3. n \in Nat /\ IsFiniteSet(1..n) /\ Cardinality(1..n) = n
  BY <1>2, FS_CardinalityType, FS_Interval
<1>4. ASSUME NEW x \in T PROVE IsFiniteSet(Upto(x)) /\ pos[x] = Cardinality(Upto(x)) /\ pos[x] \in 1..n
  <2>1. Upto(x) \in SUBSET T /\ x \in Upto(x)
    BY <1>1
  <2>2. IsFiniteSet(Upto(x)) /\ Cardinality(Upto(x)) <= n
    BY <1>2, <2>1, FS_Subset
  <2>3. Cardinality(Upto(x)) \in Nat /\ Cardinality(Upto(x)) # 0
    BY <2>1, <2>2, FS_CardinalityType, FS_EmptySet
  <2>. QED
    BY <1>3, <2>2, <2>3
<1>5. ASSUME NEW x \in T, NEW y \in T, IdOf[x] < IdOf[y] PROVE pos[x] < pos[y]
  <2>1. Upto(x) \in SUBSET Upto(y) /\ y \in Upto(y) /\ y \notin Upto(x)
    BY <1>1, <1>5
  <2>2. /\ Cardinality(Upto(x)) <= Cardinality(Upto(y))
        /\ Cardinality(Upto(x)) # Cardinality(Upto(y))
    BY <1>4, <2>1, FS_Subset
  <2>. QED
    BY <1>4, <2>2
<1> HIDE DEF Upto
<1>6. ASSUME NEW x \in T, NEW y \in T, x # y PROVE pos[x] # pos[y]
  <2>1. IdOf[x] < IdOf[y] \/ IdOf[y] < IdOf[x]
    BY <1>1, <1>6
  <2>. QED
    BY <2>1, <1>4, <1>5
<1>7. \A i \in 1..n : \E x \in T : pos[x] = i
  <2>1. pos \in [T -> 1..n]
    BY <1>4
  <2> HIDE DEF pos
  <2>2. pos \in Injection(T, 1..n)
    BY <2>1, <1>6 DEF Injection, IsInjective
  <2>3. pos \in Surjection(T, 1..n)
    BY <2>2, <1>3, FS_Injection
  <2>. QED
    BY <2>3 DEF Surjection
<1> DEFINE Ordered(s) == \A i, j \in DOMAIN s : i < j => IdOf[s[i]] < IdOf[s[j]]
           w == [i \in 1..n |-> CHOOSE x \in T : pos[x] = i]
<1>8. w \in [1..n -> T] /\ \A i \in 1..n : w[i] \in T /\ pos[w[i]] = i
  BY <1>7
<1>9. Ordered(w)
  <2>1. SUFFICES ASSUME NEW i \in 1..n, NEW j \in 1..n, i < j PROVE IdOf[w[i]] < IdOf[w[j]]
    BY <1>8
  <2> HIDE DEF w, pos
  <2>2. w[i] # w[j] /\ pos[w[i]] < pos[w[j]]
    BY <2>1, <1>8
  <2>3. SUFFICES ASSUME IdOf[w[j]] < IdOf[w[i]] PROVE FALSE
    BY <2>2, <1>1, <1>8
  <2>4. pos[w[j]] < pos[w[i]]
    BY <2>3, <1>5, <1>8
  <2>. QED
    BY <2>2, <2>4, <1>4, <1>8
<1>10. InIdOrder(T) = CHOOSE s \in [1..n -> T] : Ordered(s)
  BY DEF InIdOrder
<1> HIDE DEF w, n, Ordered
<1>11. InIdOrder(T) \in [1..n -> T] /\ Ordered(InIdOrder(T))
  BY <1>8, <1>9, <1>10
<1>12. InIdOrder(T) \in Seq(T) /\ Len(InIdOrder(T)) = n /\ DOMAIN InIdOrder(T) = 1..n
  BY <1>3, <1>11
<1>. QED
  BY <1>11, <1>12 DEF Ordered

LEMMA OrderedSpan ==
  ASSUME NEW T, NEW k, (k = 3 /\ T \subseteq Lessons) \/ (k = 4 /\ T \subseteq Topics)
  PROVE  Span(ForUpdate(InIdOrder(T)), k, k)
<1> DEFINE s == InIdOrder(T)
<1>1. s \in Seq(T) /\ \A i, j \in 1..Len(s) : i < j => IdOf[s[i]] < IdOf[s[j]]
  BY InIdOrderIs
<1>2. T \subseteq Rows /\ \A x \in T : Table(x) = k
  BY TableOfRow DEF Rows, Items
<1> HIDE DEF s
<1>3. s \in Seq(Rows) /\ \A i \in 1..Len(s) : s[i] \in T
  BY <1>1, <1>2, SeqMonotonic, ElementOfSeq
<1>4. /\ ForUpdate(s) \in Seq(Lock) /\ Len(ForUpdate(s)) = Len(s)
      /\ \A i \in 1..Len(s) : ForUpdate(s)[i].row = s[i]
  <2>1. \A i \in 1..Len(s) : ForUpdate(s)[i] = UpdateOf(s[i]) /\ UpdateOf(s[i]).row = s[i]
    BY <1>3, ForUpdateIs DEF UpdateOf
  <2>. QED
    BY <2>1, <1>3, ForUpdateIs
<1>5. ASSUME NEW x \in T, NEW y \in T, IdOf[x] < IdOf[y] PROVE Rank(x) < Rank(y)
  <2>1. MaxId \in Nat /\ IdOf[x] \in 0..MaxId /\ IdOf[y] \in 0..MaxId /\ k * (MaxId + 1) \in Nat
    BY TableAssumption
  <2>2. Rank(x) = k * (MaxId + 1) + IdOf[x] /\ Rank(y) = k * (MaxId + 1) + IdOf[y]
    BY <1>2 DEF Rank
  <2>. QED
    BY <1>5, <2>1, <2>2
<1>6. Sorted(ForUpdate(s))
  BY <1>1, <1>3, <1>4, <1>5 DEF Sorted
<1>7. Span(ForUpdate(s), k, k)
  BY <1>2, <1>3, <1>4, <1>6 DEF Span
<1>. QED
  BY <1>7 DEF s

LEMMA ImportLocksAre ==
  ASSUME NEW a \in Authors, NEW p \in Payloads
  PROVE  /\ Span(ImportLocks(a, p), 1, 4)
         /\ ShareOf(a) \in ToSet(ImportLocks(a, p))
         /\ UpdateOf(SourceOf[p]) \in ToSet(ImportLocks(a, p))
<1> DEFINE s1 == ForShare(a)
           s2 == ForUpdate(<<SourceOf[p]>>)
           s3 == ForUpdate(InIdOrder(Above(p) \cap Lessons))
           s4 == ForUpdate(InIdOrder(Above(p) \cap Topics))
<1>1. a \in Rows /\ SourceOf[p] \in Rows /\ Table(a) = 1 /\ Table(SourceOf[p]) = 2
  BY TableOfRow DEF Rows, Sources
<1>2. Span(s1, 1, 1) /\ ToSet(s1) = {ShareOf(a)}
  BY <1>1, ForShareIs
<1>3. Span(s2, 2, 2) /\ ToSet(s2) = {UpdateOf(SourceOf[p])}
  BY <1>1, UpdateOneIs
<1>4. Span(s3, 3, 3)
  BY OrderedSpan
<1>5. Span(s4, 4, 4)
  BY OrderedSpan
<1>6. ImportLocks(a, p) = s1 \o s2 \o s3 \o s4
  BY DEF ImportLocks
<1> HIDE DEF s1, s2, s3, s4
<1>7. Span(s1 \o s2, 1, 2) /\ Span(s1 \o s2 \o s3, 1, 3)
  BY <1>2, <1>3, <1>4, SpanJoins
<1>8. Span(s1 \o s2 \o s3 \o s4, 1, 4)
  BY <1>5, <1>7, SpanJoins
<1>9. ToSet(s1 \o s2 \o s3 \o s4) = ToSet(s1) \cup ToSet(s2) \cup ToSet(s3) \cup ToSet(s4)
  <2>1. /\ s1 \in Seq(Lock) /\ s2 \in Seq(Lock) /\ s3 \in Seq(Lock) /\ s4 \in Seq(Lock)
        /\ s1 \o s2 \in Seq(Lock) /\ s1 \o s2 \o s3 \in Seq(Lock)
    BY <1>2, <1>3, <1>4, <1>5, <1>7 DEF Span
  <2>2. ToSet(s1 \o s2) = ToSet(s1) \cup ToSet(s2)
    BY <2>1, LocksJoin
  <2>3. ToSet((s1 \o s2) \o s3) = ToSet(s1 \o s2) \cup ToSet(s3)
    BY <2>1, LocksJoin
  <2>4. ToSet((s1 \o s2 \o s3) \o s4) = ToSet(s1 \o s2 \o s3) \cup ToSet(s4)
    BY <2>1, LocksJoin
  <2>. QED
    BY <2>2, <2>3, <2>4
<1>. QED
  BY <1>2, <1>3, <1>6, <1>8, <1>9

-----------------------------------------------------------------------------
(***************************************************************************)
(* Steps that leave the rows alone.                                        *)
(***************************************************************************)

TxRecord == [pc : {"idle", "locking", "decided"}, op : Ops \cup {"none"},
             on : Items \cup Media \cup Sources \cup {NoMedia}, arg : Args,
             todo : Seq(Lock), held : SUBSET Lock,
             verdict : {"none", "refuse", "same", "apply"}]

LEMMA IdleIs ==
  /\ Idle \in TxRecord /\ Idle.pc = "idle" /\ Idle.held = {}
BY EmptySeq DEF Idle, TxRecord, Args

\* The rows are the same: what another transaction relies on is the same.
LEMMA SameRows ==
  ASSUME UNCHANGED <<data, active>>, NEW b \in Authors, tx'[b] = tx[b]
  PROVE  /\ CoverInv(b) => CoverInv(b)'
         /\ ActorInv(b) => ActorInv(b)'
         /\ OrderInv(b) => OrderInv(b)'
         /\ DecidedInv(b) => DecidedInv(b)'
<1>1. item' = item /\ revs' = revs /\ media' = media /\ jobs' = jobs /\ active' = active
  BY DEF data
<1>2. CoverInv(b) => CoverInv(b)'
  <2>1. SUFFICES ASSUME CoverInv(b), NEW lock \in Lock, Wants(b, lock)'
                 PROVE  lock \in (tx[b].held \cup ToSet(tx[b].todo))
    BY tx'[b] = tx[b] DEF CoverInv
  <2>2. Wants(b, lock)
    BY <2>1, <1>1, tx'[b] = tx[b] DEF Wants
  <2>. QED
    BY <2>1, <2>2 DEF CoverInv
<1>3. ActorInv(b) => ActorInv(b)'
  BY <1>1, tx'[b] = tx[b] DEF ActorInv
<1>4. OrderInv(b) => OrderInv(b)'
  BY tx'[b] = tx[b] DEF OrderInv, Sorted
<1>5. \A x \in Items, r \in Nat : PublishHolds(x, r) => PublishHolds(x, r)'
  BY <1>1 DEF PublishHolds, Mutable, Exists, Archived, Latest, ParentsLive, LessonReady, MediaReady
<1>6. DecidedInv(b) => DecidedInv(b)'
  BY <1>1, tx'[b] = tx[b]
  DEF DecidedInv, PublishHolds, Mutable, Exists, Archived, Latest, ParentsLive, LessonReady, MediaReady
<1>. QED
  BY <1>2, <1>3, <1>4, <1>6

LEMMA SameTarget ==
  ASSUME UNCHANGED <<item, revs>>, NEW b \in Authors, tx'[b] = tx[b], OpInv(b),
         \A c \in Authors \ {b} :
           tx[b].op = "create" /\ Busy(c)' /\ tx'[c].op \in ItemOps => tx'[c].on # tx[b].on
  PROVE  OpInv(b)'
BY DEF OpInv, Exists

LEMMA DataInvSame ==
  ASSUME UNCHANGED data, DataInv
  PROVE  DataInv'
BY DEF data, DataInv, RowInv, ImportsAreExact, Exists

\* A transaction begins.
LEMMA StartKeeps ==
  ASSUME IInv, NEW a \in Authors, NEW op \in Ops, NEW x \in Items \cup Media \cup Sources,
         NEW arg \in Args, NEW locks, Span(locks, 1, 6), Start(a, op, x, arg, locks),
         OpInv(a)', \A lock \in Lock : Wants(a, lock)' => lock \in ToSet(locks),
         \A b \in Authors \ {a} :
           Busy(b) /\ tx[b].op = "create" /\ op \in ItemOps => tx[b].on # x
  PROVE  IInv'
<1> DEFINE t == [Idle EXCEPT !.pc = "locking", !.op = op, !.on = x, !.arg = arg, !.todo = locks]
<1>1. TypeInv /\ tx \in [Authors -> TxRecord]
  BY DEF IInv, TypeInv, TxRecord
<1>2. /\ tx' = [tx EXCEPT ![a] = t] /\ UNCHANGED <<data, active>> /\ ops' = ops + 1
      /\ tx[a].pc = "idle" /\ active[a]
  BY DEF Start
<1>3. locks \in Seq(Lock) /\ Sorted(locks)
  BY DEF Span
<1>4. t \in TxRecord
  BY <1>3 DEF TxRecord, Idle
<1>5. /\ tx'[a] = t /\ tx' \in [Authors -> TxRecord]
      /\ \A b \in Authors \ {a} : tx'[b] = tx[b]
  BY <1>1, <1>2, <1>4
<1> HIDE DEF t
<1>6. /\ t.pc = "locking" /\ t.op = op /\ t.on = x /\ t.arg = arg /\ t.todo = locks
      /\ t.held = {} /\ t.verdict = "none"
  BY DEF t, Idle
<1>7. TypeInv'
  BY <1>1, <1>2, <1>5 DEF TypeInv, TxRecord, data
<1>8. DataInv'
  BY <1>2, DataInvSame DEF IInv
<1>9. LockInv'
  <2>1. SUFFICES ASSUME NEW c \in Authors, NEW d \in Authors, c # d,
                        NEW h \in tx'[c].held, NEW g \in tx'[d].held, h.row = g.row
                 PROVE  h.mode = "share" /\ g.mode = "share"
    BY DEF LockInv
  <2>2. c # a /\ d # a
    BY <2>1, <1>5, <1>6
  <2>. QED
    BY <2>1, <2>2, <1>5 DEF IInv, LockInv
<1>10. TxInv(a)'
  <2>1. CoverInv(a)'
    BY <1>5, <1>6 DEF CoverInv
  <2>2. ActorInv(a)' /\ DecidedInv(a)'
    BY <1>5, <1>6 DEF ActorInv, DecidedInv
  <2>3. OrderInv(a)'
    BY <1>3, <1>5, <1>6 DEF OrderInv
  <2>. QED
    BY <2>1, <2>2, <2>3, <1>5, <1>6 DEF TxInv, Busy
<1>11. ASSUME NEW b \in Authors \ {a} PROVE TxInv(b)'
  <2>1. tx'[b] = tx[b] /\ TxInv(b)
    BY <1>5 DEF IInv
  <2>2. CASE Busy(b)
    <3>1. OpInv(b) /\ CoverInv(b) /\ ActorInv(b) /\ OrderInv(b) /\ DecidedInv(b)
      BY <2>1, <2>2 DEF TxInv
    <3>2. ASSUME NEW c \in Authors \ {b}, tx[b].op = "create", Busy(c)', tx'[c].op \in ItemOps
          PROVE  tx'[c].on # tx[b].on
      <4>1. CASE c = a
        BY <4>1, <3>2, <1>5, <1>6, <2>2
      <4>2. CASE c # a
        <5>1. tx'[c] = tx[c]
          BY <4>2, <1>5
        <5>. QED
          BY <5>1, <3>1, <3>2 DEF OpInv, Busy, MediaOps
      <4>. QED
        BY <4>1, <4>2
    <3>3. OpInv(b)'
      BY <3>1, <3>2, <2>1, <1>2, SameTarget DEF data
    <3>. QED
      BY <3>1, <3>3, <2>1, <1>2, SameRows DEF TxInv, Busy
  <2>3. CASE ~Busy(b)
    BY <2>1, <2>3 DEF TxInv, Busy, Idle
  <2>. QED
    BY <2>2, <2>3
<1>. QED
  BY <1>7, <1>8, <1>9, <1>10, <1>11 DEF IInv

\* The record of a transaction that has begun.
LEMMA Started ==
  ASSUME TypeInv, NEW a \in Authors, NEW op, NEW x, NEW arg, NEW locks,
         Start(a, op, x, arg, locks)
  PROVE  /\ tx'[a].op = op /\ tx'[a].on = x /\ tx'[a].arg = arg /\ Busy(a)'
         /\ \A b \in Authors \ {a} : tx'[b] = tx[b]
         /\ UNCHANGED <<item, revs, media, jobs, active>>
<1>1. tx' = [tx EXCEPT ![a] = [Idle EXCEPT !.pc = "locking", !.op = op, !.on = x,
                                           !.arg = arg, !.todo = locks]]
  BY DEF Start
<1>2. tx'[a] = [Idle EXCEPT !.pc = "locking", !.op = op, !.on = x, !.arg = arg, !.todo = locks]
  BY <1>1 DEF TypeInv
<1>3. \A b \in Authors \ {a} : tx'[b] = tx[b]
  BY <1>1 DEF TypeInv
<1>4. UNCHANGED <<item, revs, media, jobs, active>>
  BY DEF Start, data
<1>. QED
  BY <1>2, <1>3, <1>4 DEF Idle, Busy

\* An item that exists is not about to be created.
LEMMA ExistingIsNotCreated ==
  ASSUME IInv, NEW x \in Items, Exists(x), NEW b \in Authors, Busy(b), tx[b].op = "create"
  PROVE  tx[b].on # x
BY DEF IInv, TxInv, OpInv, MediaOps

LEMMA RevisedExists ==
  ASSUME IInv, NEW x \in Items, NEW r \in DOMAIN revs[x]
  PROVE  Exists(x) /\ r \in 1..Len(revs[x]) /\ r \in Nat /\ revs[x][r].content \in Contents
<1>1. revs[x] \in Seq(Revision)
  BY DEF IInv, TypeInv
<1>2. DOMAIN revs[x] = 1..Len(revs[x]) /\ Len(revs[x]) \in Nat
  BY <1>1, LenProperties
<1>3. revs[x] # <<>>
  BY <1>2
<1>4. Exists(x)
  BY <1>3 DEF IInv, DataInv, RowInv
<1>5. revs[x][r] \in Revision
  BY <1>1, <1>2, ElementOfSeq
<1>. QED
  BY <1>2, <1>4, <1>5 DEF Revision

LEMMA BeginCreateKeeps ==
  ASSUME IInv, NEW a \in Authors, BeginCreate(a)
  PROVE  IInv'
<1>1. PICK x \in Items \ ImportRows, c \in Contents :
        /\ ~Exists(x) /\ \A b \in Authors : tx[b].on # x
        /\ Start(a, "create", x, c, CreateLocks(a, x))
  BY DEF BeginCreate
<1>2. Span(CreateLocks(a, x), 1, 6)
  BY CreateLocksAre, SpanWidens
<1>3. /\ tx'[a].op = "create" /\ tx'[a].on = x /\ tx'[a].arg = c
      /\ \A b \in Authors \ {a} : tx'[b] = tx[b]
      /\ UNCHANGED <<item, revs, media, jobs, active>>
  BY <1>1, Started DEF IInv
<1>4. OpInv(a)'
  BY <1>1, <1>3 DEF OpInv, Exists
<1>5. \A lock \in Lock : Wants(a, lock)' => lock \in ToSet(CreateLocks(a, x))
  <2>1. \A lock : Wants(a, lock)' => x \in Exercises /\ lock = ShareOf(a)
    BY <1>3 DEF Wants, MediaOps
  <2>. QED
    BY <2>1, CreateLocksAre
<1>6. "create" \in Ops /\ c \in Args
  BY DEF Ops, ItemOps, Args
<1>. QED
  BY <1>1, <1>2, <1>4, <1>5, <1>6, StartKeeps

LEMMA ItemStart ==
  ASSUME IInv, NEW a \in Authors, NEW op \in {"revise", "review", "archive"}, NEW x \in Items,
         Exists(x), NEW arg \in Args, Start(a, op, x, arg, ItemLocks(a, x)), OpInv(a)'
  PROVE  IInv'
<1>1. Span(ItemLocks(a, x), 1, 6)
  BY ItemLocksAre, CreateLocksAre, SpanWidens
<1>2. tx'[a].op = op /\ tx'[a].on = x
  BY Started DEF IInv
<1>3. \A lock \in Lock : Wants(a, lock)' => lock \in ToSet(ItemLocks(a, x))
  <2>1. \A lock : Wants(a, lock)' =>
          \/ lock = UpdateOf(x) \/ \E p \in ToSet(ParentsOf[x]) : lock = UpdateOf(p)
          \/ x \in Exercises /\ lock = ShareOf(a)
    BY <1>2 DEF Wants, MediaOps
  <2>. QED
    BY <2>1, ItemLocksAre
<1>4. op \in Ops
  BY DEF Ops, ItemOps
<1>. QED
  BY <1>1, <1>3, <1>4, StartKeeps, ExistingIsNotCreated

LEMMA BeginReviseKeeps ==
  ASSUME IInv, NEW a \in Authors, BeginRevise(a)
  PROVE  IInv'
<1>1. PICK x \in Items, c \in Contents :
        Exists(x) /\ Start(a, "revise", x, c, ItemLocks(a, x))
  BY DEF BeginRevise
<1>2. /\ tx'[a].op = "revise" /\ tx'[a].on = x /\ tx'[a].arg = c /\ item' = item
  BY <1>1, Started DEF IInv
<1>3. OpInv(a)' /\ c \in Args
  BY <1>1, <1>2 DEF OpInv, Exists, Args
<1>. QED
  BY <1>1, <1>3, ItemStart

LEMMA BeginReviewKeeps ==
  ASSUME IInv, NEW a \in Authors, BeginReview(a)
  PROVE  IInv'
<1>1. PICK x \in Items, d \in {"approved", "changes_requested"} : \E r \in DOMAIN revs[x] :
        Start(a, "review", x, [rev |-> r, decision |-> d], ItemLocks(a, x))
  BY DEF BeginReview
<1>2. PICK r \in DOMAIN revs[x] : Start(a, "review", x, [rev |-> r, decision |-> d], ItemLocks(a, x))
  BY <1>1
<1>3. Exists(x) /\ r \in 1..Len(revs[x]) /\ r \in Nat
  BY RevisedExists
<1> DEFINE arg == [rev |-> r, decision |-> d]
<1>4. arg \in [rev : Nat, decision : {"approved", "changes_requested"}] /\ arg.rev = r
  BY <1>3
<1> HIDE DEF arg
<1>5. /\ tx'[a].op = "review" /\ tx'[a].on = x /\ tx'[a].arg = arg
      /\ item' = item /\ revs' = revs
  BY <1>2, Started DEF IInv, arg
<1>6. OpInv(a)' /\ arg \in Args
  BY <1>3, <1>4, <1>5 DEF OpInv, Exists, Args
<1>. QED
  BY <1>2, <1>3, <1>6, ItemStart DEF arg

LEMMA BeginArchiveKeeps ==
  ASSUME IInv, NEW a \in Authors, BeginArchive(a)
  PROVE  IInv'
<1>1. PICK x \in Items : Exists(x) /\ Start(a, "archive", x, NoMedia, ItemLocks(a, x))
  BY DEF BeginArchive
<1>2. /\ tx'[a].op = "archive" /\ tx'[a].on = x /\ item' = item
  BY <1>1, Started DEF IInv
<1>3. OpInv(a)' /\ NoMedia \in Args
  BY <1>1, <1>2 DEF OpInv, Exists, Args
<1>. QED
  BY <1>1, <1>3, ItemStart

LEMMA BeginPublishKeeps ==
  ASSUME IInv, NEW a \in Authors, BeginPublish(a)
  PROVE  IInv'
<1>1. PICK x \in Items : \E r \in DOMAIN revs[x] :
        Start(a, "publish", x, [rev |-> r], PublishLocks(a, x, revs[x][r].content))
  BY DEF BeginPublish
<1>2. PICK r \in DOMAIN revs[x] :
        Start(a, "publish", x, [rev |-> r], PublishLocks(a, x, revs[x][r].content))
  BY <1>1
<1> DEFINE arg == [rev |-> r]  c == revs[x][r].content
<1>3. Exists(x) /\ r \in 1..Len(revs[x]) /\ r \in Nat /\ c \in Contents
  BY RevisedExists
<1>4. arg \in [rev : Nat] /\ arg.rev = r /\ arg \in Args
  BY <1>3 DEF Args
<1> HIDE DEF arg
<1>5. /\ tx'[a].op = "publish" /\ tx'[a].on = x /\ tx'[a].arg = arg
      /\ item' = item /\ revs' = revs
  BY <1>2, Started DEF IInv, arg
<1>6. OpInv(a)'
  BY <1>3, <1>4, <1>5 DEF OpInv, Exists
<1>7. Span(PublishLocks(a, x, c), 1, 6)
  BY <1>3, PublishLocksAre
<1>8. \A lock \in Lock : Wants(a, lock)' => lock \in ToSet(PublishLocks(a, x, c))
  <2>1. \A lock : Wants(a, lock)' =>
          \/ lock = UpdateOf(x) \/ \E p \in ToSet(ParentsOf[x]) : lock = UpdateOf(p)
          \/ x \in Exercises /\ lock = ShareOf(a)
          \/ x \in Exercises /\ MediaOf[c] # NoMedia /\ lock = ShareOf(MediaOf[c])
    BY <1>4, <1>5 DEF Wants, MediaOps
  <2>. QED
    BY <2>1, <1>3, ItemLocksAre, PublishLocksAre
<1>9. "publish" \in Ops
  BY DEF Ops, ItemOps
<1>10. Start(a, "publish", x, arg, PublishLocks(a, x, c))
  BY <1>2 DEF arg
<1> HIDE DEF c
<1>. QED
  BY <1>3, <1>4, <1>6, <1>7, <1>8, <1>9, <1>10, StartKeeps, ExistingIsNotCreated

LEMMA BeginMediaKeeps ==
  ASSUME IInv, NEW a \in Authors, BeginMedia(a)
  PROVE  IInv'
<1>1. PICK m \in Media, op \in MediaOps : Start(a, op, m, NoMedia, MediaLocks(a, m))
  BY DEF BeginMedia
<1>2. tx'[a].op = op /\ tx'[a].on = m
  BY <1>1, Started DEF IInv
<1>3. OpInv(a)' /\ NoMedia \in Args /\ op \in Ops /\ op \notin ItemOps
  BY <1>2 DEF OpInv, Args, Ops, MediaOps, ItemOps
<1>4. \A lock \in Lock : Wants(a, lock)' => lock \in ToSet(MediaLocks(a, m))
  <2>1. \A lock : Wants(a, lock)' => lock = UpdateOf(m) \/ lock = ShareOf(a)
    BY <1>2, <1>3 DEF Wants, ItemOps
  <2>. QED
    BY <2>1, MediaLocksAre
<1>. QED
  BY <1>1, <1>3, <1>4, MediaLocksAre, StartKeeps

LEMMA BeginImportKeeps ==
  ASSUME IInv, NEW a \in Authors, BeginImport(a)
  PROVE  IInv'
<1>1. PICK k \in Keys, p \in Payloads :
        Start(a, "import", SourceOf[p], [key |-> k, file |-> p], ImportLocks(a, p))
  BY DEF BeginImport
<1> DEFINE arg == [key |-> k, file |-> p]
<1>2. arg \in [key : Keys, file : Payloads] /\ arg.file = p /\ arg \in Args
  BY DEF Args
<1> HIDE DEF arg
<1>3. tx'[a].op = "import" /\ tx'[a].on = SourceOf[p] /\ tx'[a].arg = arg
  BY <1>1, Started DEF IInv, arg
<1>4. OpInv(a)' /\ "import" \in Ops /\ "import" \notin ItemOps /\ SourceOf[p] \in Sources
  BY <1>2, <1>3 DEF OpInv, Ops, ItemOps, Sources
<1>5. \A lock \in Lock : Wants(a, lock)' => lock \in ToSet(ImportLocks(a, p))
  <2>1. \A lock : Wants(a, lock)' => lock = UpdateOf(SourceOf[p]) \/ lock = ShareOf(a)
    BY <1>3, <1>4 DEF Wants, ItemOps
  <2>. QED
    BY <2>1, ImportLocksAre
<1>6. Span(ImportLocks(a, p), 1, 6)
  BY ImportLocksAre, SpanWidens
<1>7. Start(a, "import", SourceOf[p], arg, ImportLocks(a, p))
  BY <1>1 DEF arg
<1>. QED
  BY <1>2, <1>4, <1>5, <1>6, <1>7, StartKeeps

\* The others, when a transaction goes on or ends and the rows are the same.
LEMMA OthersKeep ==
  ASSUME IInv, NEW a \in Authors, UNCHANGED <<data, active>>,
         \A b \in Authors \ {a} : tx'[b] = tx[b],
         Busy(a)' /\ tx'[a].op \in ItemOps =>
           Busy(a) /\ tx[a].op = tx'[a].op /\ tx[a].on = tx'[a].on,
         NEW b \in Authors \ {a}
  PROVE  TxInv(b)'
<1>1. tx'[b] = tx[b] /\ TxInv(b)
  BY DEF IInv
<1>2. CASE Busy(b)
  <2>1. OpInv(b) /\ CoverInv(b) /\ ActorInv(b) /\ OrderInv(b) /\ DecidedInv(b)
    BY <1>1, <1>2 DEF TxInv
  <2>2. ASSUME NEW c \in Authors \ {b}, tx[b].op = "create", Busy(c)', tx'[c].op \in ItemOps
        PROVE  tx'[c].on # tx[b].on
    <3>1. Busy(c) /\ tx[c].op \in ItemOps /\ tx'[c].on = tx[c].on
      BY <2>2 DEF Busy
    <3>. QED
      BY <3>1, <2>1, <2>2 DEF OpInv, MediaOps
  <2>3. OpInv(b)'
    BY <2>1, <2>2, <1>1, SameTarget DEF data
  <2>. QED
    BY <2>1, <2>3, <1>1, SameRows DEF TxInv, Busy
<1>3. CASE ~Busy(b)
  BY <1>1, <1>3 DEF TxInv, Busy, Idle
<1>. QED
  BY <1>2, <1>3

\* A transaction ends and writes nothing.
LEMMA EndKeeps ==
  ASSUME IInv, NEW a \in Authors, tx' = [tx EXCEPT ![a] = Idle],
         UNCHANGED <<data, active, ops>>
  PROVE  IInv'
<1>1. /\ tx \in [Authors -> TxRecord] /\ TypeInv
  BY DEF IInv, TypeInv, TxRecord
<1>2. tx'[a] = Idle /\ tx' \in [Authors -> TxRecord] /\ \A b \in Authors \ {a} : tx'[b] = tx[b]
  BY <1>1, IdleIs
<1>3. TypeInv'
  BY <1>1, <1>2 DEF TypeInv, TxRecord, data
<1>4. DataInv'
  BY DataInvSame DEF IInv
<1>5. LockInv'
  <2>1. \A b \in Authors : tx'[b].held \subseteq tx[b].held
    BY <1>2, IdleIs
  <2>. QED
    BY <2>1 DEF IInv, LockInv
<1>6. TxInv(a)' /\ ~Busy(a)'
  BY <1>2, IdleIs DEF TxInv, Busy, Idle
<1>7. \A b \in Authors \ {a} : TxInv(b)'
  BY <1>2, <1>6, OthersKeep
<1>. QED
  BY <1>3, <1>4, <1>5, <1>6, <1>7 DEF IInv

LEMMA AcquireKeeps ==
  ASSUME IInv, NEW a \in Authors, Acquire(a)
  PROVE  IInv'
<1> DEFINE lock == Head(tx[a].todo)  t == Granted(a, lock)
<1>1. /\ tx[a].pc = "locking" /\ tx[a].todo # <<>> /\ Compatible(a, lock)
      /\ UNCHANGED <<data, active, ops>>
      /\ tx' = [tx EXCEPT ![a] = IF lock.row = a /\ ~active[a] THEN Idle ELSE t]
  BY DEF Acquire
<1>2. CASE lock.row = a /\ ~active[a]
  BY <1>1, <1>2, EndKeeps
<1>3. CASE ~(lock.row = a /\ ~active[a])
  <2>1. /\ TypeInv /\ tx \in [Authors -> TxRecord] /\ tx[a] \in TxRecord
        /\ tx[a].todo \in Seq(Lock) /\ tx[a].held \in SUBSET Lock
    BY DEF IInv, TypeInv, TxRecord
  <2>2. /\ OpInv(a) /\ CoverInv(a) /\ ActorInv(a) /\ OrderInv(a) /\ DecidedInv(a)
    BY <1>1 DEF IInv, TxInv, Busy
  <2>3. /\ lock \in Lock /\ Tail(tx[a].todo) \in Seq(Lock)
        /\ Len(Tail(tx[a].todo)) = Len(tx[a].todo) - 1 /\ Len(tx[a].todo) \in Nat \ {0}
        /\ lock = tx[a].todo[1]
        /\ \A i \in 1..Len(Tail(tx[a].todo)) : Tail(tx[a].todo)[i] = tx[a].todo[i + 1]
    BY <1>1, <2>1, HeadTailProperties, EmptySeq
  <2> HIDE DEF lock
  <2>4. /\ t \in TxRecord /\ t.pc = "locking" /\ t.on = tx[a].on /\ t.arg = tx[a].arg
        /\ t.held = tx[a].held \cup {lock} /\ t.verdict = tx[a].verdict
        /\ t.todo = IF Replays(a, lock) THEN <<>> ELSE Tail(tx[a].todo)
        /\ t.op = IF Replays(a, lock) THEN "replay" ELSE tx[a].op
    <3> DEFINE H == tx[a].held \cup {lock}
               D == IF Replays(a, lock) THEN <<>> ELSE Tail(tx[a].todo)
               O == IF Replays(a, lock) THEN "replay" ELSE tx[a].op
    <3>1. H \in SUBSET Lock /\ D \in Seq(Lock) /\ O \in Ops \cup {"none"}
      BY <2>1, <2>3, EmptySeq DEF TxRecord, Ops
    <3>2. t = [tx[a] EXCEPT !.held = H, !.todo = D, !.op = O]
      BY DEF Granted
    <3> HIDE DEF t, H, D, O
    <3>3. /\ t \in TxRecord /\ t.pc = tx[a].pc /\ t.on = tx[a].on /\ t.arg = tx[a].arg
          /\ t.held = H /\ t.verdict = tx[a].verdict /\ t.todo = D /\ t.op = O
      BY <2>1, <3>1, <3>2 DEF TxRecord
    <3>. QED
      BY <1>1, <3>3 DEF H, D, O
  <2> HIDE DEF t
  <2>5. tx'[a] = t /\ tx' \in [Authors -> TxRecord] /\ \A b \in Authors \ {a} : tx'[b] = tx[b]
    BY <1>1, <1>3, <2>1, <2>4
  <2>6. Replays(a, lock) => tx[a].op = "import"
    BY DEF Replays
  <2>7. TypeInv'
    BY <1>1, <2>1, <2>5 DEF TypeInv, TxRecord, data
  <2>8. DataInv'
    BY <1>1, DataInvSame DEF IInv
  <2>9. LockInv'
    <3>1. SUFFICES ASSUME NEW c \in Authors, NEW d \in Authors, c # d,
                          NEW h \in tx'[c].held, NEW g \in tx'[d].held, h.row = g.row
                   PROVE  h.mode = "share" /\ g.mode = "share"
      BY DEF LockInv
    <3>2. CASE h \in tx[c].held /\ g \in tx[d].held
      BY <3>1, <3>2 DEF IInv, LockInv
    <3>3. CASE h \notin tx[c].held
      <4>1. c = a /\ h = lock /\ tx'[d] = tx[d]
        BY <3>1, <3>3, <2>4, <2>5
      <4>. QED
        BY <4>1, <3>1, <1>1 DEF Compatible
    <3>4. CASE g \notin tx[d].held
      <4>1. d = a /\ g = lock /\ tx'[c] = tx[c]
        BY <3>1, <3>4, <2>4, <2>5
      <4>. QED
        BY <4>1, <3>1, <1>1 DEF Compatible
    <3>. QED
      BY <3>2, <3>3, <3>4
  <2>10. TxInv(a)'
    <3>1. OpInv(a)'
      <4>1. item' = item /\ revs' = revs
        BY <1>1 DEF data
      <4>2. CASE Replays(a, lock)
        BY <4>2, <2>2, <2>4, <2>5, <2>6 DEF OpInv, MediaOps
      <4>3. CASE ~Replays(a, lock)
        BY <4>1, <4>3, <2>2, <2>4, <2>5 DEF OpInv, Exists, Busy
      <4>. QED
        BY <4>2, <4>3
    <3>2. CoverInv(a)'
      <4>1. item' = item /\ revs' = revs
        BY <1>1 DEF data
      <4>2. SUFFICES ASSUME NEW w \in Lock, Wants(a, w)' PROVE w \in t.held \cup ToSet(t.todo)
        BY <2>5 DEF CoverInv
      <4>3. ~Replays(a, lock)
        BY <4>2, <2>4, <2>5 DEF Wants, ItemOps, MediaOps
      <4>4. Wants(a, w)
        BY <4>1, <4>2, <4>3, <2>4, <2>5 DEF Wants
      <4>5. w \in tx[a].held \cup ToSet(tx[a].todo)
        BY <4>4, <2>2 DEF CoverInv
      <4>6. ASSUME w \in ToSet(tx[a].todo) PROVE w = lock \/ w \in ToSet(Tail(tx[a].todo))
        <5>1. PICK i \in 1..Len(tx[a].todo) : w = tx[a].todo[i]
          BY <4>6, <2>1, LenProperties DEF ToSet
        <5>2. CASE i = 1
          BY <5>1, <5>2, <2>3
        <5>3. CASE i # 1
          <6>1. i - 1 \in 1..Len(Tail(tx[a].todo)) /\ w = Tail(tx[a].todo)[i - 1]
            BY <5>1, <5>3, <2>3
          <6>. QED
            BY <6>1, <2>3, LenProperties DEF ToSet
        <5>. QED
          BY <5>2, <5>3
      <4>. QED
        BY <4>3, <4>5, <4>6, <2>4
    <3>3. ActorInv(a)'
      <4>1. lock = ShareOf(a) => lock.row = a
        BY DEF ShareOf
      <4>2. active' = active /\ active[a] \in BOOLEAN
        BY <1>1, <2>1 DEF TypeInv
      <4>. QED
        BY <1>3, <4>1, <4>2, <2>2, <2>4, <2>5 DEF ActorInv
    <3>4. OrderInv(a)'
      <4>1. CASE Replays(a, lock)
        BY <4>1, <2>4, <2>5, EmptySeq DEF OrderInv, Sorted
      <4>2. CASE ~Replays(a, lock)
        <5>1. \A i \in 1..Len(t.todo) : i + 1 \in 1..Len(tx[a].todo) /\ t.todo[i] = tx[a].todo[i + 1]
          BY <4>2, <2>3, <2>4
        <5>2. Sorted(t.todo)
          <6>1. SUFFICES ASSUME NEW i \in 1..Len(t.todo), NEW j \in 1..Len(t.todo), i < j
                         PROVE  Rank(t.todo[i].row) < Rank(t.todo[j].row)
            BY DEF Sorted
          <6>2. Len(t.todo) \in Nat /\ i + 1 < j + 1
            BY <6>1, <2>3, <2>4, <4>2
          <6>. QED
            BY <5>1, <6>2, <2>2 DEF OrderInv, Sorted
        <5>3. ASSUME NEW h \in t.held, NEW i \in 1..Len(t.todo)
              PROVE  Rank(h.row) < Rank(t.todo[i].row)
          <6>1. CASE h \in tx[a].held
            BY <5>1, <6>1, <2>2 DEF OrderInv
          <6>2. CASE h = lock
            <7>1. 1 \in 1..Len(tx[a].todo) /\ 1 < i + 1
              BY <2>3
            <7>. QED
              BY <5>1, <6>2, <7>1, <2>2, <2>3 DEF OrderInv, Sorted
          <6>. QED
            BY <6>1, <6>2, <2>4
        <5>. QED
          BY <5>2, <5>3, <2>5 DEF OrderInv
      <4>. QED
        BY <4>1, <4>2
    <3>5. DecidedInv(a)' /\ Busy(a)'
      BY <2>4, <2>5 DEF DecidedInv, Busy
    <3>. QED
      BY <3>1, <3>2, <3>3, <3>4, <3>5 DEF TxInv
  <2>11. tx'[a].op \in ItemOps => Busy(a) /\ tx[a].op = tx'[a].op /\ tx[a].on = tx'[a].on
    BY <1>1, <2>4, <2>5 DEF ItemOps, Busy
  <2>12. \A b \in Authors \ {a} : TxInv(b)'
    BY <1>1, <2>5, <2>11, OthersKeep
  <2>. QED
    BY <2>7, <2>8, <2>9, <2>10, <2>12 DEF IInv
<1>. QED
  BY <1>2, <1>3

\* The verdict "apply" stands for the checks of the operation.
LEMMA VerdictIs ==
  ASSUME NEW a \in Authors, OpInv(a)
  PROVE  /\ Verdict(a) \in {"refuse", "same", "apply"}
         /\ Verdict(a) = "apply" =>
              /\ tx[a].op = "publish" => PublishHolds(tx[a].on, tx[a].arg.rev)
              /\ tx[a].op = "import" => \A x \in RowsOf[tx[a].arg.file] : ~Exists(x)
              /\ tx[a].op # "replay"
<1>1. tx[a].op \in Ops
  BY DEF OpInv, Ops, ItemOps
<1>2. Verdict(a) \in {"refuse", "same", "apply"}
  BY <1>1 DEF Verdict, When, Ops, ItemOps, MediaOps
<1>3. ASSUME Verdict(a) = "apply", tx[a].op = "publish"
      PROVE  PublishHolds(tx[a].on, tx[a].arg.rev)
  <2> DEFINE x == tx[a].on  r == tx[a].arg.rev
  <2>1. Verdict(a) = When(PublishAllowed(x, r), AlreadyLive(x, r))
    BY <1>3 DEF Verdict, MediaOps
  <2>2. PublishAllowed(x, r) /\ ~AlreadyLive(x, r)
    BY <1>3, <2>1 DEF When
  <2> HIDE DEF x, r
  <2>3. x \in Exercises => MediaReady(x, Latest(x).content)
    BY <2>2 DEF PublishAllowed
  <2>4. MediaReady(x, Latest(x).content)
    BY <2>3 DEF MediaReady
  <2>5. PublishHolds(x, r)
    BY <2>2, <2>4 DEF PublishAllowed, PublishHolds, IsLatest
  <2>. QED
    BY <2>5 DEF x, r
<1>4. ASSUME Verdict(a) = "apply", tx[a].op = "import"
      PROVE  \A x \in RowsOf[tx[a].arg.file] : ~Exists(x)
  <2>1. Verdict(a) = When(ImportAllowed(tx[a].arg.file), FALSE)
    BY <1>4 DEF Verdict, MediaOps
  <2>. QED
    BY <1>4, <2>1 DEF When, ImportAllowed
<1>5. ASSUME Verdict(a) = "apply" PROVE tx[a].op # "replay"
  BY <1>5 DEF Verdict, When, MediaOps
<1>. QED
  BY <1>2, <1>3, <1>4, <1>5

LEMMA DecideKeeps ==
  ASSUME IInv, NEW a \in Authors, Decide(a)
  PROVE  IInv'
<1> DEFINE v == Verdict(a)  t == [tx[a] EXCEPT !.pc = "decided", !.verdict = v]
<1>1. /\ tx[a].pc = "locking" /\ tx[a].todo = <<>> /\ UNCHANGED <<data, active, ops>>
      /\ tx' = [tx EXCEPT ![a] = t]
  BY DEF Decide
<1>2. /\ TypeInv /\ tx \in [Authors -> TxRecord] /\ tx[a] \in TxRecord
      /\ OpInv(a) /\ CoverInv(a) /\ ActorInv(a) /\ OrderInv(a)
  BY <1>1 DEF IInv, TypeInv, TxRecord, TxInv, Busy
<1>3. v \in {"refuse", "same", "apply"}
  BY <1>2, VerdictIs
<1> HIDE DEF v
<1>4. /\ t \in TxRecord /\ t.pc = "decided" /\ t.op = tx[a].op /\ t.on = tx[a].on
      /\ t.arg = tx[a].arg /\ t.todo = tx[a].todo /\ t.held = tx[a].held /\ t.verdict = v
  BY <1>2, <1>3 DEF TxRecord
<1> HIDE DEF t
<1>5. tx'[a] = t /\ tx' \in [Authors -> TxRecord] /\ \A b \in Authors \ {a} : tx'[b] = tx[b]
  BY <1>1, <1>2, <1>4
<1>6. item' = item /\ revs' = revs /\ media' = media /\ active' = active
  BY <1>1 DEF data
<1>7. TypeInv'
  BY <1>1, <1>2, <1>5 DEF TypeInv, TxRecord, data
<1>8. DataInv'
  BY <1>1, DataInvSame DEF IInv
<1>9. LockInv'
  <2>1. \A b \in Authors : tx'[b].held = tx[b].held
    BY <1>4, <1>5
  <2>. QED
    BY <2>1 DEF IInv, LockInv
<1>10. OpInv(a)' /\ CoverInv(a)' /\ ActorInv(a)' /\ OrderInv(a)'
  <2>1. OpInv(a)'
    BY <1>2, <1>4, <1>5, <1>6 DEF OpInv, Exists, Busy
  <2>2. CoverInv(a)'
    BY <1>2, <1>4, <1>5, <1>6 DEF CoverInv, Wants
  <2>3. ActorInv(a)' /\ OrderInv(a)'
    BY <1>2, <1>4, <1>5, <1>6 DEF ActorInv, OrderInv
  <2>. QED
    BY <2>1, <2>2, <2>3
<1>11. DecidedInv(a)'
  <2>1. v = "apply" =>
          /\ tx[a].op = "publish" => PublishHolds(tx[a].on, tx[a].arg.rev)
          /\ tx[a].op = "import" => \A x \in RowsOf[tx[a].arg.file] : ~Exists(x)
          /\ tx[a].op # "replay"
    BY <1>2, VerdictIs DEF v
  <2>2. ASSUME NEW x, NEW r, PublishHolds(x, r) PROVE PublishHolds(x, r)'
    BY <1>6, <2>2 DEF PublishHolds, Mutable, Exists, Archived, Latest, ParentsLive, LessonReady, MediaReady
  <2>3. tx'[a].verdict = v /\ tx'[a].todo = <<>> /\ tx'[a].op = tx[a].op
        /\ tx'[a].on = tx[a].on /\ tx'[a].arg = tx[a].arg
    BY <1>1, <1>4, <1>5
  <2>4. ASSUME v = "apply", tx[a].op = "publish"
        PROVE  PublishHolds(tx[a].on, tx[a].arg.rev)' 
    BY <1>6, <2>1, <2>3, <2>4
    DEF PublishHolds, Mutable, Exists, Archived, Latest, ParentsLive, LessonReady, MediaReady
  <2>5. ASSUME v = "apply", tx[a].op = "import"
        PROVE  \A x \in RowsOf[tx'[a].arg.file] : ~Exists(x)'
    BY <1>6, <2>1, <2>3, <2>5 DEF Exists
  <2>. QED
    BY <2>1, <2>3, <2>4, <2>5 DEF DecidedInv
<1>12. \A b \in Authors \ {a} : TxInv(b)'
  <2>1. Busy(a) /\ tx[a].op = tx'[a].op /\ tx[a].on = tx'[a].on
    BY <1>1, <1>4, <1>5 DEF Busy
  <2>. QED
    BY <1>1, <1>5, <2>1, OthersKeep
<1>13. Busy(a)'
  BY <1>4, <1>5 DEF Busy
<1>. QED
  BY <1>7, <1>8, <1>9, <1>10, <1>11, <1>12, <1>13 DEF IInv, TxInv

LEMMA AbortKeeps ==
  ASSUME IInv, NEW a \in Authors, Abort(a)
  PROVE  IInv'
BY EndKeeps DEF Abort

LEMMA DeactivateKeeps ==
  ASSUME IInv, NEW a \in Authors, Deactivate(a)
  PROVE  IInv'
<1>1. /\ \A b \in Authors : \A h \in tx[b].held : h.row # a
      /\ active' = [active EXCEPT ![a] = FALSE] /\ UNCHANGED <<data, tx, ops>>
  BY DEF Deactivate
<1>2. item' = item /\ revs' = revs /\ media' = media /\ jobs' = jobs /\ tx' = tx
  BY <1>1 DEF data
<1>3. TypeInv' /\ DataInv' /\ LockInv'
  BY <1>1, <1>2, DataInvSame DEF IInv, TypeInv, LockInv
<1>4. ASSUME NEW b \in Authors PROVE TxInv(b)'
  <2>1. TxInv(b)
    BY DEF IInv
  <2>2. ActorInv(b) => ActorInv(b)'
    <3>1. ShareOf(b) \in tx[b].held => b # a
      BY <1>1 DEF ShareOf
    <3>. QED
      BY <1>1, <1>2, <3>1 DEF ActorInv, IInv, TypeInv
  <2>3. OpInv(b) => OpInv(b)'
    BY <1>2 DEF OpInv, Exists, Busy
  <2>4. CoverInv(b) => CoverInv(b)'
    BY <1>2 DEF CoverInv, Wants
  <2>5. OrderInv(b) => OrderInv(b)'
    BY <1>2 DEF OrderInv
  <2>6. DecidedInv(b) => DecidedInv(b)'
    BY <1>2 DEF DecidedInv, PublishHolds, Mutable, Exists, Archived, Latest, ParentsLive,
                LessonReady, MediaReady
  <2>. QED
    BY <1>2, <2>1, <2>2, <2>3, <2>4, <2>5, <2>6 DEF TxInv, Busy
<1>. QED
  BY <1>3, <1>4 DEF IInv

-----------------------------------------------------------------------------
(***************************************************************************)
(* Steps that write.                                                       *)
(***************************************************************************)

\* What the commit of author a changes, and under which of its locks.
Frame(a) ==
  /\ \A x \in Items : Exists(x) =>
       /\ Exists(x)' /\ Len(revs[x]) <= Len(revs'[x])
       /\ \A r \in 1..Len(revs[x]) : revs'[x][r].content = revs[x][r].content
  /\ \A x \in Items : ~Exists(x) /\ Exists(x)' =>
       \/ tx[a].op = "create" /\ x = tx[a].on
       \/ tx[a].op = "import" /\ x \in RowsOf[tx[a].arg.file]
  /\ \A x \in Items : Exists(x) /\ ~(item'[x] = item[x] /\ revs'[x] = revs[x]) =>
       UpdateOf(x) \in tx[a].held
  /\ \A x \in Items : item[x].status = "published" /\ item'[x].status # "published" =>
       \A p \in ToSet(ParentsOf[x]) : UpdateOf(p) \in tx[a].held
  /\ \A m \in Media : media'[m] # media[m] => UpdateOf(m) \in tx[a].held

Kept(a) == TypeInv' /\ DataInv' /\ Frame(a)

LEMMA JobsSame ==
  ASSUME DataInv, jobs' = jobs, \A x \in Items : item'[x].job = item[x].job
  PROVE  ImportsAreExact'
BY DEF DataInv, ImportsAreExact

ItemRow == [status : Statuses, live : Contents, version : Nat, job : Keys \cup {NoMedia}]

\* The row of one item changes and its job does not.
LEMMA OneRow ==
  ASSUME IInv, NEW x \in Items, NEW new \in ItemRow, NEW log \in Seq(Revision),
         item' = [item EXCEPT ![x] = new], revs' = [revs EXCEPT ![x] = log],
         UNCHANGED <<media, jobs, active, ops>>, tx' \in [Authors -> TxRecord],
         new.job = item[x].job, RowInv(x)'
  PROVE  TypeInv' /\ DataInv'
<1>1. TypeInv /\ DataInv
  BY DEF IInv
<1>2. item \in [Items -> ItemRow] /\ revs \in [Items -> Seq(Revision)]
  BY <1>1 DEF TypeInv, ItemRow
<1>3. item' \in [Items -> ItemRow] /\ revs' \in [Items -> Seq(Revision)]
  BY <1>2
<1>4. TypeInv'
  BY <1>1, <1>3 DEF TypeInv, TxRecord, ItemRow
<1>5. item'[x] = new /\ \A y \in Items \ {x} : item'[y] = item[y] /\ revs'[y] = revs[y]
  BY <1>2
<1>6. \A y \in Items : item'[y].job = item[y].job
  BY <1>5
<1>7. ImportsAreExact'
  BY <1>1, <1>6, JobsSame
<1>8. \A y \in Items \ {x} : RowInv(y)'
  BY <1>1, <1>5 DEF DataInv, RowInv, Exists
<1>. QED
  BY <1>4, <1>7, <1>8 DEF DataInv

LEMMA HeldIs ==
  ASSUME IInv, NEW a \in Authors, tx[a].pc = "decided"
  PROVE  /\ OpInv(a) /\ DecidedInv(a)
         /\ \A lock \in Lock : Wants(a, lock) => lock \in tx[a].held
<1>1. OpInv(a) /\ CoverInv(a) /\ DecidedInv(a)
  BY DEF IInv, TxInv, Busy
<1>2. tx[a].todo = <<>>
  BY <1>1 DEF DecidedInv
<1>3. ToSet(<<>>) = {}
  BY DEF ToSet
<1>. QED
  BY <1>1, <1>2, <1>3 DEF CoverInv

\* An operation on an item holds the item and its parents.
LEMMA ItemHeld ==
  ASSUME IInv, NEW a \in Authors, tx[a].pc = "decided", tx[a].op \in ItemOps \ {"create"}
  PROVE  /\ tx[a].on \in Items /\ Exists(tx[a].on)
         /\ UpdateOf(tx[a].on) \in tx[a].held
         /\ \A p \in ToSet(ParentsOf[tx[a].on]) : UpdateOf(p) \in tx[a].held
<1>1. tx[a].on \in Items /\ Exists(tx[a].on)
  BY HeldIs DEF OpInv, ItemOps, MediaOps
<1>2. UpdateOf(tx[a].on) \in Lock
  BY <1>1 DEF UpdateOf, Lock, Rows, Modes
<1>3. \A p \in ToSet(ParentsOf[tx[a].on]) : UpdateOf(p) \in Lock
  BY <1>1, ParentsAre DEF UpdateOf, Lock, Rows, Modes, Items
<1>. QED
  BY <1>1, <1>2, <1>3, HeldIs DEF Wants

LEMMA CreateKept ==
  ASSUME IInv, NEW a \in Authors, tx[a].pc = "decided", tx[a].op = "create",
         Created(tx[a].on, tx[a].arg), UNCHANGED <<active, ops>>, tx' \in [Authors -> TxRecord]
  PROVE  Kept(a)
<1>1. PICK x \in Items, c \in Contents : x = tx[a].on /\ c = tx[a].arg /\ ~Exists(x)
  BY HeldIs DEF OpInv, MediaOps
<1>2. TypeInv /\ DataInv /\ item[x] \in ItemRow /\ item \in [Items -> ItemRow]
  BY DEF IInv, TypeInv, ItemRow
<1> DEFINE new == [item[x] EXCEPT !.status = "draft", !.live = c, !.version = 1]
           log == <<NewRevision(c)>>
<1>3. /\ item' = [item EXCEPT ![x] = new] /\ revs' = [revs EXCEPT ![x] = log]
      /\ UNCHANGED <<media, jobs>>
  BY <1>1 DEF Created
<1>4. /\ new \in ItemRow
      /\ new.status = "draft" /\ new.live = c /\ new.version = 1 /\ new.job = item[x].job
  BY <1>2 DEF ItemRow, Statuses
<1>5. log \in Seq(Revision) /\ Len(log) = 1 /\ log[1].content = c
  BY DEF NewRevision, Revision
<1> HIDE DEF new, log
<1>6. item'[x] = new /\ revs'[x] = log /\ \A y \in Items \ {x} : item'[y] = item[y] /\ revs'[y] = revs[y]
  BY <1>2, <1>3 DEF TypeInv
<1>7. RowInv(x)'
  BY <1>4, <1>5, <1>6 DEF RowInv, Exists
<1>8. TypeInv' /\ DataInv'
  BY <1>3, <1>4, <1>5, <1>7, OneRow
<1>9. Frame(a)
  <2>1. \A y \in Items : Exists(y) => y # x /\ Len(revs[y]) \in Nat
    BY <1>1, <1>2, LenProperties DEF TypeInv
  <2>2. \A y \in Items : item[y].status = "published" => Exists(y)
    BY DEF Exists
  <2>3. \A y \in Items : Exists(y) => item'[y] = item[y] /\ revs'[y] = revs[y]
    BY <1>6, <2>1
  <2>4. \A y \in Items : ~Exists(y) /\ Exists(y)' => y = tx[a].on
    BY <1>1, <1>6 DEF Exists
  <2>. QED
    BY <1>3, <2>1, <2>2, <2>3, <2>4 DEF Frame, Exists
<1>. QED
  BY <1>8, <1>9 DEF Kept

\* The row of an item that is held changes and the item goes on existing.
LEMMA HeldRowFrame ==
  ASSUME IInv, NEW a \in Authors, tx[a].pc = "decided", tx[a].op \in ItemOps \ {"create"},
         NEW x \in Items, x = tx[a].on,
         media' = media, Exists(x)', Len(revs[x]) <= Len(revs'[x]),
         \A r \in 1..Len(revs[x]) : revs'[x][r].content = revs[x][r].content,
         \A y \in Items \ {x} : item'[y] = item[y] /\ revs'[y] = revs[y]
  PROVE  Frame(a)
<1>1. \A y \in Items : Len(revs[y]) \in Nat
  BY LenProperties DEF IInv, TypeInv
<1>2. /\ Exists(x) /\ UpdateOf(x) \in tx[a].held
      /\ \A p \in ToSet(ParentsOf[x]) : UpdateOf(p) \in tx[a].held
  BY ItemHeld
<1>3. \A y \in Items \ {x} : Exists(y)' <=> Exists(y)
  BY DEF Exists
<1>. QED
  BY <1>1, <1>2, <1>3 DEF Frame

LEMMA ReviseKept ==
  ASSUME IInv, NEW a \in Authors, tx[a].pc = "decided", tx[a].op = "revise",
         Revised(tx[a].on, tx[a].arg), UNCHANGED <<active, ops>>, tx' \in [Authors -> TxRecord]
  PROVE  Kept(a)
<1>1. PICK x \in Items, c \in Contents : x = tx[a].on /\ c = tx[a].arg /\ Exists(x)
  BY HeldIs DEF OpInv, MediaOps
<1>2. /\ TypeInv /\ DataInv /\ revs[x] \in Seq(Revision) /\ RowInv(x)
      /\ item[x] \in ItemRow /\ item \in [Items -> ItemRow]
  BY DEF IInv, TypeInv, DataInv, ItemRow
<1> DEFINE log == Append(revs[x], NewRevision(c))
           new == IF item[x].status = "draft"
                  THEN [item[x] EXCEPT !.live = c, !.version = Len(log)] ELSE item[x]
<1>3. NewRevision(c) \in Revision /\ NewRevision(c).content = c
  BY DEF NewRevision, Revision
<1>4. /\ log \in Seq(Revision) /\ Len(revs[x]) \in Nat /\ Len(log) = Len(revs[x]) + 1
      /\ \A r \in 1..Len(revs[x]) : log[r] = revs[x][r]
      /\ log[Len(log)] = NewRevision(c)
  BY <1>2, <1>3, AppendProperties, LenProperties
<1>5. revs' = [revs EXCEPT ![x] = log] /\ UNCHANGED <<media, jobs>>
  BY <1>1 DEF Revised
<1> HIDE DEF log
<1>6. revs'[x] = log
  BY <1>2, <1>5 DEF TypeInv
<1>7. item' = [item EXCEPT ![x] = new]
  <2>1. item' = IF item[x].status = "draft"
                THEN [item EXCEPT ![x] = [@ EXCEPT !.live = c, !.version = Len(revs'[x])]] ELSE item
    BY <1>1 DEF Revised
  <2>2. item = [item EXCEPT ![x] = item[x]]
    BY <1>2
  <2>. QED
    BY <1>6, <2>1, <2>2
<1>8. /\ new \in ItemRow /\ new.status = item[x].status /\ new.job = item[x].job
      /\ new.status = "draft" => new.live = c /\ new.version = Len(log)
      /\ new.status # "draft" => new = item[x]
  <2>1. Len(log) \in Nat
    BY <1>4
  <2>. QED
    BY <1>2, <2>1 DEF ItemRow
<1> HIDE DEF new
<1>9. item'[x] = new /\ \A y \in Items \ {x} : item'[y] = item[y] /\ revs'[y] = revs[y]
  BY <1>2, <1>5, <1>7 DEF TypeInv
<1>10. RowInv(x)'
  <2>1. Exists(x)'
    BY <1>1, <1>8, <1>9 DEF Exists
  <2>2. CASE new.status = "draft"
    <3>1. Len(log) \in 1..Len(log) /\ log[Len(log)].content = c
      BY <1>3, <1>4
    <3>. QED
      BY <2>1, <2>2, <3>1, <1>6, <1>8, <1>9 DEF RowInv
  <2>3. CASE new.status # "draft"
    <3>1. /\ item[x].version \in 1..Len(revs[x])
          /\ revs[x][item[x].version].content = item[x].live
      BY <1>1, <1>2 DEF RowInv
    <3>2. item'[x] = item[x] /\ item[x].version \in 1..Len(log)
          /\ log[item[x].version].content = item[x].live
      BY <2>3, <3>1, <1>4, <1>8, <1>9
    <3>. QED
      BY <2>1, <2>3, <3>2, <1>6, <1>8, <1>9 DEF RowInv
  <2>. QED
    BY <2>2, <2>3
<1>11. TypeInv' /\ DataInv'
  BY <1>4, <1>5, <1>7, <1>8, <1>10, OneRow
<1>12. Frame(a)
  <2>1. Exists(x)' /\ Len(revs[x]) <= Len(revs'[x])
    BY <1>1, <1>4, <1>6, <1>8, <1>9 DEF Exists
  <2>2. \A r \in 1..Len(revs[x]) : revs'[x][r].content = revs[x][r].content
    BY <1>4, <1>6
  <2>3. tx[a].op \in ItemOps \ {"create"}
    BY DEF ItemOps
  <2>. QED
    BY <2>1, <2>2, <2>3, <1>1, <1>5, <1>9, HeldRowFrame
<1>. QED
  BY <1>11, <1>12 DEF Kept

LEMMA ReviewKept ==
  ASSUME IInv, NEW a \in Authors, tx[a].pc = "decided", tx[a].op = "review",
         Reviewed(tx[a].on, tx[a].arg.rev, tx[a].arg.decision), UNCHANGED <<active, ops>>,
         tx' \in [Authors -> TxRecord]
  PROVE  Kept(a)
<1>1. PICK x \in Items, r \in Nat, d \in {"approved", "changes_requested"} :
        /\ x = tx[a].on /\ r = tx[a].arg.rev /\ d = tx[a].arg.decision
        /\ Exists(x) /\ r \in 1..Len(revs[x])
  BY HeldIs DEF OpInv, MediaOps
<1>2. /\ TypeInv /\ DataInv /\ revs[x] \in Seq(Revision) /\ RowInv(x)
      /\ item[x] \in ItemRow /\ item \in [Items -> ItemRow]
  BY DEF IInv, TypeInv, DataInv, ItemRow
<1> DEFINE log == [revs[x] EXCEPT ![r].review = d]
<1>3. revs' = [revs EXCEPT ![x] = log] /\ UNCHANGED <<item, media, jobs>>
  BY <1>1 DEF Reviewed
<1>4. /\ log \in Seq(Revision) /\ Len(log) = Len(revs[x]) /\ Len(log) \in Nat
      /\ \A i \in 1..Len(log) : log[i].content = revs[x][i].content
  <2>1. /\ revs[x] \in [1..Len(revs[x]) -> Revision] /\ Len(revs[x]) \in Nat
    BY <1>2, LenProperties
  <2>2. [revs[x][r] EXCEPT !.review = d] \in Revision
        /\ [revs[x][r] EXCEPT !.review = d].content = revs[x][r].content
    BY <1>1, <2>1 DEF Revision
  <2>3. log = [revs[x] EXCEPT ![r] = [revs[x][r] EXCEPT !.review = d]]
    OBVIOUS
  <2>4. log \in [1..Len(revs[x]) -> Revision]
    BY <2>1, <2>2, <2>3
  <2>5. log \in Seq(Revision) /\ Len(log) = Len(revs[x])
    BY <2>1, <2>4
  <2>. QED
    BY <1>1, <2>1, <2>2, <2>3, <2>5
<1> HIDE DEF log
<1>5. revs'[x] = log /\ \A y \in Items \ {x} : revs'[y] = revs[y]
  BY <1>2, <1>3 DEF TypeInv
<1>6. RowInv(x)'
  <2>1. /\ item'[x] = item[x] /\ Exists(x)' /\ Len(revs'[x]) = Len(revs[x])
        /\ item[x].version \in 1..Len(revs[x])
        /\ revs[x][item[x].version].content = item[x].live
        /\ item[x].status = "draft" => item[x].version = Len(revs[x])
    BY <1>1, <1>2, <1>3, <1>4, <1>5 DEF RowInv, Exists
  <2>2. revs'[x][item[x].version].content = item[x].live
    BY <2>1, <1>4, <1>5
  <2>. QED
    BY <2>1, <2>2 DEF RowInv
<1>7. TypeInv' /\ DataInv'
  <2>1. item' = [item EXCEPT ![x] = item[x]]
    BY <1>2, <1>3
  <2>. QED
    BY <2>1, <1>2, <1>3, <1>4, <1>6, OneRow
<1>8. Frame(a)
  <2>1. Exists(x)' /\ Len(revs[x]) <= Len(revs'[x])
    BY <1>1, <1>3, <1>4, <1>5 DEF Exists
  <2>2. tx[a].op \in ItemOps \ {"create"}
    BY DEF ItemOps
  <2>. QED
    BY <2>1, <2>2, <1>1, <1>3, <1>4, <1>5, HeldRowFrame
<1>. QED
  BY <1>7, <1>8 DEF Kept

LEMMA PublishKept ==
  ASSUME IInv, NEW a \in Authors, tx[a].pc = "decided", tx[a].op = "publish",
         Published(tx[a].on, tx[a].arg.rev), UNCHANGED <<active, ops>>,
         tx' \in [Authors -> TxRecord]
  PROVE  Kept(a)
<1>1. PICK x \in Items, r \in Nat :
        x = tx[a].on /\ r = tx[a].arg.rev /\ Exists(x) /\ r \in 1..Len(revs[x])
  BY HeldIs DEF OpInv, MediaOps
<1>2. /\ TypeInv /\ DataInv /\ revs[x] \in Seq(Revision) /\ revs \in [Items -> Seq(Revision)]
      /\ item[x] \in ItemRow /\ item \in [Items -> ItemRow]
  BY DEF IInv, TypeInv, DataInv, ItemRow
<1> DEFINE c == revs[x][r].content
           new == [item[x] EXCEPT !.status = "published", !.live = c, !.version = r]
<1>3. item' = [item EXCEPT ![x] = new] /\ UNCHANGED <<revs, media, jobs>>
  BY <1>1 DEF Published
<1>4. c \in Contents /\ Len(revs[x]) \in Nat
  <2>1. revs[x][r] \in Revision
    BY <1>1, <1>2, ElementOfSeq
  <2>. QED
    BY <2>1, <1>2, LenProperties DEF Revision
<1> HIDE DEF c
<1>5. /\ new \in ItemRow /\ new.status = "published" /\ new.live = c /\ new.version = r
      /\ new.job = item[x].job
  BY <1>2, <1>4 DEF ItemRow, Statuses
<1> HIDE DEF new
<1>6. item'[x] = new /\ \A y \in Items \ {x} : item'[y] = item[y]
  BY <1>2, <1>3
<1>7. RowInv(x)'
  BY <1>1, <1>3, <1>5, <1>6 DEF RowInv, Exists, c
<1>8. TypeInv' /\ DataInv'
  <2>1. revs' = [revs EXCEPT ![x] = revs[x]]
    BY <1>2, <1>3
  <2>. QED
    BY <2>1, <1>2, <1>3, <1>5, <1>7, OneRow
<1>9. Frame(a)
  <2>1. Exists(x)' /\ tx[a].op \in ItemOps \ {"create"}
    BY <1>5, <1>6 DEF Exists, ItemOps
  <2>. QED
    BY <2>1, <1>1, <1>3, <1>4, <1>6, HeldRowFrame
<1>. QED
  BY <1>8, <1>9 DEF Kept

LEMMA ArchiveKept ==
  ASSUME IInv, NEW a \in Authors, tx[a].pc = "decided", tx[a].op = "archive",
         ArchivedItem(tx[a].on), UNCHANGED <<active, ops>>, tx' \in [Authors -> TxRecord]
  PROVE  Kept(a)
<1>1. PICK x \in Items : x = tx[a].on /\ Exists(x)
  BY HeldIs DEF OpInv, MediaOps
<1>2. /\ TypeInv /\ DataInv /\ revs[x] \in Seq(Revision) /\ revs \in [Items -> Seq(Revision)]
      /\ item[x] \in ItemRow /\ item \in [Items -> ItemRow]
  BY DEF IInv, TypeInv, DataInv, ItemRow
<1> DEFINE new == [item[x] EXCEPT !.status = "archived"]
<1>3. item' = [item EXCEPT ![x] = new] /\ UNCHANGED <<revs, media, jobs>>
  BY <1>1 DEF ArchivedItem
<1>4. /\ new \in ItemRow /\ new.status = "archived" /\ new.live = item[x].live
      /\ new.version = item[x].version /\ new.job = item[x].job
  BY <1>2 DEF ItemRow, Statuses
<1> HIDE DEF new
<1>5. item'[x] = new /\ \A y \in Items \ {x} : item'[y] = item[y]
  BY <1>2, <1>3
<1>6. RowInv(x)'
  BY <1>1, <1>2, <1>3, <1>4, <1>5 DEF DataInv, RowInv, Exists
<1>7. TypeInv' /\ DataInv'
  <2>1. revs' = [revs EXCEPT ![x] = revs[x]]
    BY <1>2, <1>3
  <2>. QED
    BY <2>1, <1>2, <1>3, <1>4, <1>6, OneRow
<1>8. Frame(a)
  <2>1. Exists(x)' /\ tx[a].op \in ItemOps \ {"create"} /\ Len(revs[x]) \in Nat
    BY <1>2, <1>4, <1>5, LenProperties DEF Exists, ItemOps
  <2>. QED
    BY <2>1, <1>1, <1>3, <1>5, HeldRowFrame
<1>. QED
  BY <1>7, <1>8 DEF Kept

LEMMA MediaKept ==
  ASSUME IInv, NEW a \in Authors, tx[a].pc = "decided", tx[a].op \in MediaOps,
         MediaChanged(tx[a].op, tx[a].on), UNCHANGED <<active, ops>>,
         tx' \in [Authors -> TxRecord]
  PROVE  Kept(a)
<1>1. PICK m \in Media : m = tx[a].on
  BY HeldIs DEF OpInv, MediaOps
<1>2. TypeInv /\ DataInv
  BY DEF IInv
<1>3. /\ \E s \in {"quarantined", "archived"} : media' = [media EXCEPT ![m] = s]
      /\ UNCHANGED <<item, revs, jobs>>
  BY <1>1 DEF MediaChanged
<1>4. /\ media' \in [Media -> {"ready", "quarantined", "archived"}]
      /\ \A n \in Media \ {m} : media'[n] = media[n]
  BY <1>2, <1>3 DEF TypeInv
<1>5. TypeInv'
  BY <1>2, <1>3, <1>4 DEF TypeInv, TxRecord
<1>6. DataInv'
  BY <1>2, <1>3 DEF DataInv, RowInv, ImportsAreExact, Exists
<1>7. UpdateOf(m) \in tx[a].held
  <2>1. UpdateOf(m) \in Lock
    BY DEF UpdateOf, Lock, Rows, Modes
  <2>. QED
    BY <2>1, <1>1, HeldIs DEF Wants
<1>8. \A x \in Items : Len(revs[x]) \in Nat
  BY <1>2, LenProperties DEF TypeInv
<1>9. Frame(a)
  BY <1>3, <1>4, <1>7, <1>8 DEF Frame, Exists
<1>. QED
  BY <1>5, <1>6, <1>9 DEF Kept

\* All rows of a file are new, so they belong to no other job.
LEMMA ImportKept ==
  ASSUME IInv, NEW a \in Authors, tx[a].pc = "decided", tx[a].op = "import",
         tx[a].verdict = "apply", ~KeyTaken(a),
         Imported(a, tx[a].arg.key, tx[a].arg.file), UNCHANGED <<active, ops>>,
         tx' \in [Authors -> TxRecord]
  PROVE  Kept(a)
<1>1. PICK k \in Keys, p \in Payloads : k = tx[a].arg.key /\ p = tx[a].arg.file
  BY HeldIs DEF OpInv, MediaOps, ItemOps
<1>2. jobs[k] = NoJob /\ \A x \in RowsOf[p] : ~Exists(x)
  BY <1>1, HeldIs DEF KeyTaken, DecidedInv
<1>3. /\ TypeInv /\ DataInv /\ revs \in [Items -> Seq(Revision)] /\ item \in [Items -> ItemRow]
      /\ RowsOf[p] \subseteq Items
  BY ShapeAssumption DEF IInv, TypeInv, ItemRow, Items
<1> DEFINE job == [by |-> {a}, payload |-> {p}]
           new == [status |-> "draft", live |-> SeedContent, version |-> 1, job |-> k]
           log == <<NewRevision(SeedContent)>>
<1>4. /\ jobs' = [jobs EXCEPT ![k] = job] /\ media' = media
      /\ item' = [x \in Items |-> IF x \in RowsOf[p] THEN new ELSE item[x]]
      /\ revs' = [x \in Items |-> IF x \in RowsOf[p] THEN log ELSE revs[x]]
  BY <1>1 DEF Imported
<1>5. /\ new \in ItemRow /\ new.status = "draft" /\ new.live = SeedContent
      /\ new.version = 1 /\ new.job = k
  BY ShapeAssumption DEF ItemRow, Statuses
<1>6. log \in Seq(Revision) /\ Len(log) = 1 /\ log[1].content = SeedContent
  BY ShapeAssumption DEF NewRevision, Revision
<1>7. job \in [by : SUBSET Authors, payload : SUBSET Payloads] /\ job # NoJob /\ job.payload = {p}
  <2>1. job.payload = {p} /\ NoJob.payload = {}
    BY DEF NoJob
  <2>. QED
    BY <2>1
<1> HIDE DEF job, new, log
<1>8. /\ \A x \in RowsOf[p] : item'[x] = new /\ revs'[x] = log
      /\ \A x \in Items \ RowsOf[p] : item'[x] = item[x] /\ revs'[x] = revs[x]
  BY <1>3, <1>4
<1>9. /\ jobs'[k] = job /\ \A l \in Keys \ {k} : jobs'[l] = jobs[l]
      /\ jobs' \in [Keys -> [by : SUBSET Authors, payload : SUBSET Payloads]]
  BY <1>3, <1>4, <1>7 DEF TypeInv
<1>10. TypeInv'
  <2>1. item' \in [Items -> ItemRow] /\ revs' \in [Items -> Seq(Revision)]
    BY <1>3, <1>4, <1>5, <1>6
  <2>. QED
    BY <2>1, <1>3, <1>4, <1>9 DEF TypeInv, TxRecord, ItemRow
<1>11. \A x \in Items : RowInv(x)'
  <2>1. ASSUME NEW x \in RowsOf[p] PROVE RowInv(x)'
    <3>1. /\ item'[x].status = "draft" /\ item'[x].version = 1 /\ item'[x].live = SeedContent
          /\ Len(revs'[x]) = 1 /\ revs'[x][1].content = SeedContent /\ 1 \in 1..1
      BY <1>5, <1>6, <1>8
    <3>. QED
      BY <3>1 DEF RowInv, Exists
  <2>2. ASSUME NEW x \in Items \ RowsOf[p] PROVE RowInv(x)'
    BY <1>3, <1>8 DEF DataInv, RowInv, Exists
  <2>. QED
    BY <2>1, <2>2
<1>12. ImportsAreExact'
  <2>1. SUFFICES ASSUME NEW l \in Keys
                 PROVE  {x \in Items : item'[x].job = l} =
                          IF jobs'[l] = NoJob THEN {} ELSE UNION {RowsOf[q] : q \in jobs'[l].payload}
    BY DEF ImportsAreExact
  <2>2. \A x \in RowsOf[p] : item[x].job # l
    BY <1>2, <1>3, TableAssumption DEF DataInv, RowInv
  <2>3. {x \in Items : item[x].job = l} =
          IF jobs[l] = NoJob THEN {} ELSE UNION {RowsOf[q] : q \in jobs[l].payload}
    BY <1>3 DEF DataInv, ImportsAreExact
  <2>4. CASE l = k
    <3>1. {x \in Items : item'[x].job = l} = RowsOf[p]
      BY <2>3, <2>4, <1>2, <1>3, <1>5, <1>8
    <3>2. UNION {RowsOf[q] : q \in jobs'[l].payload} = RowsOf[p]
      BY <2>4, <1>7, <1>9
    <3>. QED
      BY <3>1, <3>2, <2>4, <1>7, <1>9
  <2>5. CASE l # k
    <3>1. {x \in Items : item'[x].job = l} = {x \in Items : item[x].job = l}
      BY <2>2, <2>5, <1>5, <1>8
    <3>. QED
      BY <3>1, <2>3, <2>5, <1>9
  <2>. QED
    BY <2>4, <2>5
<1>13. Frame(a)
  <2>1. \A x \in Items : Exists(x) \/ item[x].status = "published" => x \notin RowsOf[p]
    BY <1>2 DEF Exists
  <2>2. \A x \in Items : Len(revs[x]) \in Nat
    BY <1>3, LenProperties
  <2>3. \A x \in Items : ~Exists(x) /\ Exists(x)' => x \in RowsOf[p]
    BY <1>8 DEF Exists
  <2>. QED
    BY <2>1, <2>2, <2>3, <1>1, <1>4, <1>8 DEF Frame, Exists
<1>. QED
  BY <1>10, <1>11, <1>12, <1>13 DEF DataInv, Kept

LEMMA WritesKept ==
  ASSUME IInv, NEW a \in Authors, tx[a].pc = "decided", tx[a].verdict = "apply", ~KeyTaken(a),
         Writes(a), UNCHANGED <<active, ops>>, tx' \in [Authors -> TxRecord]
  PROVE  Kept(a)
BY CreateKept, ReviseKept, ReviewKept, PublishKept, ArchiveKept, MediaKept, ImportKept DEF Writes

-----------------------------------------------------------------------------
(***************************************************************************)
(* The others when a transaction has written.                              *)
(***************************************************************************)

LEMMA LocksExclude ==
  ASSUME IInv, NEW a \in Authors, NEW b \in Authors, a # b, NEW r, UpdateOf(r) \in tx[a].held
  PROVE  UpdateOf(r) \notin tx[b].held /\ ShareOf(r) \notin tx[b].held
<1>1. /\ UpdateOf(r).row = r /\ UpdateOf(r).mode = "update"
      /\ ShareOf(r).row = r /\ ShareOf(r).mode = "share"
  BY DEF UpdateOf, ShareOf
<1>2. \A h \in tx[a].held, g \in tx[b].held : h.row = g.row => h.mode = "share" /\ g.mode = "share"
  BY DEF IInv, LockInv
<1>. QED
  BY <1>1, <1>2

\* The target of another transaction is as it was.
LEMMA OthersTarget ==
  ASSUME IInv, NEW a \in Authors, Busy(a), OpInv(a), Frame(a), TypeInv', ~Busy(a)',
         NEW b \in Authors \ {a}, Busy(b), OpInv(b), \A c \in Authors \ {a} : tx'[c] = tx[c]
  PROVE  OpInv(b)'
<1>1. \A x \in Items : Len(revs[x]) \in Nat /\ Len(revs'[x]) \in Nat
  BY LenProperties DEF IInv, TypeInv
<1>2. tx'[b] = tx[b]
  OBVIOUS
<1>3. CASE tx[b].op = "create"
  <2>1. PICK x \in Items \ ImportRows : x = tx[b].on /\ ~Exists(x) /\ tx[b].arg \in Contents
        /\ \A c \in Authors \ {b} : Busy(c) /\ tx[c].op \in ItemOps => tx[c].on # x
    BY <1>3 DEF OpInv, MediaOps
  <2>2. tx[a].op = "create" => tx[a].on # x
    BY <2>1 DEF ItemOps
  <2>3. tx[a].op = "import" => x \notin RowsOf[tx[a].arg.file]
    <3>1. tx[a].op = "import" => tx[a].arg.file \in Payloads
      BY DEF OpInv, MediaOps
    <3>. QED
      BY <3>1, <2>1 DEF ImportRows
  <2>4. ~Exists(x)'
    BY <2>1, <2>2, <2>3 DEF Frame
  <2>5. \A c \in Authors \ {b} : Busy(c)' /\ tx'[c].op \in ItemOps => tx'[c].on # x
    BY <2>1 DEF Busy
  <2>. QED
    BY <1>2, <1>3, <2>1, <2>4, <2>5 DEF OpInv, Exists
<1>4. CASE tx[b].op \in ItemOps \ {"create"}
  <2>1. PICK x \in Items : x = tx[b].on /\ Exists(x)
    BY <1>4 DEF OpInv, ItemOps, MediaOps
  <2>2. Exists(x)' /\ Len(revs[x]) <= Len(revs'[x])
    BY <2>1 DEF Frame
  <2>3. \A r \in 1..Len(revs[x]) : r \in 1..Len(revs'[x])
    BY <1>1, <2>2
  <2>4. \/ tx[b].op = "revise" /\ tx[b].arg \in Contents
        \/ /\ tx[b].op = "review" /\ tx[b].arg.rev \in 1..Len(revs[x])
           /\ tx[b].arg \in [rev : Nat, decision : {"approved", "changes_requested"}]
        \/ tx[b].op = "publish" /\ tx[b].arg \in [rev : Nat] /\ tx[b].arg.rev \in 1..Len(revs[x])
        \/ tx[b].op = "archive"
    BY <1>4, <2>1 DEF OpInv, ItemOps, MediaOps
  <2>. QED
    BY <1>2, <2>1, <2>2, <2>3, <2>4 DEF OpInv, Exists
<1>5. CASE tx[b].op \in MediaOps \cup {"import", "replay"}
  BY <1>2, <1>5 DEF OpInv, MediaOps
<1>. QED
  BY <1>3, <1>4, <1>5 DEF OpInv, ItemOps, MediaOps

\* It relies on the same locks, because revisions keep their content.
LEMMA OthersWants ==
  ASSUME IInv, NEW a \in Authors, Frame(a), NEW b \in Authors, tx'[b] = tx[b], OpInv(b),
         NEW lock \in Lock, Wants(b, lock)'
  PROVE  Wants(b, lock)
<1>1. CASE tx[b].op = "publish" /\ tx[b].on \in Exercises
  <2>1. PICK x \in Items, r \in Nat :
          x = tx[b].on /\ r = tx[b].arg.rev /\ Exists(x) /\ r \in 1..Len(revs[x])
    BY <1>1 DEF OpInv, MediaOps
  <2>2. revs'[x][r].content = revs[x][r].content
    BY <2>1 DEF Frame
  <2>. QED
    BY <2>1, <2>2 DEF Wants
<1>2. CASE ~(tx[b].op = "publish" /\ tx[b].on \in Exercises)
  BY <1>2 DEF Wants
<1>. QED
  BY <1>1, <1>2

\* What it was told it may publish, it still may.
LEMMA OthersPublish ==
  ASSUME IInv, NEW a \in Authors, Frame(a), NEW b \in Authors \ {a}, tx[b].pc = "decided",
         tx[b].op = "publish", PublishHolds(tx[b].on, tx[b].arg.rev),
         NEW x \in Items, NEW r \in Nat, x = tx[b].on, r = tx[b].arg.rev
  PROVE  PublishHolds(x, r)'
<1>1. /\ OpInv(b) /\ \A lock \in Lock : Wants(b, lock) => lock \in tx[b].held
      /\ tx[b].op \in ItemOps \ {"create"}
  BY HeldIs DEF ItemOps
<1>2. /\ Exists(x) /\ UpdateOf(x) \in tx[b].held
      /\ \A p \in ToSet(ParentsOf[x]) : UpdateOf(p) \in tx[b].held
  BY <1>1, ItemHeld
<1>3. PublishHolds(x, r)
  OBVIOUS
<1>4. item'[x] = item[x] /\ revs'[x] = revs[x]
  BY <1>2, LocksExclude DEF Frame
<1>5. ASSUME NEW p \in ToSet(ParentsOf[x]) PROVE item'[p] = item[p]
  <2>1. p \in Items
    BY ParentsAre DEF Items
  <2>2. Exists(p)
    BY <1>3 DEF PublishHolds, ParentsLive, Mutable
  <2>. QED
    BY <2>1, <2>2, <1>2, LocksExclude DEF Frame
<1>6. Mutable(x)' /\ r = Len(revs'[x]) /\ Latest(x)' = Latest(x)
  BY <1>3, <1>4 DEF PublishHolds, Mutable, Exists, Archived, Latest
<1>7. ParentsLive(x)'
  BY <1>3, <1>5 DEF PublishHolds, ParentsLive, Mutable, Exists, Archived
<1>8. x \in Lessons => LessonReady(x)'
  <2>1. SUFFICES ASSUME x \in Lessons, NEW t \in Topics, ParentsOf[t] = <<x>>,
                        item[t].status = "published"
                 PROVE  item'[t].status = "published"
    BY <1>3 DEF PublishHolds, LessonReady
  <2>2. x \in ToSet(ParentsOf[t]) /\ t \in Items
    <3>1. <<x>>[1] = x /\ 1 \in DOMAIN <<x>>
      OBVIOUS
    <3>. QED
      BY <3>1, <2>1 DEF ToSet, Items
  <2>3. UpdateOf(x) \notin tx[a].held
    BY <1>2, LocksExclude
  <2>. QED
    BY <2>1, <2>2, <2>3 DEF Frame
<1>9. MediaReady(x, Latest(x).content)'
  <2>1. SUFFICES ASSUME x \in Exercises, MediaOf[Latest(x).content] # NoMedia
                 PROVE  media'[MediaOf[Latest(x).content]] = "ready"
    BY <1>6 DEF MediaReady
  <2>2. Latest(x) = revs[x][r] /\ r \in 1..Len(revs[x]) /\ revs[x] \in Seq(Revision)
    <3>1. r = Len(revs[x]) /\ Latest(x) = revs[x][Len(revs[x])] /\ revs[x] \in Seq(Revision)
      BY <1>3 DEF PublishHolds, Latest, Last, IInv, TypeInv
    <3>2. r \in 1..Len(revs[x])
      BY <1>1 DEF OpInv, MediaOps
    <3>. QED
      BY <3>1, <3>2
  <2>3. Latest(x).content \in Contents
    <3>1. Latest(x) \in Revision
      BY <2>2, ElementOfSeq
    <3>. QED
      BY <3>1 DEF Revision
  <2> DEFINE m == MediaOf[Latest(x).content]
  <2>4. m \in Media /\ media[m] = "ready"
    BY <1>3, <2>1, <2>3, ShapeAssumption DEF PublishHolds, MediaReady
  <2>5. ShareOf(m) \in Lock
    BY <2>4 DEF ShareOf, Lock, Rows, Modes
  <2>6. ShareOf(m) \in tx[b].held
    BY <1>1, <2>1, <2>2, <2>5 DEF Wants
  <2>7. UpdateOf(m) \notin tx[a].held
    BY <2>6, LocksExclude
  <2>. QED
    BY <2>4, <2>7 DEF Frame
<1>. QED
  BY <1>6, <1>7, <1>8, <1>9 DEF PublishHolds

\* An import it was told is new, is new: only an import of the same source, or
\* the creation of another item, could have made its rows.
LEMMA OthersImport ==
  ASSUME IInv, NEW a \in Authors, tx[a].pc = "decided", Frame(a), NEW b \in Authors \ {a},
         tx[b].pc = "decided", tx[b].op = "import",
         \A x \in RowsOf[tx[b].arg.file] : ~Exists(x),
         NEW x \in RowsOf[tx[b].arg.file]
  PROVE  ~Exists(x)'
<1>1. PICK q \in Payloads : q = tx[b].arg.file /\ tx[b].on = SourceOf[q]
  BY HeldIs DEF OpInv, MediaOps, ItemOps
<1>2. x \in Items /\ x \in ImportRows /\ x \in RowsOf[q]
  BY <1>1, ShapeAssumption DEF ImportRows, Items
<1>3. UpdateOf(SourceOf[q]) \in Lock
  BY <1>1 DEF UpdateOf, Lock, Rows, Modes, Sources
<1>4. UpdateOf(SourceOf[q]) \in tx[b].held
  BY <1>1, <1>3, HeldIs DEF Wants
<1>5. ASSUME Exists(x)' PROVE FALSE
  <2>1. \/ tx[a].op = "create" /\ x = tx[a].on
        \/ tx[a].op = "import" /\ x \in RowsOf[tx[a].arg.file]
    BY <1>2, <1>5 DEF Frame
  <2>2. CASE tx[a].op = "create" /\ x = tx[a].on
    BY <2>2, <1>2, HeldIs DEF OpInv, MediaOps
  <2>3. CASE tx[a].op = "import" /\ x \in RowsOf[tx[a].arg.file]
    <3>1. PICK p \in Payloads : p = tx[a].arg.file /\ tx[a].on = SourceOf[p]
      BY <2>3, HeldIs DEF OpInv, MediaOps, ItemOps
    <3>2. SourceOf[p] = SourceOf[q]
      BY <3>1, <2>3, <1>2, TableAssumption
    <3>3. UpdateOf(SourceOf[q]) \in tx[a].held
      BY <3>1, <3>2, <2>3, <1>3, HeldIs DEF Wants
    <3>. QED
      BY <3>3, <1>4, LocksExclude
  <2>. QED
    BY <2>1, <2>2, <2>3
<1>. QED
  BY <1>5

LEMMA FinishKeeps ==
  ASSUME IInv, NEW a \in Authors, Finish(a)
  PROVE  IInv'
<1>1. CASE ~(tx[a].verdict = "apply" /\ ~KeyTaken(a))
  BY <1>1, EndKeeps DEF Finish
<1>2. CASE tx[a].verdict = "apply" /\ ~KeyTaken(a)
  <2>1. /\ tx[a].pc = "decided" /\ Writes(a) /\ tx' = [tx EXCEPT ![a] = Idle]
        /\ UNCHANGED <<active, ops>> /\ tx \in [Authors -> TxRecord]
    BY <1>2 DEF Finish, IInv, TypeInv, TxRecord
  <2>2. tx'[a] = Idle /\ tx' \in [Authors -> TxRecord] /\ \A b \in Authors \ {a} : tx'[b] = tx[b]
    BY <2>1, IdleIs
  <2>3. TypeInv' /\ DataInv' /\ Frame(a)
    BY <1>2, <2>1, <2>2, WritesKept DEF Kept
  <2>4. LockInv'
    <3>1. \A b \in Authors : tx'[b].held \subseteq tx[b].held
      BY <2>2, IdleIs
    <3>. QED
      BY <3>1 DEF IInv, LockInv
  <2>5. TxInv(a)' /\ ~Busy(a)' /\ Busy(a) /\ OpInv(a)
    BY <2>1, <2>2, IdleIs, HeldIs DEF TxInv, Busy, Idle
  <2>6. ASSUME NEW b \in Authors \ {a} PROVE TxInv(b)'
    <3>1. tx'[b] = tx[b] /\ TxInv(b)
      BY <2>2 DEF IInv
    <3>2. CASE ~Busy(b)
      BY <3>1, <3>2 DEF TxInv, Busy, Idle
    <3>3. CASE Busy(b)
      <4>1. OpInv(b) /\ CoverInv(b) /\ ActorInv(b) /\ OrderInv(b) /\ DecidedInv(b)
        BY <3>1, <3>3 DEF TxInv
      <4>2. OpInv(b)'
        BY <4>1, <3>3, <2>2, <2>3, <2>5, OthersTarget
      <4>3. CoverInv(b)'
        <5>1. \A lock \in Lock : Wants(b, lock)' => Wants(b, lock)
          BY <4>1, <3>1, <2>3, OthersWants
        <5>. QED
          BY <5>1, <4>1, <3>1 DEF CoverInv
      <4>4. ActorInv(b)' /\ OrderInv(b)'
        BY <4>1, <3>1, <2>1 DEF ActorInv, OrderInv
      <4>5. DecidedInv(b)'
        <5>1. SUFFICES ASSUME tx[b].pc = "decided", tx[b].verdict = "apply"
                       PROVE  /\ tx[b].op = "publish" => PublishHolds(tx[b].on, tx[b].arg.rev)'
                              /\ tx[b].op = "import" => \A x \in RowsOf[tx[b].arg.file] : ~Exists(x)'
          BY <4>1, <3>1 DEF DecidedInv
        <5>2. ASSUME tx[b].op = "publish" PROVE PublishHolds(tx[b].on, tx[b].arg.rev)'
          <6>1. PICK x \in Items, r \in Nat : x = tx[b].on /\ r = tx[b].arg.rev
            BY <4>1, <5>2 DEF OpInv, MediaOps
          <6>2. PublishHolds(x, r)'
            BY <6>1, <5>1, <5>2, <4>1, <2>3, OthersPublish DEF DecidedInv
          <6>. QED
            BY <6>1, <6>2, <3>1
        <5>3. ASSUME tx[b].op = "import" PROVE \A x \in RowsOf[tx[b].arg.file] : ~Exists(x)'
          BY <5>1, <5>3, <4>1, <2>1, <2>3, OthersImport DEF DecidedInv
        <5>. QED
          BY <5>2, <5>3, <3>1
      <4>. QED
        BY <4>2, <4>3, <4>4, <4>5, <3>1, <3>3 DEF TxInv, Busy
    <3>. QED
      BY <3>2, <3>3
  <2>. QED
    BY <2>3, <2>4, <2>5, <2>6 DEF IInv
<1>. QED
  BY <1>1, <1>2

-----------------------------------------------------------------------------
(***************************************************************************)
(* The invariant.                                                          *)
(***************************************************************************)

LEMMA InitHolds == Init => IInv
<1> SUFFICES ASSUME Init PROVE IInv
  OBVIOUS
<1>1. NoJob \in [by : SUBSET Authors, payload : SUBSET Payloads]
  BY DEF NoJob
<1>2. \A x \in Items : Seed[x] \in {"none", "draft", "published"}
  BY ShapeAssumption
<1> DEFINE log == <<[content |-> SeedContent, review |-> "approved"]>>
<1>3. log \in Seq(Revision) /\ Len(log) = 1 /\ log[1].content = SeedContent
  BY ShapeAssumption DEF Revision
<1>4. <<>> \in Seq(Revision)
  BY EmptySeq
<1>5. revs = [x \in Items |-> IF Seed[x] = "none" THEN <<>> ELSE log]
  BY DEF Init
<1> HIDE DEF log
<1>6. TypeInv
  <2>1. item \in [Items -> ItemRow]
    BY <1>2, ShapeAssumption DEF Init, ItemRow, Statuses
  <2>2. tx \in [Authors -> TxRecord]
    BY IdleIs DEF Init
  <2>3. revs \in [Items -> Seq(Revision)]
    BY <1>3, <1>4, <1>5
  <2>4. /\ media \in [Media -> {"ready", "quarantined", "archived"}]
        /\ active \in [Authors -> BOOLEAN] /\ ops \in Nat
        /\ jobs \in [Keys -> [by : SUBSET Authors, payload : SUBSET Payloads]]
    BY <1>1 DEF Init
  <2>. QED
    BY <2>1, <2>2, <2>3, <2>4 DEF TypeInv, ItemRow, TxRecord
<1>7. ASSUME NEW x \in Items PROVE RowInv(x)
  <2>1. item[x] = [status |-> Seed[x], live |-> SeedContent, job |-> NoMedia,
                   version |-> IF Seed[x] = "none" THEN 0 ELSE 1]
    BY DEF Init
  <2>2. CASE Seed[x] = "none"
    BY <2>1, <2>2, <1>5 DEF RowInv, Exists
  <2>3. CASE Seed[x] # "none"
    <3>1. item[x].version = 1 /\ item[x].live = SeedContent /\ revs[x] = log /\ 1 \in 1..1
      BY <2>1, <2>3, <1>5
    <3>. QED
      BY <3>1, <1>3, <2>1, <2>3 DEF RowInv, Exists
  <2>. QED
    BY <2>2, <2>3
<1>8. ImportsAreExact
  <2>1. \A x \in Items : item[x].job = NoMedia
    BY DEF Init
  <2>2. \A k \in Keys : jobs[k] = NoJob
    BY DEF Init
  <2>. QED
    BY <2>1, <2>2, TableAssumption DEF ImportsAreExact
<1>9. \A a \in Authors : tx[a] = Idle
  BY DEF Init
<1>. QED
  BY <1>6, <1>7, <1>8, <1>9, IdleIs DEF IInv, DataInv, LockInv, TxInv, Busy

LEMMA StepKeeps ==
  ASSUME IInv, [Next]_vars
  PROVE  IInv'
<1>1. CASE UNCHANGED vars
  <2>1. /\ item' = item /\ revs' = revs /\ media' = media /\ active' = active /\ jobs' = jobs
        /\ tx' = tx /\ ops' = ops
    BY <1>1 DEF vars
  <2>2. TypeInv' /\ LockInv'
    BY <2>1 DEF IInv, TypeInv, LockInv
  <2>3. DataInv'
    BY <2>1, DataInvSame DEF IInv, data
  <2>4. ASSUME NEW a \in Authors PROVE TxInv(a)'
    <3>1. TxInv(a) /\ tx'[a] = tx[a]
      BY <2>1 DEF IInv
    <3>2. CASE Busy(a)
      <4>1. OpInv(a) => OpInv(a)'
        BY <2>1 DEF OpInv, Exists, Busy
      <4>. QED
        BY <4>1, <3>1, <3>2, <2>1, SameRows DEF TxInv, Busy, data
    <3>3. CASE ~Busy(a)
      BY <3>1, <3>3 DEF TxInv, Busy, Idle
    <3>. QED
      BY <3>2, <3>3
  <2>. QED
    BY <2>2, <2>3, <2>4 DEF IInv
<1>2. ASSUME NEW a \in Authors, Begin(a) PROVE IInv'
  BY <1>2, BeginCreateKeeps, BeginReviseKeeps, BeginReviewKeeps, BeginPublishKeeps,
     BeginArchiveKeeps, BeginMediaKeeps, BeginImportKeeps DEF Begin
<1>3. ASSUME NEW a \in Authors, Step(a) PROVE IInv'
  BY <1>3, AcquireKeeps, DecideKeeps, FinishKeeps DEF Step
<1>. QED
  BY <1>1, <1>2, <1>3, AbortKeeps, DeactivateKeeps DEF Next

\* The invariant, and with it the shape of every row and of every transaction:
\* the locks of a transaction, what it relies on and what it has decided
\* (cms-transaction-coordinator.ts, exercise-authoring.service.ts).
THEOREM Invariance == Spec => []IInv
<1>1. Init => IInv
  BY InitHolds
<1>2. IInv /\ [Next]_vars => IInv'
  BY StepKeeps
<1>. QED
  BY <1>1, <1>2, PTL DEF Spec

\* The version of an item names the revision learners see, whatever authors
\* revise, review and publish meanwhile (exercise-authoring.service.ts:279-293, 435-446).
THEOREM VersionsAlwaysName == Spec => []VersionNamesTheContent
<1>1. IInv => VersionNamesTheContent
  BY DEF IInv, DataInv, RowInv, VersionNamesTheContent
<1>. QED
  BY <1>1, Invariance, PTL

\* An import is all or nothing and happens once, although keys, files and
\* sources are shared by concurrent imports (exercise-import.service.ts:107-328).
THEOREM ImportsAlwaysExact == Spec => []ImportsAreExact
<1>1. IInv => ImportsAreExact
  BY DEF IInv, DataInv
<1>. QED
  BY <1>1, Invariance, PTL

-----------------------------------------------------------------------------
(***************************************************************************)
(* What goes live.                                                         *)
(***************************************************************************)

\* Only the commit of a transaction changes rows.
LEMMA OnlyFinish ==
  ASSUME [Next]_vars, data' # data
  PROVE  \E a \in Authors : Finish(a)
<1>1. PICK a \in Authors : Begin(a) \/ Step(a) \/ Abort(a) \/ Deactivate(a)
  BY DEF Next, vars, data
<1>2. \A op, x, arg, locks : ~Start(a, op, x, arg, locks)
  BY DEF Start
<1>3. ~Begin(a)
  BY <1>2 DEF Begin, BeginCreate, BeginRevise, BeginReview, BeginPublish, BeginArchive,
             BeginMedia, BeginImport
<1>4. ~Acquire(a) /\ ~Decide(a)
  BY DEF Acquire, Decide
<1>5. ~Abort(a) /\ ~Deactivate(a)
  BY DEF Abort, Deactivate
<1>. QED
  BY <1>1, <1>3, <1>4, <1>5 DEF Step

\* Only a publication makes an item go live, and it holds what it decided on.
LEMMA OnlyPublished ==
  ASSUME IInv, [Next]_vars, NEW x \in Items, GoesLive(x)
  PROVE  /\ PublishHolds(x, Len(revs[x])) /\ Latest(x) = revs[x][Len(revs[x])]
         /\ item'[x].live = revs[x][Len(revs[x])].content
<1>1. item' # item /\ TypeInv
  BY DEF GoesLive, IInv
<1>2. PICK a \in Authors : Finish(a)
  <2>1. data' # data
    BY <1>1 DEF data
  <2>. QED
    BY <2>1, OnlyFinish
<1>3. tx[a].pc = "decided" /\ tx[a].verdict = "apply" /\ Writes(a)
  BY <1>1, <1>2 DEF Finish, data
<1>4. OpInv(a) /\ DecidedInv(a)
  BY <1>3, HeldIs
<1>5. item \in [Items -> ItemRow]
  BY <1>1 DEF TypeInv, ItemRow
<1>6. CASE tx[a].op = "publish" /\ Published(tx[a].on, tx[a].arg.rev)
  <2>1. PICK y \in Items, r \in Nat : y = tx[a].on /\ r = tx[a].arg.rev
    BY <1>4, <1>6 DEF OpInv, MediaOps
  <2>2. PublishHolds(y, r) /\ r = Len(revs[y])
    BY <2>1, <1>3, <1>4, <1>6 DEF DecidedInv, PublishHolds
  <2>3. item' = [item EXCEPT ![y] =
          [@ EXCEPT !.status = "published", !.live = revs[y][r].content, !.version = r]]
    BY <2>1, <1>6 DEF Published
  <2>4. y = x
    BY <2>3, <1>5 DEF GoesLive
  <2>5. item'[x].live = revs[x][r].content
    BY <2>3, <2>4, <1>5 DEF ItemRow
  <2>. QED
    BY <2>2, <2>4, <2>5 DEF Latest, Last
<1>7. CASE tx[a].op = "create" /\ Created(tx[a].on, tx[a].arg)
  BY <1>5, <1>7 DEF Created, GoesLive, ItemRow
<1>8. CASE tx[a].op = "revise" /\ Revised(tx[a].on, tx[a].arg)
  <2>1. CASE item[tx[a].on].status = "draft"
    <3>1. \A y \in Items : item'[y].status = item[y].status \/ item'[y].status = "draft"
      <4>1. PICK row : item' = [item EXCEPT ![tx[a].on] = [@ EXCEPT !.live = tx[a].arg, !.version = row]]
        BY <1>8, <2>1 DEF Revised
      <4>. QED
        BY <4>1, <2>1, <1>5 DEF ItemRow
    <3>2. item'[x] = item[x] \/ item[x].status = "draft"
      <4>1. PICK row : item' = [item EXCEPT ![tx[a].on] = [@ EXCEPT !.live = tx[a].arg, !.version = row]]
        BY <1>8, <2>1 DEF Revised
      <4>. QED
        BY <4>1, <2>1, <1>5
    <3>. QED
      BY <3>1, <3>2 DEF GoesLive
  <2>2. CASE item[tx[a].on].status # "draft"
    BY <2>2, <1>1, <1>8 DEF Revised
  <2>. QED
    BY <2>1, <2>2
<1>9. CASE tx[a].op = "archive" /\ ArchivedItem(tx[a].on)
  BY <1>5, <1>9 DEF ArchivedItem, GoesLive, ItemRow
<1>10. CASE tx[a].op = "import" /\ Imported(a, tx[a].arg.key, tx[a].arg.file)
  <2>1. item'[x].status = "draft" \/ item'[x] = item[x]
    BY <1>10 DEF Imported
  <2>. QED
    BY <2>1 DEF GoesLive
<1>11. CASE tx[a].op = "review" \/ tx[a].op \in MediaOps
  BY <1>1, <1>3, <1>11 DEF Writes, MediaOps, Reviewed, MediaChanged
<1>. QED
  BY <1>3, <1>6, <1>7, <1>8, <1>9, <1>10, <1>11 DEF Writes

\* Only the latest revision goes live, and only under an approving review,
\* whoever revises or reviews at the same time (cms-workflow.ts:16-44).
THEOREM OnlyTheApprovedGoesLive == Spec => OnlyApprovedGoesLive
<1>1. ASSUME IInv, [Next]_vars, NEW x \in Items, GoesLive(x)
      PROVE  Latest(x).review = "approved" /\ item'[x].live = Latest(x).content
  BY <1>1, OnlyPublished DEF PublishHolds
<1>2. IInv /\ [Next]_vars =>
        [\A x \in Items : GoesLive(x) =>
           Latest(x).review = "approved" /\ item'[x].live = Latest(x).content]_vars
  BY <1>1
<1>. QED
  BY <1>2, Invariance, PTL DEF Spec, OnlyApprovedGoesLive

\* An item goes live under live parents, a lesson with something published in it
\* and a listening exercise with ready audio, although parents are archived and
\* media quarantined at the same time (exercise-publish-readiness.ts:22-52).
THEOREM WhatGoesLiveIsReady == Spec => GoesLiveReady
<1>1. ASSUME IInv, [Next]_vars, NEW x \in Items, GoesLive(x)
      PROVE  /\ ParentsLive(x)
             /\ x \in Lessons => LessonReady(x)
             /\ MediaReady(x, item'[x].live)
  <2>1. PublishHolds(x, Len(revs[x])) /\ item'[x].live = Latest(x).content
    BY <1>1, OnlyPublished
  <2>. QED
    BY <2>1 DEF PublishHolds
<1>2. IInv /\ [Next]_vars =>
        [\A x \in Items : GoesLive(x) =>
           /\ ParentsLive(x)
           /\ x \in Lessons => LessonReady(x)
           /\ MediaReady(x, item'[x].live)]_vars
  BY <1>1
<1>. QED
  BY <1>2, Invariance, PTL DEF Spec, GoesLiveReady

\* A lock of the acting account covers every change of exercises and media.
LEMMA ActorIsLocked ==
  ASSUME IInv, [Next]_vars, NEW a \in Authors, tx'[a] # tx[a],
         media' # media \/ \E x \in Exercises : item'[x] # item[x]
  PROVE  active[a]
<1>1. PICK b \in Authors : Finish(b)
  <2>1. data' # data
    BY DEF data
  <2>. QED
    BY <2>1, OnlyFinish
<1>2. a = b
  BY <1>1 DEF Finish, IInv, TypeInv
<1>3. tx[a].pc = "decided" /\ Writes(a)
  BY <1>1, <1>2 DEF Finish, data
<1>4. OpInv(a) /\ ActorInv(a) /\ \A lock \in Lock : Wants(a, lock) => lock \in tx[a].held
  BY <1>3, HeldIs DEF IInv, TxInv, Busy
<1>5. ShareOf(a) \in Lock
  BY DEF ShareOf, Lock, Rows, Modes
<1>6. Wants(a, ShareOf(a))
  <2>1. CASE tx[a].op \in MediaOps \cup {"import"}
    BY <2>1 DEF Wants
  <2>2. CASE tx[a].op \in ItemOps
    <3>1. \A x \in Items \ {tx[a].on} : item'[x] = item[x]
      BY <1>3, <2>2 DEF Writes, Created, Revised, Reviewed, Published, ArchivedItem, ItemOps,
                       MediaOps, IInv, TypeInv
    <3>2. media' = media
      BY <1>3, <2>2 DEF Writes, Created, Revised, Reviewed, Published, ArchivedItem, ItemOps, MediaOps
    <3>3. tx[a].on \in Exercises
      BY <3>1, <3>2 DEF Items
    <3>. QED
      BY <2>2, <3>3 DEF Wants
  <2>. QED
    BY <1>3, <2>1, <2>2 DEF Writes, ItemOps, MediaOps
<1>. QED
  BY <1>4, <1>5, <1>6 DEF ActorInv

\* Exercises and media change only by the hand of an account that is still an
\* active admin when the change commits (cms-actor-lock.ts:4-14).
THEOREM OnlyActiveAuthorsWrite == Spec => OnlyActiveAuthors
<1>1. IInv /\ [Next]_vars =>
        [\A a \in Authors :
           (tx'[a] # tx[a] /\ (media' # media \/ \E x \in Exercises : item'[x] # item[x]))
             => active[a]]_vars
  BY ActorIsLocked
<1>. QED
  BY <1>1, Invariance, PTL DEF Spec, OnlyActiveAuthors

-----------------------------------------------------------------------------
(***************************************************************************)
(* Waiting.                                                                *)
(***************************************************************************)

LEMMA NatMin ==
  ASSUME NEW T \in SUBSET Nat, T # {}
  PROVE  \E x \in T : \A y \in T : x <= y
<1> DEFINE Below == {0..x : x \in T}
<1>1. Below \subseteq FiniteSubsetsOf(Nat) /\ Below # {}
  <2>1. ASSUME NEW x \in T PROVE 0..x \in FiniteSubsetsOf(Nat)
    <3>1. IsFiniteSet(0..x)
      BY FS_Interval
    <3>. QED
      BY <3>1 DEF FiniteSubsetsOf
  <2>. QED
    BY <2>1
<1>2. IsWellFoundedOn(StrictSubsetOrdering(Nat), FiniteSubsetsOf(Nat))
  BY FS_StrictSubsetOrderingWellFounded
<1>3. PICK b \in Below : \A c \in Below : ~(<<c, b>> \in StrictSubsetOrdering(Nat))
  <2> HIDE DEF Below
  <2>. QED
    BY <1>1, <1>2, WFMin, Zenon
<1>4. PICK x \in T : b = 0..x
  OBVIOUS
<1>5. \A y \in T : x <= y
  <2>1. SUFFICES ASSUME NEW y \in T, y < x PROVE FALSE
    OBVIOUS
  <2>2. <<0..y, b>> \in StrictSubsetOrdering(Nat)
    BY <1>4, <2>1 DEF StrictSubsetOrdering
  <2>. QED
    BY <1>3, <2>2
<1>. QED
  BY <1>5

\* The row a transaction waits for.
NeededRow(a) == Head(tx[a].todo).row

\* Who is waited for needs, if anything, a lock of a greater rank.
LEMMA WaitingClimbs ==
  ASSUME IInv, NEW a \in Authors, NEW b \in Authors, WaitsFor(a, b),
         tx[b].pc = "locking", tx[b].todo # <<>>
  PROVE  Rank(NeededRow(a)) < Rank(NeededRow(b))
<1>1. PICK h \in tx[b].held : h.row = NeededRow(a)
  BY DEF WaitsFor, NeededRow
<1>2. OrderInv(b) /\ tx[b].todo \in Seq(Lock)
  BY DEF IInv, TxInv, Busy, TypeInv
<1>3. 1 \in 1..Len(tx[b].todo) /\ Head(tx[b].todo) = tx[b].todo[1]
  BY <1>2, LenProperties
<1>. QED
  BY <1>1, <1>2, <1>3 DEF OrderInv, NeededRow

LEMMA NextRank ==
  ASSUME IInv, NEW a \in Authors, tx[a].todo # <<>>
  PROVE  Rank(NeededRow(a)) \in Nat /\ Rank(NeededRow(a)) < 7 * (MaxId + 1)
<1>1. tx[a].todo \in Seq(Lock)
  BY DEF IInv, TypeInv
<1>2. Head(tx[a].todo) \in Lock
  BY <1>1, HeadTailProperties
<1>3. NeededRow(a) \in Rows
  BY <1>2 DEF Lock, NeededRow
<1> DEFINE r == NeededRow(a)
<1> HIDE DEF r
<1>4. /\ Table(r) \in 1..6 /\ Rank(r) \in Nat /\ MaxId \in Nat
      /\ Rank(r) < (Table(r) + 1) * (MaxId + 1)
  BY <1>3, RankBand, TableAssumption DEF r
<1>5. \A i \in 1..6 : (i + 1) * (MaxId + 1) <= 7 * (MaxId + 1) /\ (i + 1) * (MaxId + 1) \in Nat
  BY <1>4
<1>6. /\ (Table(r) + 1) * (MaxId + 1) <= 7 * (MaxId + 1)
      /\ (Table(r) + 1) * (MaxId + 1) \in Nat /\ 7 * (MaxId + 1) \in Nat
  BY <1>4, <1>5
<1>. QED
  BY <1>4, <1>6 DEF r

\* In a circle of waiting transactions each would need a lock of a greater rank
\* than the one before, and the greatest rank is bounded.
LEMMA NoCircle == IInv => NoDeadlock
<1>1. SUFFICES ASSUME IInv, NEW S \in SUBSET Authors, S # {},
                      \A a \in S : \E b \in S : WaitsFor(a, b)
               PROVE  FALSE
  BY DEF NoDeadlock
<1> DEFINE room(a) == 7 * (MaxId + 1) - Rank(NeededRow(a))
           T == {room(a) : a \in S}
<1>2. \A a \in S : tx[a].pc = "locking" /\ tx[a].todo # <<>>
  BY <1>1 DEF WaitsFor
<1>3. ASSUME NEW a \in S
      PROVE  Rank(NeededRow(a)) \in Nat /\ 7 * (MaxId + 1) \in Nat /\ room(a) \in Nat
  <2>1. Rank(NeededRow(a)) \in Nat /\ Rank(NeededRow(a)) < 7 * (MaxId + 1)
    BY <1>1, <1>2, NextRank
  <2>2. 7 * (MaxId + 1) \in Nat
    BY TableAssumption
  <2>. QED
    BY <2>1, <2>2
<1>4. PICK a \in S : \A b \in S : room(a) <= room(b)
  <2>1. T \in SUBSET Nat /\ T # {}
    BY <1>1, <1>3
  <2> HIDE DEF room
  <2>2. PICK n \in T : \A m \in T : n <= m
    BY <2>1, NatMin
  <2>. QED
    BY <2>2
<1>5. PICK b \in S : WaitsFor(a, b)
  BY <1>1
<1>6. Rank(NeededRow(a)) < Rank(NeededRow(b))
  BY <1>1, <1>2, <1>5, WaitingClimbs
<1>7. room(a) <= room(b)
  BY <1>4
<1>. QED
  BY <1>3, <1>6, <1>7

\* Transactions never wait for each other in a circle: none has to be aborted
\* to let another go on (cms-actor-lock.ts, cms-transaction-coordinator.ts,
\* exercise-import.service.ts:472-509).
THEOREM NeverDeadlocked == Spec => []NoDeadlock
  BY NoCircle, Invariance, PTL
=============================================================================

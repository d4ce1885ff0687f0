-------------------------- MODULE ChannelDbProofs --------------------------
(***************************************************************************)
(* Proofs about ChannelDb, for any number of scans, pulls, muxes and       *)
(* channels, any contents of the muxes and any table size.                 *)
(***************************************************************************)
EXTENDS ChannelDb, FiniteSetTheorems, TLAPS

\* dvb_channel_db_add keeps the table within its bound; no row moves, and every
\* row keeps its channel.
LEMMA AddKeeps ==
  ASSUME NEW t \in Seq(Rows), NEW r \in Rows, Len(t) <= MaxRows
  PROVE  /\ Add(t, r) \in Seq(Rows)
         /\ Len(Add(t, r)) <= MaxRows
         /\ Len(t) <= Len(Add(t, r))
         /\ \A i \in 1..Len(t) : Add(t, r)[i].key = t[i].key
<1> USE ChannelDbAssumption
<1>1. CASE Has(t, r.key)
  <2> DEFINE u == [i \in 1..Len(t) |-> IF t[i].key = r.key THEN r ELSE t[i]]
  <2>1. u \in Seq(Rows) /\ Len(u) = Len(t)
    OBVIOUS
  <2>2. \A i \in 1..Len(t) : u[i].key = t[i].key
    OBVIOUS
  <2> QED
    BY <1>1, <2>1, <2>2 DEF Add
<1>2. CASE ~Has(t, r.key) /\ Len(t) < MaxRows
  <2>1. Append(t, r) \in Seq(Rows) /\ Len(Append(t, r)) = Len(t) + 1
    OBVIOUS
  <2>2. \A i \in 1..Len(t) : Append(t, r)[i] = t[i]
    OBVIOUS
  <2> QED
    BY <1>2, <2>1, <2>2 DEF Add
<1>3. CASE ~Has(t, r.key) /\ ~(Len(t) < MaxRows)
  BY <1>3 DEF Add
<1> QED
  BY <1>1, <1>2, <1>3

\* It never makes two rows of one channel.
LEMMA AddUnique ==
  ASSUME NEW t \in Seq(Rows), NEW r \in Rows, Unique(t)
  PROVE  Unique(Add(t, r))
<1>1. CASE Has(t, r.key)
  <2> DEFINE u == [i \in 1..Len(t) |-> IF t[i].key = r.key THEN r ELSE t[i]]
  <2>1. Len(u) = Len(t)
    OBVIOUS
  <2>2. \A i \in 1..Len(t) : u[i].key = t[i].key
    OBVIOUS
  <2> QED
    BY <1>1, <2>1, <2>2 DEF Add, Unique
<1>2. CASE ~Has(t, r.key)
  <2>1. Len(Append(t, r)) = Len(t) + 1 /\ Append(t, r)[Len(t) + 1] = r
    OBVIOUS
  <2>2. \A i \in 1..Len(t) : Append(t, r)[i] = t[i] /\ t[i].key # r.key
    BY <1>2 DEF Has
  <2>3. Unique(Append(t, r))
    BY <2>1, <2>2 DEF Unique
  <2> QED
    BY <1>2, <2>3 DEF Add
<1> QED
  BY <1>1, <1>2

\* A line of a cache that holds a table is a new channel for what was loaded
\* before it, and there is room for it.
LEMMA AddLoads ==
  ASSUME NEW t \in Seq(Rows), IsTable(t), NEW n \in Nat, n < Len(t)
  PROVE  Add(SubSeq(t, 1, n), t[n + 1]) = SubSeq(t, 1, n + 1)
<1> USE ChannelDbAssumption
<1> DEFINE u == SubSeq(t, 1, n)
<1>1. u \in Seq(Rows) /\ Len(u) = n /\ \A i \in 1..n : u[i] = t[i]
  OBVIOUS
<1>2. ~Has(u, t[n + 1].key)
  BY <1>1 DEF Has, IsTable, Unique
<1>3. Add(u, t[n + 1]) = Append(u, t[n + 1])
  BY <1>1, <1>2 DEF Add, IsTable
<1>4. Append(u, t[n + 1]) = SubSeq(t, 1, n + 1)
  OBVIOUS
<1> QED
  BY <1>3, <1>4

\* A prefix of a table is a table.
LEMMA PrefixIsTable ==
  ASSUME NEW t \in Seq(Rows), IsTable(t), NEW n \in Nat, n <= Len(t)
  PROVE  SubSeq(t, 1, n) \in Seq(Rows) /\ IsTable(SubSeq(t, 1, n))
<1>1. SubSeq(t, 1, n) \in Seq(Rows) /\ Len(SubSeq(t, 1, n)) = n
  OBVIOUS
<1>2. \A i \in 1..n : SubSeq(t, 1, n)[i] = t[i]
  OBVIOUS
<1>3. Unique(SubSeq(t, 1, n))
  BY <1>1, <1>2, Len(t) \in Nat DEF IsTable, Unique
<1> QED
  BY <1>1, <1>3, Len(t) \in Nat, ChannelDbAssumption DEF IsTable

\* What dvb_scan_read_psip finds are rows.
LEMMA FoundAreRows ==
  ASSUME NEW f \in Muxes, NEW got \in SUBSET (1..Len(Vct[f])), NEW pmts \in PmtReads(f),
         NEW new \in FoundRows(f, got, pmts)
  PROVE  new \in Seq(Rows)
<1> USE ChannelDbAssumption
<1>0. Vct[f] \in Seq(Entries) /\ Pat[f] \in SUBSET Programs
  OBVIOUS
<1>1. CASE got # {}
  <2> DEFINE S == Listed(f, got, pmts)
  <2>1. S \subseteq 1..Len(Vct[f])
    BY DEF Listed
  <2>2. Cardinality(S) \in Nat
    <3>1. Len(Vct[f]) \in Int
      BY <1>0
    <3>2. IsFiniteSet(1..Len(Vct[f]))
      BY <3>1, FS_Interval
    <3>3. IsFiniteSet(S)
      BY ONLY <2>1, <3>2, FS_Subset
    <3> QED
      BY ONLY <3>3, FS_CardinalityType
  <2>3. PICK q \in Orders(S) : new = [i \in DOMAIN q |-> Row(Vct[f][q[i]].key, f)]
    BY <1>1 DEF FoundRows
  <2>4. q \in [1..Cardinality(S) -> S]
    BY <2>3 DEF Orders
  <2>5. \A i \in 1..Cardinality(S) : Row(Vct[f][q[i]].key, f) \in Rows
    <3>1. \A i \in 1..Cardinality(S) : Vct[f][q[i]] \in Entries
      BY ONLY <1>0, <2>1, <2>4
    <3> HIDE DEF S
    <3> QED
      BY <3>1 DEF Row, Rows, Entries
  <2> QED
    BY <2>2, <2>3, <2>4, <2>5
<1>2. CASE got = {} /\ f \in Qam
  <2>1. PICK S \in SUBSET Pat[f] : pmts \in [1..Cardinality(S) -> S]
    BY DEF PmtReads, Orders
  <2> DEFINE n == Cardinality(S)
  <2>2. n \in Nat
    <3>1. S \in SUBSET Programs
      BY <1>0
    <3> QED
      BY <3>1, FS_Subset, FS_CardinalityType
  <2>3. new = [i \in 1..n |-> Row(RawKey[f][pmts[i]], f)]
    BY <1>2, <2>1 DEF FoundRows
  <2>4. \A i \in 1..n : Row(RawKey[f][pmts[i]], f) \in Rows
    BY <1>0, <2>1 DEF Row, Rows
  <2> HIDE DEF n
  <2> QED
    BY <2>2, <2>3, <2>4
<1>3. CASE got = {} /\ f \notin Qam
  BY <1>3 DEF FoundRows
<1> QED
  BY <1>1, <1>2, <1>3

----------------------------------------------------------------------------
(* The inductive invariant *)

LEMMA InitInv == Init => IInv
<1> SUFFICES ASSUME Init PROVE IInv
  OBVIOUS
<1> USE ChannelDbAssumption DEF Init
<1>1. TypeOK
  <2>1. <<>> \in Seq(Rows) /\ Len(<<>>) = 0
    OBVIOUS
  <2>2. rows \in Seq(Rows) /\ Len(rows) <= MaxRows /\ lines \in Seq(Rows)
    BY <2>1
  <2>3. found \in [Scanners -> Seq(Rows)] /\ buf \in [Scanners -> Seq(Rows)]
    BY <2>1
  <2> QED
    BY <2>2, <2>3 DEF TypeOK
<1>2. KeysUnique /\ IsTable(lines)
  BY DEF KeysUnique, Unique, IsTable
<1>3. PointerKeepsKey /\ BootInv /\ CacheInv
  BY DEF PointerKeepsKey, BootInv, CacheInv
<1>4. FileInv
  BY <1>2 DEF FileInv, Saving
<1>5. LoadGivesBack
  BY DEF LoadGivesBack
<1> QED
  BY <1>1, <1>2, <1>3, <1>4, <1>5 DEF IInv

\* The table changes only by dvb_channel_db_add, or with the process.
RowsStep ==
  \/ UNCHANGED rows
  \/ \E r \in Rows : rows' = Add(rows, r)
  \/ rows' = <<>> /\ booting' /\ upc' = [u \in Slots |-> "off"]

\* What each action does to the table and to its readers.
LEMMA RowsChange == TypeOK /\ [Next]_vars => RowsStep
<1> SUFFICES ASSUME TypeOK, [Next]_vars PROVE RowsStep
  OBVIOUS
<1> USE DEF RowsStep
<1>1. CASE LoadLine
  <2>1. CASE sound
    BY <1>1, <2>1 DEF LoadLine, TypeOK
  <2>2. CASE ~sound
    BY <1>1, <2>2 DEF LoadLine
  <2> QED
    BY <2>1, <2>2
<1>2. CASE Started
  BY <1>2 DEF Started
<1>3. CASE Restart
  BY <1>3 DEF Restart
<1>4. ASSUME NEW s \in Scanners, AddFound(s) PROVE RowsStep
  <2>1. Head(found[s]) \in Rows
    BY <1>4 DEF AddFound, TypeOK
  <2> QED
    BY <1>4, <2>1 DEF AddFound
<1>5. ASSUME NEW s \in Scanners,
             \/ BeginScan(s) \/ EndScan(s) \/ \E f \in Muxes : ReadPsip(s, f)
             \/ SaveOpen(s) \/ SaveFails(s) \/ SaveClose(s)
             \/ \E n \in 0..MaxRows : SaveWrite(s, n)
      PROVE  RowsStep
  BY <1>5 DEF BeginScan, EndScan, ReadPsip, SaveOpen, SaveFails, SaveClose, SaveWrite
<1>6. ASSUME NEW u \in Slots,
             \/ \E i \in 1..MaxRows : FindChannel(u, i)
             \/ PullFails(u) \/ BindChannel(u) \/ ReleaseHttpPull(u) \/ Select(u)
      PROVE  RowsStep
  BY <1>6 DEF FindChannel, PullFails, BindChannel, ReleaseHttpPull, Select
<1>7. CASE UNCHANGED vars
  BY <1>7 DEF vars
<1> QED
  BY <1>1, <1>2, <1>3, <1>4, <1>5, <1>6, <1>7 DEF Next

\* The table stays a table.
LEMMA TableStep ==
  TypeOK /\ KeysUnique /\ [Next]_vars
    => rows' \in Seq(Rows) /\ Len(rows') <= MaxRows /\ KeysUnique'
<1> SUFFICES ASSUME TypeOK, KeysUnique, [Next]_vars
             PROVE  rows' \in Seq(Rows) /\ Len(rows') <= MaxRows /\ KeysUnique'
  OBVIOUS
<1> USE ChannelDbAssumption
<1>1. CASE UNCHANGED rows
  BY <1>1 DEF TypeOK, KeysUnique
<1>2. ASSUME NEW r \in Rows, rows' = Add(rows, r)
      PROVE  rows' \in Seq(Rows) /\ Len(rows') <= MaxRows /\ KeysUnique'
  BY <1>2, AddKeeps, AddUnique DEF TypeOK, KeysUnique
<1>3. CASE rows' = <<>>
  BY <1>3 DEF KeysUnique, Unique
<1> QED
  BY <1>1, <1>2, <1>3, RowsChange DEF RowsStep
\* Every step preserves the type invariant.
LEMMA TypeStep == IInv /\ [Next]_vars => TypeOK'
<1> SUFFICES ASSUME IInv, [Next]_vars PROVE TypeOK'
  OBVIOUS
<1> USE ChannelDbAssumption
<1>0. TypeOK /\ rows' \in Seq(Rows) /\ Len(rows') <= MaxRows
  BY TableStep DEF IInv
<1>1. CASE LoadLine
  <2>1. loaded' \in Nat
    BY <1>0, <1>1 DEF LoadLine, TypeOK
  <2> QED
    BY <1>0, <1>1, <2>1 DEF LoadLine, TypeOK, fileVars, scanVars, pullVars
<1>2. CASE Started
  BY <1>0, <1>2 DEF Started, TypeOK, fileVars, scanVars, pullVars
<1>3. CASE Restart
  <2>1. <<>> \in Seq(Rows)
    OBVIOUS
  <2>2. lines' \in Seq(Rows)
    BY <1>0, <1>3 DEF Restart, TypeOK
  <2>3. found' \in [Scanners -> Seq(Rows)] /\ buf' \in [Scanners -> Seq(Rows)]
    BY <1>3, <2>1 DEF Restart
  <2> QED
    BY <1>0, <1>3, <2>2, <2>3 DEF Restart, TypeOK
<1>4. ASSUME NEW s \in Scanners, AddFound(s) PROVE TypeOK'
  <2>1. Tail(found[s]) \in Seq(Rows)
    BY <1>0, <1>4 DEF AddFound, TypeOK
  <2>2. found' \in [Scanners -> Seq(Rows)]
    BY <1>0, <1>4, <2>1 DEF AddFound, TypeOK
  <2> QED
    BY <1>0, <1>4, <2>2 DEF AddFound, TypeOK, fileVars, bootVars, pullVars
<1>5. ASSUME NEW s \in Scanners, BeginScan(s) \/ EndScan(s) \/ SaveFails(s) PROVE TypeOK'
  BY <1>0, <1>5 DEF BeginScan, EndScan, SaveFails, TypeOK, fileVars, bootVars, pullVars
<1>6. ASSUME NEW s \in Scanners, NEW f \in Muxes, ReadPsip(s, f) PROVE TypeOK'
  <2>1. PICK new \in Seq(Rows) : found' = [found EXCEPT ![s] = new]
    <3>1. PICK new \in PsipFinds[f] : found' = [found EXCEPT ![s] = new]
      BY <1>6 DEF ReadPsip
    <3>2. PICK got \in SUBSET (1..Len(Vct[f])), pmts \in PmtReads(f) :
            new \in FoundRows(f, got, pmts)
      BY <3>1 DEF PsipFinds
    <3>3. new \in Seq(Rows)
      BY <3>2, FoundAreRows
    <3> QED
      BY <3>1, <3>3
  <2>2. found' \in [Scanners -> Seq(Rows)]
    BY <1>0, <2>1 DEF TypeOK
  <2> QED
    BY <1>0, <1>6, <2>2 DEF ReadPsip, TypeOK, fileVars, bootVars, pullVars
<1>7. ASSUME NEW s \in Scanners, SaveOpen(s) PROVE TypeOK'
  <2>1. lines' \in Seq(Rows) /\ sound' \in BOOLEAN
    BY <1>7 DEF SaveOpen
  <2> QED
    BY <1>0, <1>7, <2>1 DEF SaveOpen, TypeOK, bootVars, pullVars
<1>8. ASSUME NEW s \in Scanners, SaveClose(s) PROVE TypeOK'
  <2>1. lines' \in Seq(Rows)
    BY <1>0, <1>8 DEF SaveClose, TypeOK
  <2>2. buf' \in [Scanners -> Seq(Rows)]
    BY <1>0, <1>8 DEF SaveClose, TypeOK
  <2> QED
    BY <1>0, <1>8, <2>1, <2>2 DEF SaveClose, TypeOK, bootVars, pullVars
<1>9. ASSUME NEW s \in Scanners, NEW n \in 0..MaxRows, SaveWrite(s, n) PROVE TypeOK'
  <2>1. SubSeq(rows, 1, n) \in Seq(Rows)
    BY <1>0, <1>9, PrefixIsTable DEF SaveWrite, TypeOK, IInv, KeysUnique, IsTable
  <2>2. lines' \in Seq(Rows)
    BY <1>9, <2>1 DEF SaveWrite
  <2>3. buf' \in [Scanners -> Seq(Rows)]
    BY <1>0, <1>9 DEF SaveWrite, TypeOK
  <2> QED
    BY <1>0, <1>9, <2>2, <2>3 DEF SaveWrite, TypeOK, bootVars, pullVars
<1>10. ASSUME NEW u \in Slots, NEW i \in 1..MaxRows, FindChannel(u, i) PROVE TypeOK'
  <2>1. rows[i].key \in Keys
    <3>1. rows[i] \in Rows
      BY <1>0, <1>10 DEF FindChannel, TypeOK
    <3> QED
      BY <3>1 DEF Rows
  <2> QED
    BY <1>0, <1>10, <2>1 DEF FindChannel, TypeOK, fileVars, bootVars, scanVars
<1>11. ASSUME NEW u \in Slots, PullFails(u) PROVE TypeOK'
  BY <1>0, <1>11 DEF PullFails, PullEnds, TypeOK, fileVars, bootVars, scanVars
<1>12. ASSUME NEW u \in Slots, BindChannel(u) PROVE TypeOK'
  <2>1. rows[ptr[u]] \in Rows
    BY <1>0, <1>12 DEF BindChannel, IInv, PointerKeepsKey, TypeOK
  <2> QED
    BY <1>0, <1>12, <2>1 DEF BindChannel, TypeOK, fileVars, bootVars, scanVars
<1>13. ASSUME NEW u \in Slots, ReleaseHttpPull(u) PROVE TypeOK'
  BY <1>0, <1>13 DEF ReleaseHttpPull, PullEnds, TypeOK, fileVars, bootVars, scanVars
<1>14. ASSUME NEW u \in Slots, Select(u) PROVE TypeOK'
  <2>1. \A i \in 1..Len(rows) : rows[i] \in Rows
    BY <1>0 DEF TypeOK
  <2> QED
    BY <1>0, <1>14, <2>1 DEF Select, TypeOK, fileVars, bootVars, scanVars
<1>15. CASE UNCHANGED vars
  BY <1>0, <1>15 DEF vars, TypeOK, fileVars, bootVars, scanVars, pullVars
<1> QED
  BY <1>1, <1>2, <1>3, <1>4, <1>5, <1>6, <1>7, <1>8, <1>9, <1>10, <1>11, <1>12,
     <1>13, <1>14, <1>15 DEF Next
\* A pointer keeps its channel: rows are never moved, and pulls end with the process.
LEMMA PointerStep == IInv /\ [Next]_vars => PointerKeepsKey'
<1> SUFFICES ASSUME IInv, [Next]_vars PROVE PointerKeepsKey'
  OBVIOUS
<1>0. TypeOK /\ TypeOK' /\ PointerKeepsKey
  BY TypeStep DEF IInv
<1>1. CASE rows' = <<>> /\ booting' /\ upc' = [u \in Slots |-> "off"]
  BY <1>1 DEF PointerKeepsKey
<1>2. ASSUME ~(rows' = <<>> /\ booting' /\ upc' = [u \in Slots |-> "off"])
      PROVE  /\ Len(rows) <= Len(rows')
             /\ \A i \in 1..Len(rows) : rows'[i].key = rows[i].key
  <2>1. CASE UNCHANGED rows
    BY <1>0, <2>1 DEF TypeOK
  <2>2. ASSUME NEW r \in Rows, rows' = Add(rows, r)
        PROVE  /\ Len(rows) <= Len(rows')
               /\ \A i \in 1..Len(rows) : rows'[i].key = rows[i].key
    BY <1>0, <2>2, AddKeeps DEF TypeOK
  <2> QED
    BY <1>0, <1>2, <2>1, <2>2, RowsChange DEF RowsStep
<1>3. ASSUME UNCHANGED <<upc, want, ptr>>,
             Len(rows) <= Len(rows'), \A i \in 1..Len(rows) : rows'[i].key = rows[i].key
      PROVE  PointerKeepsKey'
  <2> SUFFICES ASSUME NEW u \in Slots, upc[u] # "off"
               PROVE  ptr[u] \in 1..Len(rows') /\ rows'[ptr[u]].key = want[u]
    BY <1>3 DEF PointerKeepsKey
  <2>1. ptr[u] \in 1..Len(rows) /\ rows[ptr[u]].key = want[u]
    BY <1>0 DEF PointerKeepsKey
  <2>2. Len(rows) \in Nat /\ Len(rows') \in Nat
    BY <1>0 DEF TypeOK
  <2> QED
    BY <1>3, <2>1, <2>2
<1>4. ASSUME NEW u \in Slots, NEW i \in 1..MaxRows, FindChannel(u, i) PROVE PointerKeepsKey'
  <2>1. rows' = rows /\ i \in 1..Len(rows)
    BY <1>4 DEF FindChannel
  <2>2. /\ want' = [want EXCEPT ![u] = rows[i].key] /\ ptr' = [ptr EXCEPT ![u] = i]
        /\ \A v \in Slots \ {u} : upc'[v] = upc[v]
    BY <1>0, <1>4 DEF FindChannel, TypeOK
  <2>3. ptr \in [Slots -> Nat] /\ want \in [Slots -> Keys \cup {None}]
    BY <1>0 DEF TypeOK
  <2> QED
    BY <1>0, <2>1, <2>2, <2>3 DEF PointerKeepsKey
<1>5. ASSUME NEW u \in Slots, PullFails(u) \/ ReleaseHttpPull(u) PROVE PointerKeepsKey'
  <2>1. rows' = rows /\ PullEnds(u)
    BY <1>5 DEF PullFails, ReleaseHttpPull
  <2>2. \A v \in Slots : upc'[v] # "off" =>
          upc[v] # "off" /\ ptr'[v] = ptr[v] /\ want'[v] = want[v]
    BY <1>0, <2>1 DEF PullEnds, TypeOK
  <2> QED
    BY <1>0, <2>1, <2>2 DEF PointerKeepsKey
<1>6. ASSUME NEW u \in Slots, BindChannel(u) PROVE PointerKeepsKey'
  <2>1. UNCHANGED <<rows, ptr, want>>
    BY <1>6 DEF BindChannel
  <2>2. \A v \in Slots : upc'[v] # "off" => upc[v] # "off"
    BY <1>0, <1>6 DEF BindChannel, TypeOK
  <2> QED
    BY <1>0, <2>1, <2>2 DEF PointerKeepsKey
<1>7. ASSUME \/ LoadLine \/ Started \/ UNCHANGED vars
             \/ \E u \in Slots : Select(u)
             \/ \E s \in Scanners :
                  \/ BeginScan(s) \/ AddFound(s) \/ EndScan(s)
                  \/ \E f \in Muxes : ReadPsip(s, f)
                  \/ SaveOpen(s) \/ SaveFails(s) \/ SaveClose(s)
                  \/ \E n \in 0..MaxRows : SaveWrite(s, n)
      PROVE  UNCHANGED <<upc, want, ptr>>
  BY <1>7 DEF LoadLine, Started, vars, Select, BeginScan, AddFound, EndScan, ReadPsip,
              SaveOpen, SaveFails, SaveClose, SaveWrite, pullVars
<1>8. CASE Restart
  BY <1>8 DEF Restart, PointerKeepsKey
<1> QED
  BY <1>1, <1>2, <1>3, <1>4, <1>5, <1>6, <1>7, <1>8 DEF Next

\* No thread runs before the load is done.
LEMMA BootStep == TypeOK /\ BootInv /\ [Next]_vars => BootInv'
<1> SUFFICES ASSUME TypeOK, BootInv, [Next]_vars PROVE BootInv'
  OBVIOUS
<1> USE DEF BootInv
<1>1. CASE LoadLine \/ Started
  BY <1>1 DEF LoadLine, Started, scanVars, pullVars
<1>2. CASE Restart
  BY <1>2 DEF Restart
<1>3. ASSUME NEW s \in Scanners,
             \/ BeginScan(s) \/ AddFound(s) \/ EndScan(s)
             \/ \E f \in Muxes : ReadPsip(s, f)
             \/ SaveOpen(s) \/ SaveFails(s) \/ SaveClose(s)
             \/ \E n \in 0..MaxRows : SaveWrite(s, n)
      PROVE  BootInv'
  <2>1. spc[s] # "off" \/ ~booting
    BY <1>3 DEF BeginScan, AddFound, EndScan, ReadPsip, SaveOpen, SaveFails, SaveClose,
                SaveWrite
  <2>2. booting' = booting
    BY <1>3 DEF BeginScan, AddFound, EndScan, ReadPsip, SaveOpen, SaveFails, SaveClose,
                SaveWrite, bootVars
  <2> QED
    BY <2>1, <2>2
<1>4. ASSUME NEW u \in Slots,
             \/ \E i \in 1..MaxRows : FindChannel(u, i)
             \/ PullFails(u) \/ BindChannel(u) \/ ReleaseHttpPull(u) \/ Select(u)
      PROVE  BootInv'
  <2>1. ~booting /\ ~booting'
    BY <1>4 DEF FindChannel, PullFails, BindChannel, ReleaseHttpPull, Select, bootVars
  <2> QED
    BY <2>1
<1>5. CASE UNCHANGED vars
  BY <1>5 DEF vars, bootVars, scanVars, pullVars
<1> QED
  BY <1>1, <1>2, <1>3, <1>4, <1>5 DEF Next

\* The cache holds, or will hold, a table.
LEMMA FileStep == IInv /\ [Next]_vars => FileInv'
<1> SUFFICES ASSUME IInv, [Next]_vars PROVE FileInv'
  OBVIOUS
<1> USE ChannelDbAssumption
<1>0. TypeOK /\ FileInv /\ IsTable(rows)
  BY DEF IInv, KeysUnique, TypeOK, IsTable
<1>1. IsTable(<<>>)
  BY DEF IsTable, Unique
<1>2. CASE Restart
  BY <1>0, <1>2 DEF Restart, FileInv, Saving
<1>3. ASSUME NEW s \in Scanners, SaveOpen(s) PROVE FileInv'
  <2>1. spc' = [spc EXCEPT ![s] = "write"] /\ buf' = buf /\ lines' = <<>>
    BY <1>3 DEF SaveOpen
  <2>2. sound' = \A q \in Scanners : ~Saving(q)
    BY <1>3 DEF SaveOpen
  <2> QED
    BY <1>0, <1>1, <2>1, <2>2 DEF FileInv, Saving, TypeOK
<1>4. ASSUME NEW s \in Scanners, NEW n \in 0..MaxRows, SaveWrite(s, n) PROVE FileInv'
  <2>1. IsTable(lines')
    BY <1>0, <1>1, <1>4, PrefixIsTable DEF SaveWrite, TypeOK
  <2> QED
    BY <1>0, <1>4, <2>1 DEF SaveWrite, FileInv, Saving, TypeOK
<1>5. ASSUME NEW s \in Scanners, SaveClose(s) PROVE FileInv'
  <2>1. IsTable(lines')
    BY <1>0, <1>1, <1>5 DEF SaveClose, FileInv
  <2> QED
    BY <1>0, <1>5, <2>1 DEF SaveClose, FileInv, Saving, TypeOK
<1>6. ASSUME NEW s \in Scanners, BeginScan(s) \/ EndScan(s) \/ SaveFails(s) PROVE FileInv'
  <2>1. UNCHANGED <<lines, sound, buf>>
    BY <1>6 DEF BeginScan, EndScan, SaveFails, fileVars
  <2>2. \A q \in Scanners :
          spc'[q] \in {"write", "close"} => spc[q] = spc'[q]
    BY <1>0, <1>6 DEF BeginScan, EndScan, SaveFails, TypeOK
  <2> QED
    BY <1>0, <2>1, <2>2 DEF FileInv, Saving
<1>7. ASSUME \/ LoadLine \/ Started \/ UNCHANGED vars
             \/ \E s \in Scanners : AddFound(s) \/ \E f \in Muxes : ReadPsip(s, f)
             \/ \E u \in Slots :
                  \/ \E i \in 1..MaxRows : FindChannel(u, i)
                  \/ PullFails(u) \/ BindChannel(u) \/ ReleaseHttpPull(u) \/ Select(u)
      PROVE  UNCHANGED <<lines, sound, spc, buf>>
  BY <1>7 DEF LoadLine, Started, vars, AddFound, ReadPsip, FindChannel, PullFails,
              BindChannel, ReleaseHttpPull, Select, fileVars, scanVars
<1>8. ASSUME UNCHANGED <<lines, sound, spc, buf>> PROVE FileInv'
  BY <1>0, <1>8 DEF FileInv, Saving
<1> QED
  BY <1>2, <1>3, <1>4, <1>5, <1>6, <1>7, <1>8 DEF Next

\* Each line that is loaded is appended to the table.
LEMMA LoadStep == IInv /\ [Next]_vars => LoadGivesBack'
<1> SUFFICES ASSUME IInv, [Next]_vars, booting', sound'
             PROVE  loaded' <= Len(lines') /\ rows' = SubSeq(lines', 1, loaded')
  BY DEF LoadGivesBack
<1>0. TypeOK /\ LoadGivesBack /\ IsTable(lines) /\ BootInv
  BY DEF IInv, FileInv
<1>1. CASE LoadLine
  <2>1. booting /\ sound /\ lines' = lines
    BY <1>1 DEF LoadLine, fileVars
  <2>2. loaded < Len(lines) /\ loaded' = loaded + 1
        /\ rows' = Add(rows, lines[loaded + 1])
    BY <1>1, <2>1 DEF LoadLine
  <2>3. rows = SubSeq(lines, 1, loaded)
    BY <1>0, <2>1 DEF LoadGivesBack
  <2>4. rows' = SubSeq(lines, 1, loaded + 1)
    BY <1>0, <2>2, <2>3, AddLoads DEF TypeOK
  <2>5. loaded + 1 <= Len(lines)
    BY <1>0, <2>2 DEF TypeOK
  <2> QED
    BY <2>1, <2>2, <2>4, <2>5
<1>2. CASE Restart
  <2>1. lines' \in Seq(Rows)
    BY TypeStep DEF TypeOK
  <2>2. loaded' = 0 /\ rows' = <<>>
    BY <1>2 DEF Restart
  <2> QED
    BY <2>1, <2>2
<1>3. CASE UNCHANGED vars
  BY <1>0, <1>3 DEF vars, fileVars, bootVars, LoadGivesBack
<1>4. CASE Started
  BY <1>4 DEF Started
<1>5. ASSUME NEW s \in Scanners,
             \/ BeginScan(s) \/ AddFound(s) \/ EndScan(s)
             \/ \E f \in Muxes : ReadPsip(s, f)
             \/ SaveOpen(s) \/ SaveFails(s) \/ SaveClose(s)
             \/ \E n \in 0..MaxRows : SaveWrite(s, n)
      PROVE  FALSE
  <2>1. booting
    BY <1>5 DEF BeginScan, AddFound, EndScan, ReadPsip, SaveOpen, SaveFails, SaveClose,
                SaveWrite, bootVars
  <2> QED
    BY <1>0, <1>5, <2>1 DEF BootInv, BeginScan, AddFound, EndScan, ReadPsip, SaveOpen,
                            SaveFails, SaveClose, SaveWrite
<1>6. ASSUME NEW u \in Slots,
             \/ \E i \in 1..MaxRows : FindChannel(u, i)
             \/ PullFails(u) \/ BindChannel(u) \/ ReleaseHttpPull(u) \/ Select(u)
      PROVE  FALSE
  <2>1. booting
    BY <1>6 DEF FindChannel, PullFails, BindChannel, ReleaseHttpPull, Select, bootVars
  <2> QED
    BY <1>0, <1>6, <2>1 DEF BootInv, FindChannel, PullFails, BindChannel, ReleaseHttpPull,
                            Select
<1> QED
  BY <1>1, <1>2, <1>3, <1>4, <1>5, <1>6 DEF Next
\* Either the cache is complete, or somebody is still to make it so.
LEMMA CacheStep == IInv /\ [Next]_vars => CacheInv'
<1> SUFFICES ASSUME IInv, [Next]_vars PROVE CacheInv'
  OBVIOUS
<1>0. TypeOK /\ FileInv /\ CacheInv /\ BootInv /\ LoadGivesBack
  BY DEF IInv
<1>1. CASE Started
  <2>1. ASSUME sound PROVE lines = rows
    BY <1>0, <1>1, <2>1 DEF Started, LoadGivesBack, TypeOK
  <2> QED
    BY <1>0, <1>1, <2>1 DEF Started, BootInv, CacheInv, Saving, fileVars, scanVars
<1>2. CASE LoadLine \/ Restart
  <2>1. booting'
    BY <1>2 DEF LoadLine, Restart
  <2> QED
    BY <2>1 DEF CacheInv
<1>3. ASSUME NEW s \in Scanners, spc'[s] \in {"scan", "fopen", "write"} PROVE CacheInv'
  BY <1>3 DEF CacheInv
<1>4. ASSUME NEW s \in Scanners, BeginScan(s) PROVE CacheInv'
  BY <1>0, <1>3, <1>4 DEF BeginScan, TypeOK
<1>5. ASSUME NEW s \in Scanners, AddFound(s) PROVE CacheInv'
  BY <1>0, <1>3, <1>5 DEF AddFound, TypeOK
<1>6. ASSUME NEW s \in Scanners, EndScan(s) PROVE CacheInv'
  BY <1>0, <1>3, <1>6 DEF EndScan, TypeOK
<1>7. ASSUME NEW s \in Scanners, NEW f \in Muxes, ReadPsip(s, f) PROVE CacheInv'
  BY <1>0, <1>3, <1>7 DEF ReadPsip, TypeOK
<1>8. ASSUME NEW s \in Scanners, SaveOpen(s) PROVE CacheInv'
  BY <1>0, <1>3, <1>8 DEF SaveOpen, TypeOK
<1>9. ASSUME NEW s \in Scanners, SaveFails(s) PROVE CacheInv'
  BY <1>9 DEF SaveFails, CacheInv
<1>10. ASSUME NEW s \in Scanners, NEW n \in 0..MaxRows, SaveWrite(s, n) PROVE CacheInv'
  <2>1. spc'[s] = "close" /\ buf'[s] = rows /\ rows' = rows
    BY <1>0, <1>10 DEF SaveWrite, TypeOK
  <2> QED
    BY <2>1 DEF CacheInv
<1>11. ASSUME NEW s \in Scanners, SaveClose(s) PROVE CacheInv'
  <2> SUFFICES ASSUME ~booting', sound', ~unsaved' PROVE CacheInv'
    BY DEF CacheInv
  <2>1. spc[s] = "close" /\ ~booting /\ sound /\ ~unsaved /\ rows' = rows
    BY <1>11 DEF SaveClose, bootVars
  <2>2. lines' = buf[s] /\ spc' = [spc EXCEPT ![s] = "off"]
    BY <1>11, <2>1 DEF SaveClose
  <2>3. \A q \in Scanners \ {s} : ~Saving(q) /\ spc'[q] = spc[q]
    BY <1>0, <2>1, <2>2 DEF FileInv, Saving, TypeOK
  <2>4. \A q \in Scanners : ~(Saving(q)')
    BY <1>0, <2>2, <2>3 DEF Saving, TypeOK
  <2>5. CASE buf[s] = rows
    BY <2>1, <2>2, <2>4, <2>5 DEF CacheInv
  <2>6. ASSUME NEW q \in Scanners, spc[q] \in {"scan", "fopen", "write"} PROVE CacheInv'
    BY <1>3, <2>1, <2>3, <2>6
  <2>7. CASE \E q \in Scanners : spc[q] = "close" /\ buf[q] = rows
    BY <2>3, <2>5, <2>7 DEF Saving
  <2> QED
    BY <1>0, <2>1, <2>6, <2>7 DEF CacheInv, Saving
<1>12. ASSUME NEW u \in Slots,
              \/ \E i \in 1..MaxRows : FindChannel(u, i)
              \/ PullFails(u) \/ BindChannel(u) \/ ReleaseHttpPull(u) \/ Select(u)
       PROVE  UNCHANGED <<rows, lines, sound, unsaved, booting, spc, buf>>
  BY <1>12 DEF FindChannel, PullFails, BindChannel, ReleaseHttpPull, Select, fileVars,
               bootVars, scanVars
<1>13. ASSUME UNCHANGED <<rows, lines, sound, unsaved, booting, spc, buf>> PROVE CacheInv'
  BY <1>0, <1>13 DEF CacheInv, Saving
<1>14. CASE UNCHANGED vars
  BY <1>13, <1>14 DEF vars, fileVars, bootVars, scanVars
<1> QED
  BY <1>1, <1>2, <1>4, <1>5, <1>6, <1>7, <1>8, <1>9, <1>10, <1>11, <1>12, <1>13, <1>14
     DEF Next

----------------------------------------------------------------------------
(* Theorems *)

\* The inductive invariant holds of every behaviour.
THEOREM Inductive == Spec => []IInv
<1>1. IInv /\ [Next]_vars => IInv'
  <2> SUFFICES ASSUME IInv, [Next]_vars PROVE IInv'
    OBVIOUS
  <2>1. TypeOK' /\ KeysUnique'
    BY TypeStep, TableStep DEF IInv
  <2>2. PointerKeepsKey' /\ BootInv'
    BY PointerStep, BootStep DEF IInv
  <2>3. FileInv' /\ LoadGivesBack' /\ CacheInv'
    BY FileStep, LoadStep, CacheStep
  <2> QED
    BY <2>1, <2>2, <2>3 DEF IInv
<1> QED
  BY InitInv, <1>1, PTL DEF Spec

\* The table never has more than DVB_CHANNEL_MAX rows, and types hold.
THEOREM TypeCorrect == Spec => []TypeOK
<1>1. IInv => TypeOK
  BY DEF IInv
<1> QED
  BY Inductive, <1>1, PTL

\* However many scans and loads add channels, no major.minor has two rows.
THEOREM NoDuplicates == Spec => []KeysUnique
<1>1. IInv => KeysUnique
  BY DEF IInv
<1> QED
  BY Inductive, <1>1, PTL

\* dvb_find_channel's pointers stay on the channel they were asked for.
THEOREM PointersStable == Spec => []PointerKeepsKey
<1>1. IInv => PointerKeepsKey
  BY DEF IInv
<1> QED
  BY Inductive, <1>1, PTL

\* dvb_channel_db_load gives back what dvb_channel_db_save wrote.
THEOREM LoadsWhatWasSaved == Spec => []LoadGivesBack
<1>1. IInv => LoadGivesBack
  BY DEF IInv
<1> QED
  BY Inductive, <1>1, PTL

\* When all scans are done, the cache holds the table.
THEOREM CacheIsComplete == Spec => []CacheComplete
<1>1. IInv => CacheComplete
  BY DEF IInv, CacheInv, CacheComplete
<1> QED
  BY Inductive, <1>1, PTL

\* The table is in order whatever scans, loads and pulls overlap.
THEOREM TableIsSound == Spec => []TableSound
<1>1. IInv => TableSound
  BY DEF IInv, TableSound
<1> QED
  BY Inductive, <1>1, PTL
=============================================================================

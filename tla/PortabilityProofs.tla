--------------------------- MODULE PortabilityProofs ---------------------------
(***************************************************************************)
(* Theorems about Portability, for any contents, ids, page size, users and *)
(* failures.                                                               *)
(***************************************************************************)
EXTENDS Portability, FiniteSetTheorems, SequenceTheorems, TLAPS

LEMMA Limits ==
  /\ PageSize \in Nat \ {0} /\ MaxIds \in Nat \ {0, 1} /\ Modes \subseteq AllModes
  /\ MaxImports \in Nat /\ MaxUser \in Nat /\ MaxFaults \in Nat
  /\ None \notin Nat /\ None \notin Row /\ None \notin File /\ Ids \subseteq Nat
BY PortabilityAssumption, NoneAssumption DEF Ids

-----------------------------------------------------------------------------
(* The order of an export.                                                 *)

Rows == [Ids -> Row \cup {None}]

LEMMA RowsAre ==
  ASSUME rows \in Rows, NEW i \in Stored
  PROVE  rows[i] \in Row /\ i \in Ids /\ i \in Nat
BY Limits DEF Rows, Stored

LEMMA InIsFinite ==
  /\ In("source") \subseteq Ids /\ IsFiniteSet(Ids) /\ IsFiniteSet(In("source"))
  /\ Cardinality(In("source")) \in Nat
<1>1. In("source") \subseteq Ids
  BY DEF In, Stored
<1>2. IsFiniteSet(Ids)
  BY FS_Interval, Limits DEF Ids
<1> QED
  BY <1>1, <1>2, FS_Subset, FS_CardinalityType

LEMMA PlaceIs ==
  ASSUME NEW i
  PROVE  /\ {j \in In("source") : Order(j, i)} \subseteq In("source")
         /\ IsFiniteSet({j \in In("source") : Order(j, i)})
         /\ Place(i) \in Nat /\ Place(i) <= Cardinality(In("source"))
<1> DEFINE B == {j \in In("source") : Order(j, i)}
<1>1. B \subseteq In("source")
  OBVIOUS
<1> HIDE DEF B
<1>2. IsFiniteSet(B) /\ Cardinality(B) <= Cardinality(In("source")) /\ Cardinality(B) \in Nat
  BY <1>1, InIsFinite, FS_Subset, FS_CardinalityType
<1> QED
  BY <1>1, <1>2 DEF B, Place

LEMMA OrderIs ==
  ASSUME rows \in Rows
  PROVE  \A i, j, k \in In("source") :
           /\ ~Order(i, i) /\ (Order(i, j) \/ Order(j, i) \/ i = j)
           /\ Order(i, j) /\ Order(j, k) => Order(i, k)
<1>1. \A i \in In("source") : rows[i].rank \in {0, 1} /\ i \in Nat
  BY RowsAre DEF In, Row
<1> QED
  BY <1>1 DEF Order

LEMMA Places ==
  ASSUME rows \in Rows, NEW i \in In("source"), NEW j \in In("source"), Order(i, j)
  PROVE  Place(i) < Place(j)
<1> DEFINE B == {k \in In("source") : Order(k, i)}
           C == {k \in In("source") : Order(k, j)}
<1>1. B \subseteq C /\ i \in C /\ i \notin B
  BY OrderIs
<1>2. IsFiniteSet(B) /\ IsFiniteSet(C) /\ Place(i) = Cardinality(B) /\ Place(j) = Cardinality(C)
  BY PlaceIs DEF Place
<1> HIDE DEF B, C
<1>3. Cardinality(B) <= Cardinality(C) /\ (Cardinality(B) = Cardinality(C) => B = C)
  BY <1>1, <1>2, FS_Subset
<1>4. B # C
  BY <1>1
<1>5. Place(i) \in Nat /\ Place(j) \in Nat
  BY PlaceIs
<1> QED
  BY <1>2, <1>3, <1>4, <1>5

LEMMA PlaceBounds ==
  ASSUME rows \in Rows, NEW i \in In("source")
  PROVE  Place(i) \in 0 .. Cardinality(In("source")) - 1
<1> DEFINE B == {k \in In("source") : Order(k, i)}
<1>1. B \subseteq In("source") /\ IsFiniteSet(B) /\ i \notin B /\ Place(i) = Cardinality(B)
  BY PlaceIs, OrderIs DEF Place
<1> HIDE DEF B
<1>2. Cardinality(B) <= Cardinality(In("source"))
      /\ (Cardinality(B) = Cardinality(In("source")) => B = In("source"))
  BY <1>1, InIsFinite, FS_Subset
<1>3. Cardinality(B) # Cardinality(In("source"))
  BY <1>1, <1>2
<1>4. Place(i) \in Nat /\ Cardinality(In("source")) \in Nat
  BY PlaceIs, InIsFinite
<1> QED
  BY <1>1, <1>2, <1>3, <1>4

(* Every row has a place, and every place a row.                           *)
LEMMA SortedIs ==
  ASSUME rows \in Rows
  PROVE  LET n == Cardinality(In("source"))
         IN /\ Sorted \in Seq(In("source")) /\ Len(Sorted) = n /\ n \in Nat
            /\ \A i \in In("source") : Place(i) + 1 \in 1 .. n /\ Sorted[Place(i) + 1] = i
<1> DEFINE S == In("source")
           n == Cardinality(S)
           f == [i \in S |-> Place(i)]
<1>1. IsFiniteSet(S) /\ n \in Nat
  BY InIsFinite
<1>2. IsFiniteSet(0 .. n - 1) /\ Cardinality(0 .. n - 1) = n
  BY <1>1, FS_Interval
<1>3. \A i \in S : Place(i) \in 0 .. n - 1
  BY PlaceBounds
<1>4. \A i, j \in S : Place(i) = Place(j) => i = j
  <2> SUFFICES ASSUME NEW i \in S, NEW j \in S, i # j PROVE Place(i) # Place(j)
    OBVIOUS
  <2>1. Place(i) < Place(j) \/ Place(j) < Place(i)
    BY OrderIs, Places
  <2> QED
    BY <1>3, <2>1
<1> HIDE DEF S, n
<1>5. f \in Injection(S, 0 .. n - 1)
  BY <1>3, <1>4 DEF Injection, IsInjective
<1>6. f \in Surjection(S, 0 .. n - 1)
  BY <1>1, <1>2, <1>5, FS_Injection DEF n
<1>7. \A k \in 1 .. n : \E i \in S : Place(i) = k - 1
  <2>1. \A t \in 0 .. n - 1 : \E i \in S : f[i] = t
    BY <1>6 DEF Surjection
  <2>2. \A k \in 1 .. n : k - 1 \in 0 .. n - 1
    BY <1>1
  <2> QED
    BY <2>1, <2>2
<1>8. \A k \in 1 .. n : Sorted[k] \in S /\ Place(Sorted[k]) = k - 1
  BY <1>7 DEF Sorted, n, S
<1>9. DOMAIN Sorted = 1 .. n /\ Sorted = [k \in 1 .. n |-> Sorted[k]]
  BY DEF Sorted, n, S
<1>10. Sorted \in Seq(S) /\ Len(Sorted) = n
  <2>1. Sorted \in [1 .. n -> S]
    BY <1>8, <1>9
  <2> QED
    BY <1>1, <2>1, SeqDef, LenProperties
<1>11. \A i \in S : Place(i) + 1 \in 1 .. n /\ Sorted[Place(i) + 1] = i
  <2> SUFFICES ASSUME NEW i \in S PROVE Place(i) + 1 \in 1 .. n /\ Sorted[Place(i) + 1] = i
    OBVIOUS
  <2>1. PICK k : k = Place(i) + 1 /\ k \in 1 .. n /\ k - 1 = Place(i)
    BY <1>1, <1>3
  <2>2. Sorted[k] \in S /\ Place(Sorted[k]) = Place(i)
    BY <1>8, <2>1
  <2>3. Sorted[k] = i
    BY <1>4, <2>2
  <2> QED
    BY <2>1, <2>3
<1> QED
  BY <1>1, <1>10, <1>11 DEF S, n

-----------------------------------------------------------------------------
(* The invariant.                                                          *)

Pairs == (1 .. drawn) \X (1 .. drawn)

RowsOK ==
  /\ rows \in Rows /\ drawn \in 0 .. MaxIds /\ Stored \subseteq 1 .. drawn
  /\ edges \subseteq Pairs

(* An entry of the memory i says what the row says, and is no more marked. *)
Said(row, i, es) ==
  \E k \in DOMAIN es : /\ es[k].id = i /\ es[k].content = row.content
                       /\ es[k].marked => row.marked

(* As long as the memory of an entry is stored, an entry of it says what   *)
(* it says, unless it was updated (ed) since they were written.            *)
Faithful(es, ed) ==
  \A k \in DOMAIN es :
    LET i == es[k].id
    IN /\ i \in 1 .. drawn
       /\ rows[i] # None =>
            /\ rows[i].space = "source"
            /\ i \notin ed => Said(rows[i], i, es)

FileOK(f) == f \in File /\ Faithful(f.entries, edited) /\ f.rels \subseteq Pairs

(* The row i is in the export, or its place is still to come.              *)
Has(es, i) == \E k \in DOMAIN es : es[k].id = i

Exported(i, es) == Has(es, i) \/ Place(i) >= Len(es)

(* Nothing that was there when an export began is behind its offset unread. *)
ExportOK ==
  /\ export \in Export /\ FileOK(export.out)
  /\ file \in File \cup {None} /\ (file # None => FileOK(file))
  /\ export.pc = "page" =>
       /\ file = None
       /\ export.quiet => /\ export.before \subseteq In("source")
                          /\ \A i \in export.before : Exported(i, export.out.entries)

(* The entry e is imported: its memory is stored under its new id, and     *)
(* says what the file says of it unless it was updated.                    *)
Restored(r, e) ==
  LET i == r.to[e.id]
  IN /\ i # None /\ rows[i] # None /\ rows[i].space = r.mode.into
     /\ i \notin edited => Said(rows[i], e.id, file.entries)

(* The entries left are those behind the first n.                          *)
After(left, n, es) ==
  /\ n + Len(left) = Len(es)
  /\ \A j \in 1 .. Len(left) : left[j] = es[j + n]

(* The file, from its start to where the import is: entries, then          *)
(* relations between the new ids.                                          *)
Progress(r) ==
  /\ \A i \in Ids : r.to[i] # None =>
       rows[r.to[i]] # None /\ rows[r.to[i]].space = r.mode.into
  /\ \E n \in Nat :
       /\ After(r.left, n, file.entries)
       /\ r.ok => \A j \in 1 .. n : Restored(r, file.entries[j])
  /\ r.rels \subseteq file.rels /\ (r.left # <<>> => r.rels = file.rels)
  /\ r.ok => \A e \in file.rels \ r.rels : <<r.to[e[1]], r.to[e[2]]>> \in edges

(* Nothing was deleted since it began, and it does not keep the old ids.   *)
Safe(r) == ~raced /\ r.mode.format = "pmf"

(* What an import knows at each of its awaits.                             *)
Importing(r) ==
  /\ r \in Import
  /\ \A i \in Ids : r.to[i] # None => r.to[i] <= drawn
  /\ r.here # None => r.here <= drawn
  /\ r.rels \subseteq Pairs
  /\ r.pc \in {"find", "create", "mark"} <=> r.left # <<>>
  /\ r.pc = "mark" => r.here # None
  /\ r.pc # "idle" =>
       /\ file # None /\ r.mode \in Modes
       /\ r.pc = "find" => r.mode.byId
       /\ r.pc = "mark" => r.mode.format = "pmf"
       /\ Safe(r) =>
            /\ Progress(r)
            /\ r.pc = "mark" =>
                 /\ rows[r.here] # None /\ rows[r.here].space = r.mode.into
                 /\ r.here \notin edited => rows[r.here].content = Head(r.left).content

ImportOK == Importing(import)

(* Every import is of a PMF file.                                          *)
Pmf == \A m \in Modes : m.format = "pmf"

(* The inductive invariant.                                                *)
PInv == RowsOK /\ ExportOK /\ ImportOK /\ (Pmf => EdgesJoinRows)

-----------------------------------------------------------------------------
(* How rows change, while no export reads them: what is not updated says   *)
(* what it said, and what is gone is gone.                                 *)

Evolves ==
  /\ rows' \in Rows /\ drawn' \in 0 .. MaxIds /\ drawn <= drawn'
  /\ Stored' \subseteq 1 .. drawn' /\ edited \subseteq edited'
  /\ \A i \in 1 .. drawn : rows'[i] # None =>
       /\ rows[i] # None /\ rows'[i].space = rows[i].space
       /\ i \notin edited' => /\ rows'[i].content = rows[i].content
                              /\ rows[i].marked => rows'[i].marked

(* And none is deleted.                                                    *)
Stays == Evolves /\ \A i \in Stored : rows'[i] # None

(* And none is ranked anew.                                                *)
Settled == Stays /\ \A i \in Stored : rows'[i].rank = rows[i].rank

LEMMA PairsGrow ==
  ASSUME RowsOK, Evolves PROVE Pairs \subseteq Pairs' /\ 1 .. drawn \subseteq 1 .. drawn'
BY Limits DEF RowsOK, Evolves, Pairs

LEMMA StaysIn ==
  ASSUME RowsOK, Stays, NEW i \in Stored
  PROVE  /\ i \in Stored' /\ i \in 1 .. drawn /\ rows[i] # None
         /\ rows'[i].space = rows[i].space
         /\ i \notin edited' => /\ rows'[i].content = rows[i].content
                                /\ rows[i].marked => rows'[i].marked
BY DEF RowsOK, Stays, Evolves, Stored

LEMMA FileStays ==
  ASSUME RowsOK, Evolves, NEW f, FileOK(f) PROVE FileOK(f)'
<1>1. PICK es : es = f.entries
  OBVIOUS
<1>2. Faithful(es, edited)
  BY <1>1 DEF FileOK
<1>3. ASSUME NEW k \in DOMAIN es, NEW i, i = es[k].id
      PROVE  /\ i \in 1 .. drawn'
             /\ rows'[i] # None => /\ rows'[i].space = "source"
                                   /\ i \notin edited' => Said(rows'[i], i, es)
  <2>1. /\ i \in 1 .. drawn
        /\ rows[i] # None => /\ rows[i].space = "source"
                             /\ i \notin edited => Said(rows[i], i, es)
    BY <1>2, <1>3 DEF Faithful
  <2>2. i \in 1 .. drawn'
    BY <2>1, PairsGrow
  <2>3. ASSUME rows'[i] # None
        PROVE  /\ rows'[i].space = "source"
               /\ i \notin edited' => Said(rows'[i], i, es)
    <3>1. /\ rows[i] # None /\ rows'[i].space = rows[i].space /\ edited \subseteq edited'
          /\ i \notin edited' => /\ rows'[i].content = rows[i].content
                                 /\ rows[i].marked => rows'[i].marked
      BY <2>1, <2>3 DEF Evolves
    <3> QED
      BY <2>1, <3>1 DEF Said
  <2> QED
    BY <2>2, <2>3
<1>4. Faithful(es, edited)'
  BY <1>3 DEF Faithful, Said
<1> QED
  BY <1>1, <1>4, PairsGrow DEF FileOK, Faithful, Said

LEMMA NothingMoves ==
  ASSUME RowsOK, UNCHANGED <<rows, drawn, edited>> PROVE Settled
BY DEF RowsOK, Settled, Stays, Evolves, Stored

LEMMA InGrows ==
  ASSUME RowsOK, Stays PROVE In("source") \subseteq In("source")'
BY StaysIn DEF In, Stored

LEMMA PlaceGrows ==
  ASSUME RowsOK, Settled, NEW i \in In("source")
  PROVE  Place(i) \in Nat /\ Place(i)' \in Nat /\ Place(i) <= Place(i)'
<1> DEFINE B == {j \in In("source") : Order(j, i)}
<1>1. B \subseteq B'
  BY InGrows, i \in Stored DEF Order, In, Settled
<1>2. B' \subseteq Ids
  BY DEF In, Stored
<1>3. Place(i) = Cardinality(B) /\ Place(i)' = Cardinality(B')
  BY DEF Place
<1> HIDE DEF B
<1>4. IsFiniteSet(B') /\ Cardinality(B') \in Nat
  BY <1>2, InIsFinite, FS_Subset, FS_CardinalityType
<1>5. Cardinality(B) <= Cardinality(B') /\ Cardinality(B) \in Nat
  BY <1>1, <1>4, FS_Subset, FS_CardinalityType
<1> QED
  BY <1>3, <1>4, <1>5

LEMMA ExportStays ==
  ASSUME PInv, Settled, UNCHANGED <<export, file>> PROVE ExportOK'
<1>1. FileOK(export.out)' /\ (file # None => FileOK(file)')
  BY FileStays DEF PInv, ExportOK, Settled, Stays
<1>2. ASSUME export.pc = "page", export.quiet
      PROVE  (export.before \subseteq In("source")
              /\ \A i \in export.before : Exported(i, export.out.entries))'
  <2>1. In("source") \subseteq In("source")'
    BY InGrows DEF PInv, Settled
  <2>2. ASSUME NEW i \in export.before PROVE Exported(i, export.out.entries)'
    <3>1. i \in In("source") /\ Exported(i, export.out.entries)
      BY <1>2 DEF PInv, ExportOK
    <3>2. Place(i) <= Place(i)' /\ Place(i) \in Nat /\ Place(i)' \in Nat
      BY <3>1, PlaceGrows DEF PInv
    <3>3. Len(export.out.entries) \in Nat
      BY LenProperties DEF PInv, ExportOK, FileOK, File
    <3> QED
      BY <3>1, <3>2, <3>3 DEF Exported
  <2> QED
    BY <1>2, <2>1, <2>2 DEF PInv, ExportOK
<1> QED
  BY <1>1, <1>2 DEF PInv, ExportOK

LEMMA LoudExport ==
  ASSUME PInv, Evolves, export' = [export EXCEPT !.quiet = FALSE], file' = file PROVE ExportOK'
<1>1. FileOK(export.out)' /\ (file # None => FileOK(file)')
  BY FileStays DEF PInv, ExportOK
<1>2. /\ export' \in Export /\ export'.out = export.out /\ export'.pc = export.pc
      /\ export'.quiet = FALSE
  BY DEF PInv, ExportOK, Export
<1> QED
  BY <1>1, <1>2 DEF PInv, ExportOK

LEMMA NoExportIs ==
  /\ NoExport \in Export /\ NoExport.pc = "idle" /\ NoExport.quiet
  /\ NoExport.out.entries = <<>> /\ Len(NoExport.out.entries) = 0
  /\ FileOK(NoExport.out) /\ FileOK(NoExport.out)'
<1>1. NoExport.out \in File
  BY EmptySeq DEF NoExport, File
<1>2. /\ NoExport \in Export /\ NoExport.pc = "idle" /\ NoExport.quiet
      /\ NoExport.out.entries = <<>> /\ NoExport.out.rels = {}
  BY <1>1 DEF NoExport, Export
<1>3. Len(<<>>) = 0 /\ DOMAIN <<>> = {}
  BY EmptySeq
<1> QED
  BY <1>1, <1>2, <1>3 DEF FileOK, Faithful

LEMMA EntriesAre ==
  ASSUME ExportOK, file # None
  PROVE  /\ file \in File /\ FileOK(file) /\ file.entries \in Seq(Entry)
         /\ Len(file.entries) \in Nat /\ DOMAIN file.entries = 1 .. Len(file.entries)
         /\ \A k \in 1 .. Len(file.entries) : file.entries[k] \in Entry
<1>1. file \in File /\ file.entries \in Seq(Entry) /\ FileOK(file)
  BY DEF ExportOK, File
<1> QED
  BY <1>1, LenProperties, ElementOfSeq

LEMMA RestoredStays ==
  ASSUME RowsOK, Stays, file' = file, NEW r \in Import, NEW e \in Entry, Restored(r, e)
  PROVE  Restored(r, e)'
<1>1. PICK i : i = r.to[e.id]
  OBVIOUS
<1>2. i \in Ids /\ i \in Stored
  BY <1>1 DEF Restored, Import, Entry, Stored
<1>3. /\ rows'[i] # None /\ rows'[i].space = rows[i].space
      /\ i \notin edited' => /\ rows'[i].content = rows[i].content
                             /\ rows[i].marked => rows'[i].marked
  BY <1>2, StaysIn DEF Stored
<1>4. edited \subseteq edited'
  BY DEF Stays, Evolves
<1>5. i \notin edited' => Said(rows'[i], e.id, file'.entries)
  BY <1>1, <1>3, <1>4 DEF Restored, Said
<1> QED
  BY <1>1, <1>2, <1>3, <1>5 DEF Restored

LEMMA ProgressStays ==
  ASSUME PInv, Stays, edges \subseteq edges', file # None, file' = file,
         NEW r \in Import, Progress(r)
  PROVE  Progress(r)'
<1>1. ASSUME NEW i \in Ids, r.to[i] # None
      PROVE  rows'[r.to[i]] # None /\ rows'[r.to[i]].space = r.mode.into
  <2>1. r.to[i] \in Stored /\ rows[r.to[i]].space = r.mode.into
    BY <1>1 DEF Progress, Import, Stored
  <2> QED
    BY <2>1, StaysIn DEF PInv, Stored
<1>2. PICK n \in Nat :
        /\ After(r.left, n, file.entries)
        /\ r.ok => \A j \in 1 .. n : Restored(r, file.entries[j])
  BY DEF Progress
<1>3. ASSUME r.ok, NEW j \in 1 .. n PROVE Restored(r, file.entries[j])'
  <2>1. Len(r.left) \in Nat
    BY LenProperties DEF Import
  <2>2. file.entries[j] \in Entry
    BY <1>2, <2>1, EntriesAre DEF After, PInv
  <2>3. Restored(r, file.entries[j])
    BY <1>2, <1>3
  <2>4. PICK e : e = file.entries[j]
    OBVIOUS
  <2>5. Restored(r, e)'
    BY <2>2, <2>3, <2>4, RestoredStays DEF PInv
  <2> QED
    BY <2>4, <2>5 DEF Restored
<1>4. r.rels \subseteq file.rels /\ (r.left # <<>> => r.rels = file.rels)
  BY DEF Progress
<1>5. r.ok => \A e \in file.rels \ r.rels : <<r.to[e[1]], r.to[e[2]]>> \in edges'
  BY DEF Progress
<1>6. After(r.left, n, file.entries)' 
  BY <1>2 DEF After
<1> QED
  BY <1>1, <1>2, <1>3, <1>4, <1>5, <1>6 DEF Progress

LEMMA ImportStays ==
  ASSUME PInv, Stays, edges \subseteq edges', UNCHANGED <<file, import, raced>>
  PROVE  ImportOK'
<1>1. PICK r : r = import
  OBVIOUS
<1>2. Importing(r) /\ r \in Import
  BY <1>1 DEF PInv, ImportOK, Importing
<1>3. /\ \A i \in Ids : r.to[i] # None => r.to[i] <= drawn'
      /\ r.here # None => r.here <= drawn'
      /\ r.rels \subseteq Pairs'
  <2>1. /\ \A i \in Ids : r.to[i] # None => r.to[i] \in Nat
        /\ r.here # None => r.here \in Nat
    BY <1>2, Limits DEF Import
  <2> QED
    BY <1>2, <2>1, PairsGrow DEF Importing, PInv, Stays, Evolves, RowsOK
<1>4. ASSUME r.pc # "idle", Safe(r)'
      PROVE  /\ Progress(r)'
             /\ r.pc = "mark" =>
                 /\ rows'[r.here] # None /\ rows'[r.here].space = r.mode.into
                 /\ r.here \notin edited' => rows'[r.here].content = Head(r.left).content
  <2>1. Safe(r) /\ file # None
    BY <1>2, <1>4 DEF Safe, Importing
  <2>2. Progress(r)'
    BY <1>2, <1>4, <2>1, ProgressStays DEF Importing
  <2>3. ASSUME r.pc = "mark"
        PROVE  /\ rows'[r.here] # None /\ rows'[r.here].space = r.mode.into
               /\ r.here \notin edited' => rows'[r.here].content = Head(r.left).content
    <3>1. /\ rows[r.here] # None /\ rows[r.here].space = r.mode.into /\ r.here # None
          /\ r.here \notin edited => rows[r.here].content = Head(r.left).content
      BY <1>2, <1>4, <2>1, <2>3 DEF Importing
    <3>2. r.here \in Stored
      BY <1>2, <3>1 DEF Import, Stored
    <3> QED
      BY <3>1, <3>2, StaysIn DEF PInv, Stored, Stays, Evolves
  <2> QED
    BY <2>2, <2>3
<1>5. Importing(r)'
  BY <1>2, <1>3, <1>4 DEF Importing
<1> QED
  BY <1>1, <1>5 DEF ImportOK, Importing

LEMMA JoinedStays ==
  ASSUME PInv, Stays, UNCHANGED <<edges, raced>> PROVE (Pmf => EdgesJoinRows)'
<1> SUFFICES ASSUME Pmf, ~raced, NEW e \in edges
             PROVE  {e[1], e[2]} \subseteq Stored' /\ rows'[e[1]].space = rows'[e[2]].space
  BY DEF EdgesJoinRows, Pmf
<1>1. {e[1], e[2]} \subseteq Stored /\ rows[e[1]].space = rows[e[2]].space
  BY DEF PInv, EdgesJoinRows
<1> QED
  BY <1>1, StaysIn DEF PInv

LEMMA RowsStay ==
  ASSUME PInv, Evolves, edges' \subseteq edges PROVE RowsOK'
BY PairsGrow DEF PInv, RowsOK, Evolves

-----------------------------------------------------------------------------
(* Requests of users.                                                      *)

LEMMA Inserts ==
  ASSUME PInv, NEW c \in Contents, NEW s \in Spaces, NEW r \in {0, 1}, Insert(c, s, r),
         edited' = edited
  PROVE  /\ Settled /\ drawn + 1 \in Ids /\ drawn + 1 \in Stored' /\ drawn' = drawn + 1
         /\ rows'[drawn + 1] = [content |-> c, space |-> s, marked |-> FALSE, rank |-> r]
<1> DEFINE x == [content |-> c, space |-> s, marked |-> FALSE, rank |-> r]
<1>1. drawn < MaxIds /\ drawn' = drawn + 1 /\ rows' = [rows EXCEPT ![drawn + 1] = x]
  BY DEF Insert
<1>2. drawn \in Nat /\ drawn + 1 \in Ids /\ drawn' \in 0 .. MaxIds /\ drawn <= drawn'
  BY <1>1, Limits DEF PInv, RowsOK, Ids
<1>3. x \in Row /\ x # None
  <2>1. x \in Row
    BY DEF Row
  <2> QED
    BY <2>1, Limits
<1> HIDE DEF x
<1>4. rows' \in Rows /\ rows'[drawn + 1] = x /\ \A i \in Ids : i # drawn + 1 => rows'[i] = rows[i]
  BY <1>1, <1>2, <1>3 DEF PInv, RowsOK, Rows
<1>5. \A i \in 1 .. drawn : i \in Ids /\ i # drawn + 1
  BY <1>2, Limits DEF PInv, RowsOK, Ids
<1>6. \A i \in Stored : i \in 1 .. drawn /\ i \in Ids
  BY DEF PInv, RowsOK, Stored
<1>7. Stored' \subseteq 1 .. drawn' /\ drawn + 1 \in Stored'
  BY <1>1, <1>2, <1>3, <1>4, <1>6 DEF Stored
<1>8. Evolves
  BY <1>2, <1>4, <1>5, <1>7 DEF Evolves
<1> QED
  BY <1>1, <1>2, <1>4, <1>5, <1>6, <1>7, <1>8 DEF Settled, Stays, Stored, x

LEMMA CreateKeeps == ASSUME PInv, Create PROVE PInv'
<1>1. Settled
  BY Inserts DEF Create, Spaces, history
<1>2. UNCHANGED <<edges, export, file, import, raced>>
  BY DEF Create, history
<1> QED
  BY <1>1, <1>2, RowsStay, ExportStays, ImportStays, JoinedStays DEF PInv, Settled, Stays

LEMMA MarkRow ==
  ASSUME PInv, NEW i \in Stored, rows' = [rows EXCEPT ![i].marked = TRUE],
         UNCHANGED <<drawn, edited>>
  PROVE  Settled /\ rows'[i].marked
<1>1. rows[i] \in Row /\ i \in Ids
  BY RowsAre DEF PInv, RowsOK
<1>2. /\ rows'[i] = [rows[i] EXCEPT !.marked = TRUE] /\ rows'[i] \in Row
      /\ \A j \in Ids : j # i => rows'[j] = rows[j]
      /\ rows' \in Rows
  BY <1>1 DEF PInv, RowsOK, Rows, Row
<1>3. /\ rows'[i].content = rows[i].content /\ rows'[i].space = rows[i].space
      /\ rows'[i].rank = rows[i].rank /\ rows'[i].marked /\ rows'[i] # None /\ rows[i] # None
  <2>1. /\ rows'[i].content = rows[i].content /\ rows'[i].space = rows[i].space
        /\ rows'[i].rank = rows[i].rank /\ rows'[i].marked
    BY <1>1, <1>2 DEF Row
  <2>2. rows'[i] # None /\ rows[i] # None
    BY <1>1, <1>2, Limits
  <2> QED
    BY <2>1, <2>2
<1>4. Stored' \subseteq Stored /\ \A j \in Stored : j \in Ids /\ rows[j] # None
  BY <1>2, <1>3 DEF Stored
<1>5. \A j \in 1 .. drawn : j \in Ids
  BY Limits DEF PInv, RowsOK, Ids
<1>6. Evolves
  BY <1>2, <1>3, <1>4, <1>5, Limits DEF PInv, RowsOK, Evolves
<1> QED
  BY <1>2, <1>3, <1>4, <1>6 DEF Settled, Stays

LEMMA UpdateKeeps == ASSUME PInv, NEW i \in Stored, Update(i) PROVE PInv'
<1>1. PICK row \in Row :
        /\ row.space = rows[i].space /\ rows' = [rows EXCEPT ![i] = row]
        /\ export' = [export EXCEPT !.quiet = @ /\ row.rank = rows[i].rank]
        /\ edited' = IF row.content = rows[i].content /\ (rows[i].marked => row.marked)
                       THEN edited ELSE edited \cup {i}
        /\ UNCHANGED <<edges, drawn, file, import, raced>>
  BY DEF Update
<1>2. rows[i] \in Row /\ i \in Ids
  BY RowsAre DEF PInv, RowsOK
<1>3. rows'[i] = row /\ rows' \in Rows /\ \A j \in Ids : j # i => rows'[j] = rows[j]
  BY <1>1, <1>2 DEF PInv, RowsOK, Rows
<1>4. rows'[i] # None /\ rows[i] # None
  BY <1>2, <1>3, Limits
<1>5. Stored' \subseteq Stored /\ \A j \in Stored : j \in Ids /\ rows[j] # None
  BY <1>3, <1>4 DEF Stored
<1>6. \A j \in 1 .. drawn : j \in Ids
  BY Limits DEF PInv, RowsOK, Ids
<1>7. edited \subseteq edited' /\ (i \notin edited' => /\ row.content = rows[i].content
                                                       /\ rows[i].marked => row.marked)
  BY <1>1
<1>8. Stays
  <2>1. Evolves
    BY <1>1, <1>3, <1>4, <1>5, <1>6, <1>7, Limits DEF PInv, RowsOK, Evolves
  <2> QED
    BY <1>3, <1>4, <1>5, <2>1 DEF Stays
<1>9. ExportOK'
  <2>1. CASE export.quiet /\ row.rank = rows[i].rank
    <3>1. export' = export
      BY <1>1, <2>1 DEF PInv, ExportOK, Export
    <3>2. Settled
      BY <1>3, <1>5, <1>8, <2>1 DEF Settled
    <3> QED
      BY <1>1, <3>1, <3>2, ExportStays
  <2>2. CASE ~(export.quiet /\ row.rank = rows[i].rank)
    <3>1. export' = [export EXCEPT !.quiet = FALSE]
      BY <1>1, <2>2 DEF PInv, ExportOK, Export
    <3> QED
      BY <1>1, <1>8, <3>1, LoudExport DEF Stays
  <2> QED
    BY <2>1, <2>2
<1> QED
  BY <1>1, <1>8, <1>9, RowsStay, ImportStays, JoinedStays DEF PInv, Stays

LEMMA DeleteKeeps == ASSUME PInv, NEW i \in Stored, Delete(i) PROVE PInv'
<1>1. /\ rows' = [rows EXCEPT ![i] = None] /\ export' = [export EXCEPT !.quiet = FALSE]
      /\ edges' = edges \ Touching(i) /\ raced' = (raced \/ import.pc # "idle")
      /\ UNCHANGED <<drawn, file, import, edited>>
  BY DEF Delete
<1>2. i \in Ids /\ rows' \in Rows /\ rows'[i] = None /\ \A j \in Ids : j # i => rows'[j] = rows[j]
  BY <1>1, RowsAre DEF PInv, RowsOK, Rows
<1>3. \A j \in 1 .. drawn : j \in Ids
  BY Limits DEF PInv, RowsOK, Ids
<1>4. Stored' \subseteq Stored
  BY <1>2 DEF Stored
<1>5. Evolves
  BY <1>1, <1>2, <1>3, <1>4, Limits DEF PInv, RowsOK, Evolves
<1>6. ExportOK'
  BY <1>1, <1>5, LoudExport
<1>7. ImportOK'
  <2>1. Importing(import) /\ Pairs' = Pairs
    BY <1>1 DEF PInv, ImportOK, Pairs
  <2>2. import.pc # "idle" => ~Safe(import)'
    BY <1>1 DEF Safe
  <2> QED
    BY <1>1, <2>1, <2>2 DEF ImportOK, Importing
<1>8. (Pmf => EdgesJoinRows)'
  <2> SUFFICES ASSUME Pmf, ~raced', NEW e \in edges'
               PROVE  {e[1], e[2]} \subseteq Stored' /\ rows'[e[1]].space = rows'[e[2]].space
    BY DEF EdgesJoinRows, Pmf
  <2>1. e \in edges /\ e[1] # i /\ e[2] # i
    BY <1>1 DEF Touching
  <2>2. {e[1], e[2]} \subseteq Stored /\ rows[e[1]].space = rows[e[2]].space
    BY <1>1, <2>1 DEF PInv, EdgesJoinRows
  <2> QED
    BY <1>2, <2>1, <2>2 DEF Stored
<1> QED
  BY <1>1, <1>5, <1>6, <1>7, <1>8, RowsStay DEF PInv

-----------------------------------------------------------------------------
(* The export.                                                             *)

LEMMA ExportStartKeeps == ASSUME PInv, ExportStart PROVE PInv'
<1>1. /\ export' = [NoExport EXCEPT !.pc = "page", !.before = In("source")]
      /\ file = None /\ UNCHANGED <<rows, edges, drawn, file, import, raced, edited>>
  BY DEF ExportStart, history
<1>2. Settled
  BY <1>1, NothingMoves DEF PInv
<1>3. /\ export'.pc = "page" /\ export'.out = NoExport.out /\ export'.before = In("source")
      /\ export' \in Export /\ FileOK(NoExport.out)'
  BY <1>1, NoExportIs, InIsFinite DEF NoExport, Export
<1>4. In("source")' = In("source") /\ Len(NoExport.out.entries) = 0
  BY <1>1, NoExportIs DEF In, Stored
<1>5. \A i \in export'.before : Exported(i, export.out.entries)'
  <2> SUFFICES ASSUME NEW i \in In("source") PROVE Exported(i, export.out.entries)'
    BY <1>3
  <2>1. Place(i)' \in Nat
    BY <1>2, PlaceGrows DEF PInv
  <2> QED
    BY <1>3, <1>4, <2>1 DEF Exported
<1>6. ExportOK'
  BY <1>1, <1>3, <1>4, <1>5 DEF ExportOK, PInv
<1> QED
  BY <1>1, <1>2, <1>6, RowsStay, ImportStays, JoinedStays DEF PInv, Settled, Stays

(* A page holds the rows of its places, and all that follow if it is short. *)
LEMMA PageIs ==
  ASSUME RowsOK, NEW k \in Nat
  PROVE  /\ Page(k) \in Seq(In("source")) /\ Len(Page(k)) \in Nat
         /\ \A i \in In("source") : Place(i) >= k =>
              \/ \E p \in 1 .. Len(Page(k)) : Page(k)[p] = i
              \/ ~(Len(Page(k)) < PageSize) /\ Place(i) >= k + Len(Page(k))
<1>1. PICK n \in Nat : n = Len(Sorted)
  BY SortedIs DEF RowsOK
<1>2. PICK hi \in Nat : hi = IF k + PageSize < n THEN k + PageSize ELSE n
  <2>1. (IF k + PageSize < n THEN k + PageSize ELSE n) \in Nat
    BY Limits
  <2> QED
    BY <2>1
<1>3. PICK s : s = Page(k)
  OBVIOUS
<1>4. s = SubSeq(Sorted, k + 1, hi)
  BY <1>1, <1>2, <1>3 DEF Page
<1>5. \A j \in 1 .. n : Sorted[j] \in In("source")
  BY <1>1, SortedIs, ElementOfSeq DEF RowsOK
<1>6. \A j \in k + 1 .. hi : Sorted[j] \in In("source")
  BY <1>2, <1>5, Limits
<1>7. /\ s \in Seq(In("source"))
      /\ Len(s) = IF k + 1 <= hi THEN hi - k ELSE 0
      /\ \A j \in 1 .. hi - k : s[j] = Sorted[k + j]
  <2>1. /\ s \in Seq(In("source"))
        /\ Len(s) = IF k + 1 <= hi THEN hi - (k + 1) + 1 ELSE 0
        /\ \A j \in 1 .. hi - (k + 1) + 1 : s[j] = Sorted[k + 1 + j - 1]
    BY <1>4, <1>6, SubSeqProperties
  <2>2. hi - (k + 1) + 1 = hi - k /\ \A j \in 1 .. hi - k : k + 1 + j - 1 = k + j
    OBVIOUS
  <2> QED
    BY <2>1, <2>2
<1>8. ASSUME NEW i \in In("source"), Place(i) >= k
      PROVE  \/ \E p \in 1 .. Len(s) : s[p] = i
             \/ ~(Len(s) < PageSize) /\ Place(i) >= k + Len(s)
  <2>1. PICK p \in Nat : p = Place(i)
    BY PlaceIs
  <2>2. p + 1 \in 1 .. n /\ Sorted[p + 1] = i
    BY <1>1, <2>1, SortedIs DEF RowsOK
  <2>3. CASE p + 1 <= hi
    <3>1. PICK j \in Nat : j = p + 1 - k /\ j \in 1 .. hi - k /\ k + j = p + 1
      BY <1>8, <2>1, <2>3
    <3>2. j \in 1 .. Len(s) /\ s[j] = i
      BY <1>7, <2>2, <3>1
    <3> QED
      BY <3>2
  <2>4. CASE hi < p + 1
    <3>1. k + PageSize < n /\ hi = k + PageSize
      BY <1>2, <2>2, <2>4
    <3>2. Len(s) = PageSize
      BY <1>7, <3>1, Limits
    <3> QED
      BY <2>1, <2>4, <3>1, <3>2, Limits
  <2> QED
    BY <2>3, <2>4
<1>9. Len(s) \in Nat
  BY <1>7
<1> QED
  BY <1>3, <1>7, <1>8, <1>9

LEMMA EntryOfIs ==
  ASSUME RowsOK, NEW i \in In("source")
  PROVE  /\ EntryOf(i) \in Entry /\ EntryOf(i).id = i /\ i \in 1 .. drawn
         /\ EntryOf(i).content = rows[i].content /\ EntryOf(i).marked = rows[i].marked
         /\ rows[i].space = "source"
<1>1. i \in Stored /\ rows[i].space = "source" /\ rows[i] \in Row /\ i \in Ids
  BY RowsAre DEF RowsOK, In
<1> QED
  BY <1>1 DEF EntryOf, Entry, Row, RowsOK

LEMMA FunctionIsSeq ==
  ASSUME NEW S, NEW n \in Nat, NEW f \in [1 .. n -> S] PROVE f \in Seq(S) /\ Len(f) = n
<1>1. f \in Seq(S)
  BY SeqDef
<1>2. DOMAIN f = 1 .. Len(f) /\ Len(f) \in Nat
  BY <1>1, LenProperties
<1> QED
  BY <1>1, <1>2

(* Entries of a page behind those written so far.                          *)
EntriesOf(page) == [p \in DOMAIN page |-> EntryOf(page[p])]

LEMMA Appended ==
  ASSUME RowsOK, NEW es \in Seq(Entry), Faithful(es, edited), NEW page \in Seq(In("source")),
         NEW new, new = es \o EntriesOf(page)
  PROVE  /\ new \in Seq(Entry) /\ Len(new) = Len(es) + Len(page)
         /\ Faithful(new, edited \ ToSet(page))
         /\ \A i \in Ids : Has(es, i) => Has(new, i)
         /\ \A p \in 1 .. Len(page) : Has(new, page[p])
<1>1. PICK more : more = [p \in DOMAIN page |-> EntryOf(page[p])] /\ more = EntriesOf(page)
  BY DEF EntriesOf
<1>2. new = es \o more
  BY <1>1
<1>3. /\ Len(page) \in Nat /\ DOMAIN page = 1 .. Len(page)
      /\ \A p \in 1 .. Len(page) : page[p] \in In("source")
  BY LenProperties, ElementOfSeq
<1>4. \A p \in 1 .. Len(page) :
        /\ more[p] \in Entry /\ more[p].id = page[p] /\ page[p] \in 1 .. drawn
        /\ more[p].content = rows[page[p]].content /\ more[p].marked = rows[page[p]].marked
        /\ rows[page[p]].space = "source"
  BY <1>1, <1>3, EntryOfIs
<1>5. more \in Seq(Entry) /\ Len(more) = Len(page)
  <2>1. more \in [1 .. Len(page) -> Entry]
    BY <1>1, <1>3, <1>4
  <2> QED
    BY <1>3, <2>1, FunctionIsSeq
<1>6. Len(es) \in Nat /\ DOMAIN es = 1 .. Len(es)
  BY LenProperties
<1>7. PICK n \in Nat : n = Len(es)
  BY <1>6
<1>8. PICK m \in Nat : m = Len(page)
  BY <1>3
<1>9. new \in Seq(Entry) /\ Len(new) = n + m
  <2>1. new \in Seq(Entry) /\ Len(new) = Len(es) + Len(more)
    BY <1>2, <1>5, ConcatProperties
  <2> QED
    BY <1>5, <1>7, <1>8, <2>1
<1>10. DOMAIN new = 1 .. n + m
  BY <1>9, LenProperties
<1>11. /\ \A p \in 1 .. n : new[p] = es[p]
       /\ \A p \in n + 1 .. n + m : new[p] = more[p - n] /\ p - n \in 1 .. m
       /\ \A p \in 1 .. m : new[n + p] = more[p] /\ n + p \in 1 .. n + m
  <2>1. \A p \in 1 .. n + m : new[p] = IF p <= n THEN es[p] ELSE more[p - n]
    <3>1. \A p \in 1 .. Len(es) + Len(more) :
            new[p] = IF p <= Len(es) THEN es[p] ELSE more[p - Len(es)]
      BY <1>2, <1>5, ConcatProperties
    <3> QED
      BY <1>5, <1>7, <1>8, <3>1
  <2>2. ASSUME NEW p \in 1 .. n PROVE new[p] = es[p]
    <3>1. p \in 1 .. n + m /\ p <= n
      OBVIOUS
    <3> QED
      BY <2>1, <3>1
  <2>3. ASSUME NEW p \in n + 1 .. n + m PROVE new[p] = more[p - n] /\ p - n \in 1 .. m
    <3>1. p \in 1 .. n + m /\ ~(p <= n) /\ p - n \in 1 .. m
      OBVIOUS
    <3> QED
      BY <2>1, <3>1
  <2>4. ASSUME NEW p \in 1 .. m PROVE new[n + p] = more[p] /\ n + p \in 1 .. n + m
    <3>1. n + p \in n + 1 .. n + m /\ (n + p) - n = p
      OBVIOUS
    <3>2. new[n + p] = more[(n + p) - n]
      BY <2>3, <3>1
    <3> QED
      BY <3>1, <3>2
  <2> QED
    BY <2>2, <2>3, <2>4
<1>12. \A p \in 1 .. Len(page) : Said(rows[page[p]], page[p], new)
  <2> SUFFICES ASSUME NEW p \in 1 .. Len(page) PROVE Said(rows[page[p]], page[p], new)
    OBVIOUS
  <2>1. n + p \in DOMAIN new /\ new[n + p] = more[p]
    BY <1>8, <1>10, <1>11
  <2>2. /\ new[n + p].id = page[p] /\ new[n + p].content = rows[page[p]].content
        /\ new[n + p].marked = rows[page[p]].marked
    BY <1>4, <2>1
  <2> QED
    BY <2>1, <2>2 DEF Said
<1>13. ASSUME NEW row, NEW i, Said(row, i, es) PROVE Said(row, i, new)
  <2>1. PICK k \in 1 .. n : /\ es[k].id = i /\ es[k].content = row.content
                            /\ es[k].marked => row.marked
    BY <1>6, <1>7, <1>13 DEF Said
  <2>2. k \in DOMAIN new /\ new[k] = es[k]
    BY <1>10, <1>11
  <2> QED
    BY <2>1, <2>2 DEF Said
<1>14. Faithful(new, edited \ ToSet(page))
  <2> SUFFICES ASSUME NEW p \in DOMAIN new, NEW i, i = new[p].id
               PROVE  /\ i \in 1 .. drawn
                      /\ rows[i] # None =>
                           /\ rows[i].space = "source"
                           /\ i \notin edited \ ToSet(page) => Said(rows[i], i, new)
    BY DEF Faithful
  <2>1. \A q \in 1 .. Len(page) : page[q] = i => Said(rows[i], i, new)
    BY <1>12
  <2>2. i \in ToSet(page) => \E q \in 1 .. Len(page) : page[q] = i
    BY <1>3 DEF ToSet
  <2>3. CASE p \in 1 .. n
    <3>1. i = es[p].id /\ p \in DOMAIN es
      BY <1>6, <1>7, <1>11, <2>3
    <3>2. /\ i \in 1 .. drawn
          /\ rows[i] # None => /\ rows[i].space = "source"
                               /\ i \notin edited => Said(rows[i], i, es)
      BY <3>1 DEF Faithful
    <3> QED
      BY <1>13, <2>1, <2>2, <3>2
  <2>4. CASE p \in n + 1 .. n + m
    <3>1. new[p] = more[p - n] /\ p - n \in 1 .. Len(page)
      BY <1>8, <1>11, <2>4
    <3>2. i = page[p - n] /\ i \in 1 .. drawn /\ rows[i].space = "source"
      BY <1>4, <3>1
    <3> QED
      BY <2>1, <3>1, <3>2
  <2> QED
    BY <1>10, <2>3, <2>4
<1>15. \A i \in Ids : Has(es, i) => Has(new, i)
  BY <1>6, <1>7, <1>10, <1>11 DEF Has
<1>16. ASSUME NEW p \in 1 .. Len(page) PROVE Has(new, page[p])
  <2>1. n + p \in DOMAIN new /\ new[n + p].id = page[p]
    BY <1>4, <1>8, <1>10, <1>11
  <2> QED
    BY <2>1 DEF Has
<1> QED
  BY <1>1, <1>2, <1>7, <1>8, <1>9, <1>14, <1>15, <1>16

(* A step of the export, and what its last one writes.                     *)
LEMMA ExportPageIs ==
  ASSUME PInv, ExportPage
  PROVE  /\ export' \in Export /\ FileOK(export.out)'
         /\ file' \in File \cup {None} /\ (file' # None => FileOK(file)')
         /\ export'.pc = "page" =>
              /\ file' = None /\ export'.quiet = export.quiet /\ export'.before = export.before
              /\ export.quiet => \A i \in export.before : Exported(i, export'.out.entries)
         /\ file' # None => export'.pc = "idle"
         /\ file' # file /\ export.quiet =>
              \A i \in export.before : Has(file'.entries, i)
<1>1. RowsOK /\ ExportOK /\ export \in Export /\ FileOK(export.out) /\ export.pc = "page"
      /\ file = None
  BY DEF PInv, ExportOK, ExportPage
<1>2. PICK es : es = export.out.entries
  OBVIOUS
<1>3. es \in Seq(Entry) /\ Faithful(es, edited) /\ export.out.rels \subseteq Pairs /\ Len(es) \in Nat
  BY <1>1, <1>2, LenProperties DEF FileOK, File
<1>4. PICK page : page = Page(Len(es))
  OBVIOUS
<1>5. /\ page \in Seq(In("source")) /\ Len(page) \in Nat
      /\ \A i \in In("source") : Place(i) >= Len(es) =>
           \/ \E p \in 1 .. Len(page) : page[p] = i
           \/ ~(Len(page) < PageSize) /\ Place(i) >= Len(es) + Len(page)
  BY <1>1, <1>3, <1>4, PageIs
<1>6. PICK new : new = es \o EntriesOf(page)
  OBVIOUS
<1>7. /\ new \in Seq(Entry) /\ Len(new) = Len(es) + Len(page)
      /\ Faithful(new, edited \ ToSet(page))
      /\ \A i \in Ids : Has(es, i) => Has(new, i)
      /\ \A p \in 1 .. Len(page) : Has(new, page[p])
  BY <1>1, <1>3, <1>5, <1>6, Appended
<1>8. PICK rels : rels = export.out.rels \cup UNION {Touching(i) : i \in ToSet(page)}
  OBVIOUS
<1>9. rels \subseteq Pairs
  BY <1>1, <1>3, <1>8 DEF Touching, RowsOK
<1>10. PICK out : out = [entries |-> new, rels |-> rels]
  OBVIOUS
<1>11. /\ UNCHANGED <<rows, edges, drawn>> /\ edited' = edited \ ToSet(page)
       /\ IF Len(page) < PageSize THEN export' = NoExport /\ file' = out
          ELSE export' = [export EXCEPT !.out = out] /\ UNCHANGED file
  BY <1>2, <1>4, <1>6, <1>8, <1>10 DEF ExportPage, EntriesOf
<1>12. out \in File /\ out.entries = new /\ out.rels = rels
  <2>1. Pairs \subseteq Edges
    BY <1>1, Limits DEF Pairs, Edges, Ids, RowsOK
  <2>2. rels \in SUBSET Edges
    BY <1>9, <2>1
  <2> QED
    BY <1>7, <1>10, <2>2 DEF File
<1>13. PICK ed : ed = edited \ ToSet(page)
  OBVIOUS
<1>14. FileOK(out)'
  <2>1. Faithful(new, ed) /\ edited' = ed
    BY <1>7, <1>11, <1>13
  <2>2. Faithful(new, edited)'
    BY <1>11, <2>1 DEF Faithful
  <2> QED
    BY <1>9, <1>11, <1>12, <2>2 DEF FileOK, Pairs
<1>15. out # None
  BY <1>12, Limits
<1>16. ASSUME export.quiet, NEW i \in export.before
       PROVE  \/ Has(new, i)
              \/ ~(Len(page) < PageSize) /\ Place(i) >= Len(new)
  <2>1. i \in In("source") /\ Exported(i, es)
    BY <1>1, <1>2, <1>16 DEF ExportOK
  <2> QED
    <3>1. i \in Ids
      BY <2>1, InIsFinite
    <3> QED
      BY <1>5, <1>7, <2>1, <3>1 DEF Exported
<1>17. CASE Len(page) < PageSize
  <2>1. export' = NoExport /\ file' = out
    BY <1>11, <1>17
  <2>2. export.quiet => \A i \in export.before : Has(new, i)
    BY <1>16, <1>17
  <2>3. export'.pc = "idle" /\ export' \in Export /\ FileOK(export.out)'
    BY <2>1, NoExportIs DEF FileOK, Faithful
  <2> QED
    BY <1>12, <1>14, <2>1, <2>2, <2>3
<1>18. CASE ~(Len(page) < PageSize)
  <2>1. export' = [export EXCEPT !.out = out] /\ file' = None
    BY <1>1, <1>11, <1>18
  <2>2. /\ export' \in Export /\ export'.out = out
        /\ export'.quiet = export.quiet /\ export'.before = export.before
    BY <1>1, <1>12, <2>1 DEF Export
  <2>3. FileOK(export.out)'
    BY <1>14, <2>2
  <2>4. export.quiet => \A i \in export.before : Exported(i, new)
    BY <1>16 DEF Exported
  <2> QED
    BY <1>1, <1>12, <2>1, <2>2, <2>3, <2>4
<1> QED
  BY <1>17, <1>18

LEMMA ExportPageKeeps == ASSUME PInv, ExportPage PROVE PInv'
<1>1. UNCHANGED <<rows, edges, drawn, import, raced>> /\ export.pc = "page"
  BY DEF ExportPage
<1>2. RowsOK' /\ (Pmf => EdgesJoinRows)'
  BY <1>1 DEF PInv, RowsOK, Rows, Stored, Pairs, Pmf, EdgesJoinRows
<1>3. ExportOK'
  <2>1. ASSUME export'.pc = "page", export'.quiet
        PROVE  /\ export'.before \subseteq In("source")'
               /\ \A i \in export'.before : Exported(i, export.out.entries)'
    <3>1. export.quiet /\ export'.before = export.before
      BY <2>1, ExportPageIs
    <3>2. export.before \subseteq In("source") /\ In("source")' = In("source")
      BY <1>1, <3>1 DEF PInv, ExportOK, In, Stored
    <3>3. ASSUME NEW i \in export.before PROVE Exported(i, export.out.entries)'
      <4>1. PICK new : new = export'.out.entries
        OBVIOUS
      <4>2. Exported(i, new)
        BY <2>1, <3>1, <4>1, ExportPageIs
      <4>3. Place(i)' = Place(i)
        BY <1>1 DEF Place, In, Stored, Order
      <4> QED
        BY <4>1, <4>2, <4>3 DEF Exported
    <3> QED
      BY <3>1, <3>2, <3>3
  <2> QED
    BY <2>1, ExportPageIs DEF ExportOK
<1>4. ImportOK'
  <2>1. Importing(import) /\ Pairs' = Pairs
    BY <1>1 DEF PInv, ImportOK, Pairs
  <2>2. import.pc = "idle"
    BY <1>1, <2>1 DEF Importing, PInv, ExportOK
  <2> QED
    BY <1>1, <2>1, <2>2 DEF ImportOK, Importing
<1> QED
  BY <1>2, <1>3, <1>4 DEF PInv

-----------------------------------------------------------------------------
(* The import: what holds of it when a call has returned, before it goes   *)
(* on to the next entry or relation.                                       *)

Known(r) ==
  /\ r \in Import
  /\ \A i \in Ids : r.to[i] # None => r.to[i] <= drawn
  /\ r.here # None => r.here <= drawn
  /\ r.rels \subseteq Pairs
  /\ file # None /\ r.mode \in Modes
  /\ Safe(r) => Progress(r)

(* And when it ends without an error: there is nothing left.               *)
Ends(r) == r.pc = "idle" /\ r.ok =>
             r.left = <<>> /\ r.rels = {} /\ (Safe(r) => Progress(r))

LEMMA NextEntryIs ==
  ASSUME NEW r \in Import
  PROVE  LET q == NextEntry(r)
         IN /\ q \in Import /\ q.mode = r.mode /\ q.left = r.left /\ q.to = r.to
            /\ q.rels = r.rels /\ q.ok = r.ok /\ q.here \in {r.here, None}
            /\ r.left = <<>> => q.pc = IF r.rels = {} THEN "idle" ELSE "relate"
            /\ r.left # <<>> => q.pc = IF r.mode.byId THEN "find" ELSE "create"
<1>1. CASE r.left = <<>>
  <2>1. NextEntry(r) = [r EXCEPT !.pc = IF r.rels = {} THEN "idle" ELSE "relate"]
    BY <1>1 DEF NextEntry, Relating
  <2> QED
    BY <1>1, <2>1 DEF Import
<1>2. CASE r.left # <<>>
  <2>1. NextEntry(r) = [r EXCEPT !.pc = IF r.mode.byId THEN "find" ELSE "create", !.here = None]
    BY <1>2 DEF NextEntry
  <2> QED
    BY <1>2, <2>1 DEF Import
<1> QED
  BY <1>1, <1>2

LEMMA Continues ==
  ASSUME NEW r, Known(r)', import' = NextEntry(r)
  PROVE  ImportOK' /\ Ends(import)' /\ import'.mode = r.mode
<1>1. PICK q : q = import'
  OBVIOUS
<1>2. /\ q \in Import /\ q.mode = r.mode /\ q.left = r.left /\ q.to = r.to
      /\ q.rels = r.rels /\ q.ok = r.ok /\ q.here \in {r.here, None}
      /\ r.left = <<>> => q.pc = IF r.rels = {} THEN "idle" ELSE "relate"
      /\ r.left # <<>> => q.pc = IF r.mode.byId THEN "find" ELSE "create"
  BY <1>1, NextEntryIs DEF Known
<1>3. Safe(q)' => Progress(q)'
  <2>1. Safe(r)' => Progress(r)'
    BY DEF Known
  <2>2. Safe(q)' => Safe(r)'
    BY <1>2 DEF Safe
  <2>3. ASSUME Progress(r)' PROVE Progress(q)'
    BY <1>2, <2>3 DEF Progress, Restored
  <2> QED
    BY <2>1, <2>2, <2>3
<1>4. Importing(q)'
  BY <1>2, <1>3 DEF Known, Importing
<1>5. Ends(q)'
  BY <1>2, <1>3 DEF Ends
<1> QED
  BY <1>1, <1>2, <1>4, <1>5 DEF ImportOK, Importing, Ends

(* The entry at the head of those left.                                    *)
LEMMA HeadIs ==
  ASSUME PInv, import.left # <<>>
  PROVE  /\ Head(import.left) \in Entry /\ Tail(import.left) \in Seq(Entry)
         /\ import \in Import /\ import.pc # "idle" /\ import.mode \in AllModes
         /\ import.mode \in Modes /\ file # None
<1>1. Importing(import) /\ import \in Import /\ import.left \in Seq(Entry)
  BY DEF PInv, ImportOK, Importing, Import
<1>2. Head(import.left) \in Entry /\ Tail(import.left) \in Seq(Entry)
  BY <1>1, HeadTailProperties
<1> QED
  BY <1>1, <1>2, Limits DEF Importing

LEMMA AfterTail ==
  ASSUME NEW es \in Seq(Entry), NEW left \in Seq(Entry), left # <<>>, NEW n \in Nat,
         After(left, n, es)
  PROVE  /\ After(Tail(left), n + 1, es) /\ Head(left) = es[n + 1]
         /\ n + 1 \in DOMAIN es /\ 1 .. n + 1 \subseteq DOMAIN es
<1>1. Len(left) \in Nat \ {0} /\ Len(es) \in Nat /\ DOMAIN es = 1 .. Len(es)
  BY EmptySeq, LenProperties
<1>2. /\ Len(Tail(left)) = Len(left) - 1
      /\ \A i \in 1 .. Len(Tail(left)) : Tail(left)[i] = left[i + 1]
  BY HeadTailProperties
<1>3. n + Len(left) = Len(es) /\ \A j \in 1 .. Len(left) : left[j] = es[j + n]
  BY DEF After
<1>4. Head(left) = left[1]
  OBVIOUS
<1>5. Head(left) = es[n + 1] /\ n + 1 \in DOMAIN es /\ 1 .. n + 1 \subseteq DOMAIN es
  BY <1>1, <1>3, <1>4
<1>6. ASSUME NEW j \in 1 .. Len(Tail(left)) PROVE Tail(left)[j] = es[j + (n + 1)]
  <2>1. j + 1 \in 1 .. Len(left) /\ (j + 1) + n = j + (n + 1)
    BY <1>1, <1>2
  <2> QED
    BY <1>2, <1>3, <2>1
<1>7. n + 1 + Len(Tail(left)) = Len(es)
  BY <1>1, <1>2, <1>3
<1> QED
  BY <1>5, <1>6, <1>7 DEF After

(* What the memory i must be for the entry e to be imported.               *)
Fits(m, e, i) ==
  /\ rows[i] # None /\ rows[i].space = m.into
  /\ i \notin edited => Said(rows[i], e.id, file.entries)

(* The entry is done: the memory i is its copy.                            *)
LEMMA DoneKnown ==
  ASSUME PInv, Stays, edges \subseteq edges', UNCHANGED <<file, raced>>,
         import.left # <<>>, NEW i \in Ids, i <= drawn',
         NEW m, m = import.mode, NEW e, e = Head(import.left), Safe(import) => Fits(m, e, i)',
         import' = Done(import, i)
  PROVE  ImportOK' /\ Ends(import)' /\ import'.mode = import.mode
<1>1. PICK r : r = import
  OBVIOUS
<1>2. e = Head(r.left) /\ m = r.mode
  BY <1>1
<1>3. /\ r \in Import /\ e \in Entry /\ e.id \in Ids /\ Tail(r.left) \in Seq(Entry)
      /\ r.left \in Seq(Entry) /\ r.left # <<>>
      /\ r.mode \in AllModes /\ r.mode \in Modes /\ file # None /\ file' # None
  BY <1>1, <1>2, HeadIs DEF Import, Entry
<1>4. PICK x : x = [r EXCEPT !.left = Tail(r.left), !.to[e.id] = i]
  OBVIOUS
<1>5. /\ x \in Import /\ x.mode = r.mode /\ x.ok = r.ok /\ x.rels = r.rels
      /\ x.left = Tail(r.left) /\ x.to = [r.to EXCEPT ![e.id] = i] /\ x.here = r.here
  BY <1>3, <1>4 DEF Import
<1>6. x.to[e.id] = i /\ \A j \in Ids : j # e.id => x.to[j] = r.to[j]
  BY <1>3, <1>5 DEF Import
<1>7. import' = NextEntry(x)
  BY <1>1, <1>2, <1>4 DEF Done
<1>8. Importing(r) /\ RowsOK /\ ExportOK
  BY <1>1 DEF PInv, ImportOK, Importing
<1>9. /\ \A j \in Ids : x.to[j] # None => x.to[j] <= drawn'
      /\ x.here # None => x.here <= drawn'
      /\ x.rels \subseteq Pairs'
  <2>1. ASSUME NEW j \in Ids, r.to[j] # None PROVE r.to[j] <= drawn'
    <3>1. r.to[j] \in Nat /\ r.to[j] <= drawn
      BY <1>3, <1>8, <2>1, Limits DEF Import, Importing
    <3> QED
      BY <1>8, <3>1, Limits DEF Stays, Evolves, RowsOK
  <2>2. \A j \in Ids : x.to[j] # None => x.to[j] <= drawn'
    BY <1>6, <2>1
  <2>3. ASSUME r.here # None PROVE r.here <= drawn'
    <3>1. r.here \in Nat /\ r.here <= drawn
      BY <1>3, <1>8, <2>3, Limits DEF Import, Importing
    <3> QED
      BY <1>8, <3>1, Limits DEF Stays, Evolves, RowsOK
  <2> QED
    BY <1>5, <1>8, <2>2, <2>3, PairsGrow DEF Importing, Stays
<1>10. ASSUME Safe(x)' PROVE Progress(x)'
  <2>1. Safe(r) /\ Progress(r)
    <3>1. Safe(r) /\ r.pc # "idle"
      BY <1>1, <1>5, <1>10, HeadIs DEF Safe
    <3> QED
      BY <1>8, <3>1 DEF Importing
  <2>2. Progress(r)'
    BY <1>3, <2>1, ProgressStays
  <2>3. Fits(r.mode, e, i)'
    BY <1>1, <1>2, <2>1
  <2>4. \A j \in Ids : x.to[j] # None =>
          rows'[x.to[j]] # None /\ rows'[x.to[j]].space = x.mode.into
    BY <1>5, <1>6, <2>2, <2>3 DEF Progress, Fits
  <2>5. PICK es : es = file.entries
    OBVIOUS
  <2>6. es \in Seq(Entry) /\ file' = file
    BY <1>3, <1>8, <2>5, EntriesAre
  <2>7. PICK n \in Nat :
          /\ After(r.left, n, es)
          /\ r.ok => \A j \in 1 .. n : Restored(r, es[j])'
    <3>1. PICK n \in Nat :
            /\ After(r.left, n, file.entries)'
            /\ r.ok => \A j \in 1 .. n : Restored(r, file.entries[j])'
      BY <2>2 DEF Progress
    <3>2. After(r.left, n, es)
      BY <2>5, <2>6, <3>1 DEF After
    <3>3. r.ok => \A j \in 1 .. n : Restored(r, es[j])'
      BY <2>5, <2>6, <3>1 DEF Restored
    <3> QED
      BY <3>2, <3>3
  <2>8. /\ After(x.left, n + 1, es) /\ e = es[n + 1]
        /\ n + 1 \in DOMAIN es /\ 1 .. n + 1 \subseteq DOMAIN es
    BY <1>2, <1>3, <1>5, <2>6, <2>7, AfterTail
  <2>9. ASSUME x.ok, NEW j \in 1 .. n + 1 PROVE Restored(x, es[j])'
    <3>1. PICK f : f = es[j]
      OBVIOUS
    <3>2. f \in Entry /\ f.id \in Ids /\ j \in DOMAIN es
      <4>1. j \in DOMAIN es /\ DOMAIN es = 1 .. Len(es)
        BY <2>6, <2>8, LenProperties
      <4>2. f \in Entry
        BY <2>6, <3>1, <4>1, ElementOfSeq
      <4> QED
        BY <4>1, <4>2 DEF Entry
    <3>3. CASE f.id = e.id
      <4>1. x.to[f.id] = i /\ i # None
        BY <1>6, <3>3, Limits
      <4>2. Restored(x, f)'
        BY <1>5, <2>3, <3>3, <4>1 DEF Restored, Fits
      <4> QED
        BY <3>1, <4>2 DEF Restored
    <3>4. CASE f.id # e.id
      <4>1. j \in 1 .. n
        BY <2>8, <3>1, <3>4
      <4>2. Restored(r, f)'
        BY <1>5, <2>7, <2>9, <3>1, <4>1 DEF Restored
      <4>3. Restored(x, f)'
        BY <1>5, <1>6, <3>2, <3>4, <4>2 DEF Restored
      <4> QED
        BY <3>1, <4>3 DEF Restored
    <3> QED
      BY <3>3, <3>4
  <2>10. x.rels = file.rels
    BY <1>3, <1>5, <2>2, <2>6 DEF Progress
  <2>11. /\ n + 1 \in Nat /\ After(x.left, n + 1, file.entries)'
         /\ x.ok => \A j \in 1 .. n + 1 : Restored(x, file.entries[j])'
    <3>1. After(x.left, n + 1, file.entries)'
      BY <2>5, <2>6, <2>8 DEF After
    <3>2. x.ok => \A j \in 1 .. n + 1 : Restored(x, file.entries[j])'
      BY <2>5, <2>6, <2>9 DEF Restored
    <3> QED
      BY <3>1, <3>2
  <2>12. \E k \in Nat :
           /\ After(x.left, k, file.entries)'
           /\ x.ok => \A j \in 1 .. k : Restored(x, file.entries[j])'
    BY <2>11
  <2>13. x.ok => \A f \in file'.rels \ x.rels : <<x.to[f[1]], x.to[f[2]]>> \in edges'
    BY <2>6, <2>10
  <2> QED
    BY <2>4, <2>6, <2>10, <2>12, <2>13 DEF Progress
<1>11. Known(x)'
  BY <1>3, <1>5, <1>9, <1>10 DEF Known
<1> QED
  BY <1>1, <1>5, <1>7, <1>11, Continues

LEMMA Goes ==
  ASSUME PInv, Settled, UNCHANGED <<edges, export, file, raced>>, ImportOK' PROVE PInv'
BY RowsStay, ExportStays, JoinedStays DEF PInv, Settled, Stays

(* The entry at the head is one of the file; the memory at its old id says *)
(* what the file says of it.                                               *)
LEMMA HeadIsFaithful ==
  ASSUME PInv, import.left # <<>>, Safe(import)
  PROVE  LET e == Head(import.left)
         IN /\ \E k \in DOMAIN file.entries : file.entries[k] = e
            /\ rows[e.id] # None =>
                 /\ rows[e.id].space = "source"
                 /\ e.id \notin edited => Said(rows[e.id], e.id, file.entries)
<1>1. Importing(import) /\ import.left \in Seq(Entry) /\ ExportOK
  BY HeadIs DEF PInv, ImportOK, Import
<1>2. Progress(import)
  BY <1>1, HeadIs DEF Importing
<1>3. PICK es : es = file.entries
  OBVIOUS
<1>4. es \in Seq(Entry) /\ Faithful(es, edited)
  BY <1>1, <1>3, HeadIs, EntriesAre DEF FileOK
<1>5. PICK n \in Nat : After(import.left, n, es)
  BY <1>2, <1>3 DEF Progress
<1>6. Head(import.left) = es[n + 1] /\ n + 1 \in DOMAIN es
  BY <1>1, <1>4, <1>5, AfterTail
<1> QED
  BY <1>3, <1>4, <1>6 DEF Faithful

LEMMA ModesAre ==
  ASSUME NEW m \in AllModes
  PROVE  /\ m.into \in Spaces /\ m.byId \in BOOLEAN /\ (m.byId => m.into = "source")
         /\ m.format \in {"json", "pmf"}
<1>1. CASE m \in [format : {"pmf"}, byId : {FALSE}, into : Spaces]
  <2>1. m.byId = FALSE /\ m.into \in Spaces /\ m.format = "pmf"
    BY <1>1
  <2> QED
    BY <2>1
<1>2. CASE m \in {[format |-> "json", byId |-> TRUE, into |-> "source"],
                  [format |-> "pmf", byId |-> TRUE, into |-> "source"]}
  <2>1. m.into = "source" /\ m.byId = TRUE /\ m.format \in {"json", "pmf"}
    BY <1>2
  <2> QED
    BY <2>1 DEF Spaces
<1> QED
  BY <1>1, <1>2 DEF AllModes

LEMMA ImportFindKeeps ==
  ASSUME PInv, ImportFind
  PROVE  PInv' /\ Ends(import)' /\ import'.mode = import.mode
<1>1. PICK e : e = Head(import.left)
  OBVIOUS
<1>2. PICK m : m = import.mode
  OBVIOUS
<1>3. /\ import.pc = "find" /\ UNCHANGED <<rows, edges, drawn, export, file, raced, edited>>
      /\ import' = IF e.id \in In("source") THEN Done(import, e.id)
                   ELSE [import EXCEPT !.pc = "create"]
  BY <1>1 DEF ImportFind, history
<1>4. Importing(import) /\ import.left # <<>> /\ import.mode.byId
  BY <1>3, HeadIs DEF PInv, ImportOK, Importing
<1>5. m \in AllModes /\ m.into = "source"
  <2>1. m \in AllModes
    BY <1>2, <1>4, HeadIs
  <2> QED
    BY <1>2, <1>4, <2>1, ModesAre
<1>6. Settled
  BY <1>3, NothingMoves DEF PInv
<1>7. CASE e.id \in In("source")
  <2>1. import' = Done(import, e.id) /\ e.id \in Ids
    BY <1>3, <1>7, InIsFinite
  <2>2. e.id <= drawn' /\ rows[e.id] # None
    BY <1>3, <1>7, <2>1, Limits DEF PInv, RowsOK, In, Stored
  <2>3. ASSUME Safe(import) PROVE Fits(m, e, e.id)'
    <3>1. /\ rows[e.id].space = "source"
          /\ e.id \notin edited => Said(rows[e.id], e.id, file.entries)
      BY <1>1, <1>4, <2>2, <2>3, HeadIsFaithful
    <3> QED
      BY <1>3, <1>5, <2>2, <3>1 DEF Fits, Said
  <2>4. ImportOK' /\ Ends(import)' /\ import'.mode = import.mode
    BY <1>1, <1>2, <1>3, <1>4, <1>6, <2>1, <2>2, <2>3, DoneKnown DEF Settled
  <2> QED
    BY <1>3, <1>6, <2>4, Goes
<1>8. CASE e.id \notin In("source")
  <2>1. PICK q : q = import'
    OBVIOUS
  <2>2. /\ q \in Import /\ q.pc = "create" /\ q.mode = import.mode /\ q.left = import.left
        /\ q.to = import.to /\ q.rels = import.rels /\ q.ok = import.ok
        /\ q.here = import.here
    BY <1>3, <1>8, <2>1, HeadIs, <1>4 DEF Import
  <2>3. Safe(q)' => Progress(q)'
    <3>1. Safe(q)' => Safe(import)
      BY <1>3, <2>2 DEF Safe
    <3>2. Safe(import) => Progress(import)
      BY <1>3, <1>4 DEF Importing
    <3>3. Progress(import) => Progress(q)'
      BY <1>3, <2>2 DEF Progress, After, Restored
    <3> QED
      BY <3>1, <3>2, <3>3
  <2>4. Importing(q)'
    BY <1>3, <1>4, <2>2, <2>3 DEF Importing, Pairs
  <2>5. ImportOK' /\ Ends(import)' /\ import'.mode = import.mode
    BY <2>1, <2>2, <2>4 DEF ImportOK, Importing, Ends
  <2> QED
    BY <1>3, <1>6, <2>5, Goes
<1> QED
  BY <1>7, <1>8

(* The entry has found or created the memory i.                            *)
LEMMA CreatedKeeps ==
  ASSUME PInv, Settled, UNCHANGED <<edges, export, file, raced>>, import.pc = "create",
         NEW i \in Ids, i <= drawn', NEW e, e = Head(import.left), NEW m, m = import.mode,
         rows'[i] # None, rows'[i].content = e.content, rows'[i].space = m.into,
         import' = Created(e, i)
  PROVE  PInv' /\ Ends(import)' /\ import'.mode = import.mode
<1>1. Importing(import) /\ import.left # <<>> /\ RowsOK /\ Stays
  BY DEF PInv, ImportOK, Importing, Settled
<1>2. file # None /\ import \in Import /\ m \in AllModes /\ e \in Entry
  BY <1>1, HeadIs
<1>3. Safe(import) => \E k \in DOMAIN file.entries : file.entries[k] = e
  BY <1>1, HeadIsFaithful
<1>4. CASE m.format = "pmf" /\ e.marked
  <2>1. PICK q : q = import'
    OBVIOUS
  <2>2. q = [import EXCEPT !.pc = "mark", !.here = i]
    BY <1>4, <2>1 DEF Created
  <2>3. /\ q \in Import /\ q.pc = "mark" /\ q.mode = import.mode /\ q.left = import.left
        /\ q.to = import.to /\ q.rels = import.rels /\ q.ok = import.ok /\ q.here = i
    BY <1>2, <2>2 DEF Import
  <2>4. PICK r : r = import
    OBVIOUS
  <2>5. /\ \A j \in Ids : r.to[j] # None => r.to[j] <= drawn'
        /\ r.rels \subseteq Pairs'
    <3>1. ASSUME NEW j \in Ids, r.to[j] # None PROVE r.to[j] <= drawn'
      <4>1. r.to[j] \in Nat /\ r.to[j] <= drawn
        BY <1>1, <1>2, <2>4, <3>1, Limits DEF Import, Importing
      <4> QED
        BY <1>1, <4>1, Limits DEF Stays, Evolves, RowsOK
    <3> QED
      BY <1>1, <2>4, <3>1, PairsGrow DEF Importing, Stays
  <2>6. Safe(q)' => Progress(q)'
    <3>1. Safe(q)' => Safe(r)
      BY <2>3, <2>4 DEF Safe
    <3>2. Safe(r) => Progress(r)
      BY <1>1, <2>4, HeadIs DEF Importing
    <3>3. Progress(r) => Progress(r)'
      BY <1>1, <1>2, <2>4, ProgressStays
    <3>4. Progress(r)' => Progress(q)'
      BY <2>3, <2>4 DEF Progress, Restored
    <3> QED
      BY <3>1, <3>2, <3>3, <3>4
  <2>7. Importing(q)'
    <3>1. i # None /\ q.mode \in Modes /\ file' # None
      BY <1>1, <1>2, <2>3, HeadIs, Limits
    <3> QED
      BY <1>1, <1>4, <2>3, <2>4, <2>5, <2>6, <3>1 DEF Importing
  <2>8. ImportOK' /\ Ends(import)' /\ import'.mode = import.mode
    BY <2>1, <2>3, <2>7 DEF ImportOK, Importing, Ends
  <2> QED
    BY <2>8, Goes
<1>5. CASE ~(m.format = "pmf" /\ e.marked)
  <2>1. import' = Done(import, i)
    BY <1>5 DEF Created
  <2>2. Safe(import) => Fits(m, e, i)'
    <3>1. Safe(import) => ~e.marked
      BY <1>5 DEF Safe
    <3> QED
      BY <1>3, <3>1 DEF Fits, Said
  <2>3. edges \subseteq edges'
    OBVIOUS
  <2>4. ImportOK' /\ Ends(import)' /\ import'.mode = import.mode
    BY <1>1, <2>1, <2>2, <2>3, DoneKnown
  <2> QED
    BY <2>4, Goes
<1> QED
  BY <1>4, <1>5

LEMMA ImportCreateKeeps ==
  ASSUME PInv, ImportCreate
  PROVE  PInv' /\ Ends(import)' /\ import'.mode = import.mode
<1>1. PICK e : e = Head(import.left)
  OBVIOUS
<1>2. PICK m : m = import.mode
  OBVIOUS
<1>3. /\ import.pc = "create" /\ UNCHANGED <<edges, export, file, raced, edited>>
      /\ \/ Insert(e.content, m.into, 0) /\ import' = Created(e, drawn + 1)
         \/ /\ \E i \in Same(e.content, m.into) : import' = Created(e, i)
            /\ UNCHANGED <<rows, drawn>>
  BY <1>1, <1>2 DEF ImportCreate, history
<1>4. import.left # <<>>
  BY <1>3 DEF PInv, ImportOK, Importing
<1>5. e.content \in Contents /\ m.into \in Spaces
  <2>1. e \in Entry /\ m \in AllModes
    BY <1>1, <1>2, <1>4, HeadIs
  <2> QED
    BY <2>1, ModesAre DEF Entry
<1>6. CASE Insert(e.content, m.into, 0) /\ import' = Created(e, drawn + 1)
  <2>1. PICK i : i = drawn + 1
    OBVIOUS
  <2>2. /\ Settled /\ i \in Ids /\ i \in Stored' /\ i <= drawn'
        /\ rows'[i] = [content |-> e.content, space |-> m.into, marked |-> FALSE, rank |-> 0]
    <3>1. PICK c \in Contents : c = e.content
      BY <1>5
    <3>2. PICK s \in Spaces : s = m.into
      BY <1>5
    <3>3. 0 \in {0, 1} /\ Insert(c, s, 0)
      BY <1>6, <3>1, <3>2
    <3>4. /\ Settled /\ i \in Ids /\ i \in Stored' /\ drawn' = i
          /\ rows'[i] = [content |-> c, space |-> s, marked |-> FALSE, rank |-> 0]
      BY <1>3, <2>1, <3>3, Inserts
    <3>5. i <= drawn'
      BY <3>4, Limits
    <3> QED
      BY <3>1, <3>2, <3>4, <3>5
  <2>3. rows'[i] # None /\ rows'[i].content = e.content /\ rows'[i].space = m.into
    <3>1. rows'[i] # None
      BY <2>2 DEF Stored
    <3>2. rows'[i].content = e.content /\ rows'[i].space = m.into
      BY <2>2
    <3> QED
      BY <3>1, <3>2
  <2> QED
    BY <1>1, <1>2, <1>3, <1>6, <2>1, <2>2, <2>3, CreatedKeeps
<1>7. CASE /\ \E i \in Same(e.content, m.into) : import' = Created(e, i)
           /\ UNCHANGED <<rows, drawn>>
  <2>1. PICK i \in Same(e.content, m.into) : import' = Created(e, i)
    BY <1>7
  <2>2. Settled
    BY <1>3, <1>7, NothingMoves DEF PInv
  <2>3. i \in Ids /\ i \in Stored /\ rows[i].content = e.content /\ rows[i].space = m.into
    BY DEF Same, In, Stored
  <2>4. i <= drawn' /\ rows'[i] # None /\ rows'[i].content = e.content /\ rows'[i].space = m.into
    BY <1>7, <2>3, Limits DEF PInv, RowsOK, Stored
  <2> QED
    BY <1>1, <1>2, <1>3, <2>1, <2>2, <2>3, <2>4, CreatedKeeps
<1> QED
  BY <1>3, <1>6, <1>7

LEMMA ImportMarkKeeps ==
  ASSUME PInv, ImportMark
  PROVE  PInv' /\ Ends(import)' /\ import'.mode = import.mode
<1>1. PICK e : e = Head(import.left)
  OBVIOUS
<1>2. PICK m : m = import.mode
  OBVIOUS
<1>3. PICK i : i = import.here
  OBVIOUS
<1>4. /\ import.pc = "mark" /\ UNCHANGED <<edges, drawn, export, file, raced, edited>>
      /\ rows' = IF i \in Stored THEN [rows EXCEPT ![i].marked = TRUE] ELSE rows
      /\ import' = Done(import, i)
  BY <1>3 DEF ImportMark, history
<1>5. Importing(import) /\ import.left # <<>> /\ i \in Ids /\ i <= drawn' /\ file # None
  BY <1>3, <1>4 DEF PInv, ImportOK, Importing, Import
<1>6. Settled /\ (i \in Stored => rows'[i].marked)
  <2>1. CASE i \in Stored
    BY <1>4, <2>1, MarkRow
  <2>2. CASE i \notin Stored
    BY <1>4, <2>2, NothingMoves DEF PInv
  <2> QED
    BY <2>1, <2>2
<1>7. ASSUME Safe(import) PROVE Fits(m, e, i)'
  <2>1. /\ rows[i] # None /\ rows[i].space = m.into
        /\ i \notin edited => rows[i].content = e.content
    BY <1>1, <1>2, <1>3, <1>4, <1>5, <1>7 DEF Importing
  <2>2. i \in Stored
    BY <1>5, <2>1 DEF Stored
  <2>3. /\ rows'[i] # None /\ rows'[i].space = rows[i].space /\ rows'[i].marked
        /\ i \notin edited' => rows'[i].content = rows[i].content
    BY <1>6, <2>2, StaysIn DEF PInv, Settled, Stored
  <2>4. \E k \in DOMAIN file.entries : file.entries[k] = e
    BY <1>1, <1>5, <1>7, HeadIsFaithful
  <2>5. i \notin edited' => Said(rows'[i], e.id, file'.entries)
    BY <1>4, <2>1, <2>3, <2>4 DEF Said
  <2> QED
    BY <2>1, <2>3, <2>5 DEF Fits
<1>8. ImportOK' /\ Ends(import)' /\ import'.mode = import.mode
  BY <1>1, <1>2, <1>4, <1>5, <1>6, <1>7, DoneKnown DEF Settled
<1> QED
  BY <1>4, <1>6, <1>8, Goes

(* The relation e is done.                                                 *)
LEMMA RelatedKeeps ==
  ASSUME PInv, UNCHANGED <<rows, drawn, export, file, raced, edited>>, import.pc = "relate",
         NEW e \in import.rels, NEW b \in BOOLEAN, edges \subseteq edges', edges' \subseteq Pairs,
         (Pmf => EdgesJoinRows)',
         b /\ Safe(import) => <<import.to[e[1]], import.to[e[2]]>> \in edges',
         import' = Related(e, b)
  PROVE  PInv' /\ Ends(import)' /\ import'.mode = import.mode
<1>1. PICK r : r = import
  OBVIOUS
<1>2. /\ Importing(r) /\ r \in Import /\ r.left = <<>> /\ file # None /\ file' = file
      /\ r.mode \in Modes /\ Pairs' = Pairs
  BY <1>1 DEF PInv, ImportOK, Importing, Pairs
<1>3. PICK x : x = [r EXCEPT !.rels = r.rels \ {e}, !.ok = (r.ok /\ b)]
  OBVIOUS
<1>4. /\ x.mode = r.mode /\ x.left = r.left /\ x.to = r.to /\ x.here = r.here
      /\ x.rels = r.rels \ {e} /\ x.ok = (r.ok /\ b)
  BY <1>2, <1>3 DEF Import
<1>5. x \in Import
  <2>1. (r.ok /\ b) \in BOOLEAN /\ r.rels \ {e} \in SUBSET Edges
    BY <1>2 DEF Import
  <2>2. PICK o \in BOOLEAN : o = (r.ok /\ b)
    BY <2>1
  <2>3. x = [r EXCEPT !.rels = r.rels \ {e}, !.ok = o]
    BY <1>3, <2>2
  <2> QED
    BY <1>2, <2>1, <2>2, <2>3 DEF Import
<1>6. import' = NextEntry(x)
  BY <1>1, <1>2, <1>3, <1>4 DEF Related, NextEntry
<1>7. Settled
  BY NothingMoves DEF PInv
<1>8. ASSUME Safe(x)' PROVE Progress(x)'
  <2>1. Safe(r) /\ Progress(r)
    <3>1. Safe(r)
      BY <1>4, <1>8 DEF Safe
    <3> QED
      BY <1>1, <1>2, <3>1 DEF Importing
  <2>2. Progress(r)'
    BY <1>2, <1>7, <2>1, ProgressStays DEF Settled
  <2>3. ASSUME x.ok, NEW f \in file.rels \ x.rels
        PROVE  <<x.to[f[1]], x.to[f[2]]>> \in edges'
    <3>1. CASE f = e
      BY <1>1, <1>4, <2>1, <2>3, <3>1
    <3>2. CASE f # e
      <4>1. f \in file'.rels \ r.rels /\ r.ok
        BY <1>2, <1>4, <2>3, <3>2
      <4>2. <<r.to[f[1]], r.to[f[2]]>> \in edges'
        BY <2>2, <4>1 DEF Progress
      <4> QED
        BY <1>4, <4>2
    <3> QED
      BY <3>1, <3>2
  <2>4. x.ok => r.ok
    BY <1>4
  <2>5. \E n \in Nat :
          /\ After(x.left, n, file.entries)'
          /\ x.ok => \A j \in 1 .. n : Restored(x, file.entries[j])'
    <3>1. PICK n \in Nat :
            /\ After(r.left, n, file.entries)'
            /\ r.ok => \A j \in 1 .. n : Restored(r, file.entries[j])'
      BY <2>2 DEF Progress
    <3>2. After(x.left, n, file.entries)'
      BY <1>4, <3>1 DEF After
    <3>3. x.ok => \A j \in 1 .. n : Restored(x, file.entries[j])'
      BY <1>4, <2>4, <3>1 DEF Restored
    <3> QED
      BY <3>2, <3>3
  <2>6. /\ \A i \in Ids : x.to[i] # None =>
             rows'[x.to[i]] # None /\ rows'[x.to[i]].space = x.mode.into
        /\ x.rels \subseteq file'.rels /\ x.left = <<>>
    BY <1>2, <1>4, <2>2 DEF Progress
  <2> QED
    BY <1>2, <2>3, <2>5, <2>6 DEF Progress
<1>9. Known(x)'
  BY <1>2, <1>4, <1>5, <1>8 DEF Known, Importing
<1>10. ImportOK' /\ Ends(import)' /\ import'.mode = import.mode
  BY <1>1, <1>4, <1>6, <1>9, Continues
<1>11. ExportOK'
  BY <1>7, ExportStays
<1>12. RowsOK'
  BY <1>2 DEF PInv, RowsOK, Rows, Stored
<1> QED
  BY <1>10, <1>11, <1>12 DEF PInv

LEMMA ImportRelateKeeps ==
  ASSUME PInv, ImportRelate
  PROVE  PInv' /\ Ends(import)' /\ import'.mode = import.mode
<1>1. /\ import.pc = "relate" /\ UNCHANGED <<rows, drawn, export, file, raced, edited>>
  BY DEF ImportRelate, history
<1>2. PICK e \in import.rels :
        \/ import' = Related(e, FALSE) /\ edges' = edges
        \/ /\ import' = Related(e, TRUE) /\ edges' = edges \cup {<<EndOf(e[1]), EndOf(e[2])>>}
           /\ EndOf(e[1]) # None /\ EndOf(e[2]) # None
  <2>1. \A x, y : ToSet(<<x, y>>) = {x, y}
    BY DEF ToSet
  <2>2. PICK e \in import.rels :
          IF None \in ToSet(<<EndOf(e[1]), EndOf(e[2])>>)
            THEN import' = Related(e, FALSE) /\ edges' = edges
            ELSE import' = Related(e, TRUE) /\ edges' = edges \cup {<<EndOf(e[1]), EndOf(e[2])>>}
    BY DEF ImportRelate
  <2>3. ToSet(<<EndOf(e[1]), EndOf(e[2])>>) = {EndOf(e[1]), EndOf(e[2])}
    BY <2>1
  <2>4. CASE None \in {EndOf(e[1]), EndOf(e[2])}
    BY <2>2, <2>3, <2>4
  <2>5. CASE None \notin {EndOf(e[1]), EndOf(e[2])}
    BY <2>2, <2>3, <2>5
  <2> QED
    BY <2>4, <2>5
<1>3. Settled
  BY <1>1, NothingMoves DEF PInv
<1>4. edges \subseteq Pairs /\ Importing(import) /\ import \in Import
  BY DEF PInv, RowsOK, ImportOK, Importing
<1>5. CASE import' = Related(e, FALSE) /\ edges' = edges
  <2>1. (Pmf => EdgesJoinRows)'
    BY <1>1, <1>3, <1>5, JoinedStays DEF Settled
  <2> QED
    BY <1>1, <1>4, <1>5, <2>1, RelatedKeeps
<1>6. CASE /\ import' = Related(e, TRUE) /\ edges' = edges \cup {<<EndOf(e[1]), EndOf(e[2])>>}
           /\ EndOf(e[1]) # None /\ EndOf(e[2]) # None
  <2>1. e \in Pairs /\ e[1] \in 1 .. drawn /\ e[2] \in 1 .. drawn /\ e[1] \in Ids /\ e[2] \in Ids
    BY <1>4, Limits DEF Importing, Pairs, PInv, RowsOK, Ids
  <2>2. \A i \in Ids : import.to[i] # None => import.to[i] \in 1 .. drawn
    BY <1>4, Limits DEF Importing, Import, PInv, RowsOK, Ids
  <2>3. EndOf(e[1]) \in 1 .. drawn /\ EndOf(e[2]) \in 1 .. drawn
    BY <1>6, <2>1, <2>2 DEF EndOf
  <2>4. edges' \subseteq Pairs /\ edges \subseteq edges'
    BY <1>4, <1>6, <2>3 DEF Pairs
  <2>5. ASSUME Safe(import)
        PROVE  /\ <<import.to[e[1]], import.to[e[2]]>> = <<EndOf(e[1]), EndOf(e[2])>>
               /\ Progress(import)
    BY <1>1, <1>4, <2>5 DEF Safe, EndOf, Importing
  <2>6. (Pmf => EdgesJoinRows)'
    <3> SUFFICES ASSUME Pmf, ~raced, NEW f \in edges'
                 PROVE  {f[1], f[2]} \subseteq Stored' /\ rows'[f[1]].space = rows'[f[2]].space
      BY <1>1 DEF EdgesJoinRows, Pmf
    <3>1. CASE f \in edges
      <4>1. {f[1], f[2]} \subseteq Stored /\ rows[f[1]].space = rows[f[2]].space
        BY <3>1 DEF PInv, EdgesJoinRows
      <4> QED
        BY <1>1, <4>1 DEF Stored
    <3>2. CASE f = <<EndOf(e[1]), EndOf(e[2])>>
      <4>1. Safe(import)
        BY <1>1, <1>4 DEF Safe, Pmf, Importing
      <4>2. f[1] = import.to[e[1]] /\ f[2] = import.to[e[2]]
        BY <2>5, <3>2, <4>1
      <4>3. import.to[e[1]] # None /\ import.to[e[2]] # None
        BY <1>6, <3>2, <4>2
      <4>4. /\ rows[f[1]] # None /\ rows[f[1]].space = import.mode.into
            /\ rows[f[2]] # None /\ rows[f[2]].space = import.mode.into
        BY <2>1, <2>5, <4>1, <4>2, <4>3 DEF Progress
      <4>5. f[1] \in Ids /\ f[2] \in Ids
        BY <1>4, <2>1, <4>2, <4>3 DEF Import
      <4> QED
        BY <1>1, <4>4, <4>5 DEF Stored
    <3> QED
      BY <1>6, <3>1, <3>2
  <2>7. Safe(import) => <<import.to[e[1]], import.to[e[2]]>> \in edges'
    BY <1>6, <2>5
  <2> QED
    BY <1>1, <1>6, <2>4, <2>6, <2>7, RelatedKeeps
<1> QED
  BY <1>2, <1>5, <1>6

LEMMA ImportFailKeeps ==
  ASSUME PInv, ImportFail
  PROVE  PInv' /\ Ends(import)' /\ import'.mode = import.mode
<1>1. import.pc # "idle" /\ UNCHANGED <<rows, edges, drawn, export, file, raced, edited>>
  BY DEF ImportFail, history
<1>2. Settled
  BY <1>1, NothingMoves DEF PInv
<1>3. Importing(import) /\ import \in Import /\ edges \subseteq Pairs
  BY DEF PInv, RowsOK, ImportOK, Importing
<1>4. ASSUME import.pc = "relate", NEW e \in import.rels, import' = Related(e, FALSE)
      PROVE  PInv' /\ Ends(import)' /\ import'.mode = import.mode
  <2>1. (Pmf => EdgesJoinRows)'
    BY <1>1, <1>2, JoinedStays DEF Settled
  <2> QED
    BY <1>1, <1>3, <1>4, <2>1, RelatedKeeps
<1>5. ASSUME import.pc # "relate",
             import' = NextEntry([import EXCEPT !.left = Tail(@), !.ok = FALSE])
      PROVE  PInv' /\ Ends(import)' /\ import'.mode = import.mode
  <2>1. PICK r : r = import
    OBVIOUS
  <2>2. import.left # <<>>
    BY <1>1, <1>3, <1>5 DEF Import, Importing
  <2>3. /\ r \in Import /\ r.left \in Seq(Entry) /\ r.left # <<>> /\ Tail(r.left) \in Seq(Entry)
        /\ r.mode \in Modes /\ file # None
    BY <2>1, <2>2, HeadIs DEF Import
  <2>4. PICK x : x = [r EXCEPT !.left = Tail(r.left), !.ok = FALSE]
    OBVIOUS
  <2>5. /\ x \in Import /\ x.mode = r.mode /\ x.left = Tail(r.left) /\ x.to = r.to
        /\ x.here = r.here /\ x.rels = r.rels /\ x.ok = FALSE
    BY <2>3, <2>4 DEF Import
  <2>6. ASSUME Safe(x)' PROVE Progress(x)'
    <3>1. Safe(r) /\ Progress(r)
      <4>1. Safe(r)
        BY <1>1, <2>5, <2>6 DEF Safe
      <4> QED
        BY <1>1, <1>3, <2>1, <4>1 DEF Importing
    <3>2. Progress(r)'
      BY <1>1, <1>2, <2>3, <3>1, ProgressStays DEF Settled
    <3>3. PICK es : es = file.entries
      OBVIOUS
    <3>4. es \in Seq(Entry) /\ file' = file
      BY <1>1, <2>3, <3>3, EntriesAre DEF PInv
    <3>5. PICK n \in Nat : After(r.left, n, es)
      BY <3>1, <3>3 DEF Progress
    <3>6. After(x.left, n + 1, es) /\ n + 1 \in Nat
      BY <2>3, <2>5, <3>4, <3>5, AfterTail
    <3>7. After(x.left, n + 1, file.entries)'
      BY <3>3, <3>4, <3>6 DEF After
    <3>8. \E k \in Nat :
            /\ After(x.left, k, file.entries)'
            /\ x.ok => \A j \in 1 .. k : Restored(x, file.entries[j])'
      BY <2>5, <3>6, <3>7
    <3>9. /\ \A i \in Ids : x.to[i] # None =>
               rows'[x.to[i]] # None /\ rows'[x.to[i]].space = x.mode.into
          /\ x.rels = file'.rels
      BY <2>3, <2>5, <3>2, <3>4 DEF Progress
    <3> QED
      BY <2>5, <3>8, <3>9 DEF Progress
  <2>7. Known(x)'
    BY <1>1, <1>3, <2>1, <2>3, <2>5, <2>6 DEF Known, Importing, Pairs
  <2>8. import' = NextEntry(x)
    BY <1>5, <2>1, <2>4
  <2>9. ImportOK' /\ Ends(import)' /\ import'.mode = import.mode
    BY <2>1, <2>5, <2>7, <2>8, Continues
  <2> QED
    BY <1>1, <1>2, <2>9, Goes
<1> QED
  BY <1>4, <1>5 DEF ImportFail, history

LEMMA NoImportIs ==
  /\ NoImport \in Import /\ NoImport.pc = "idle" /\ NoImport.left = <<>> /\ NoImport.rels = {}
  /\ NoImport.here = None /\ NoImport.ok /\ \A i \in Ids : NoImport.to[i] = None
<1>1. <<>> \in Seq(Entry)
  BY EmptySeq
<1> QED
  BY <1>1 DEF NoImport, Import

LEMMA ImportStartKeeps == ASSUME PInv, ImportStart PROVE PInv'
<1>1. /\ import.pc = "idle" /\ file # None
      /\ UNCHANGED <<rows, edges, drawn, export, file, raced, edited>>
  BY DEF ImportStart, history
<1>2. PICK m \in Modes : import' = NextEntry([NoImport EXCEPT !.mode = m,
                                                !.left = file.entries, !.rels = file.rels])
  BY DEF ImportStart, history
<1>3. PICK f : f = file
  OBVIOUS
<1>4. PICK x : x = [NoImport EXCEPT !.mode = m, !.left = f.entries, !.rels = f.rels]
  OBVIOUS
<1>5. f \in File /\ f.entries \in Seq(Entry) /\ f.rels \subseteq Pairs /\ Len(f.entries) \in Nat
  BY <1>1, <1>3, EntriesAre DEF PInv, FileOK
<1>6. /\ x \in Import /\ x.mode = m /\ x.left = f.entries /\ x.rels = f.rels /\ x.ok
      /\ x.here = None /\ \A i \in Ids : x.to[i] = None
  <2>1. m \in AllModes /\ f.rels \in SUBSET Edges
    BY <1>5, Limits DEF File
  <2> QED
    BY <1>4, <1>5, <2>1, NoImportIs DEF Import
<1>7. Progress(x)'
  <2>1. After(x.left, 0, f.entries)
    BY <1>5, <1>6 DEF After
  <2>2. After(x.left, 0, file.entries)'
    BY <1>1, <1>3, <2>1 DEF After
  <2>3. \E n \in Nat :
          /\ After(x.left, n, file.entries)'
          /\ x.ok => \A j \in 1 .. n : Restored(x, file.entries[j])'
    <3>1. 0 \in Nat /\ \A j \in 1 .. 0 : Restored(x, file.entries[j])'
      OBVIOUS
    <3> QED
      BY <2>2, <3>1
  <2> QED
    BY <1>1, <1>3, <1>6, <2>3 DEF Progress
<1>8. Known(x)'
  BY <1>1, <1>3, <1>5, <1>6, <1>7 DEF Known, Pairs
<1>9. ImportOK'
  BY <1>2, <1>3, <1>4, <1>8, Continues
<1>10. Settled
  BY <1>1, NothingMoves DEF PInv
<1> QED
  BY <1>1, <1>9, <1>10, Goes

LEMMA StopKeeps == ASSUME PInv, Stop PROVE PInv' /\ ~import'.ok
<1>1. /\ export' = NoExport /\ import' = [NoImport EXCEPT !.ok = FALSE]
      /\ UNCHANGED <<rows, edges, drawn, file, raced, edited>>
  BY DEF Stop, history
<1>2. Settled
  BY <1>1, NothingMoves DEF PInv
<1>3. PICK q : q = import'
  OBVIOUS
<1>4. /\ q \in Import /\ q.pc = "idle" /\ q.left = <<>> /\ q.rels = {} /\ ~q.ok
      /\ q.here = None /\ \A i \in Ids : q.to[i] = None
  BY <1>1, <1>3, NoImportIs DEF Import
<1>5. Importing(q)'
  BY <1>4 DEF Importing
<1>6. ImportOK'
  BY <1>3, <1>5 DEF ImportOK, Importing
<1>7. ExportOK'
  <2>1. ASSUME file # None PROVE FileOK(file)'
    <3>1. PICK f : f = file
      OBVIOUS
    <3>2. FileOK(f)
      BY <2>1, <3>1 DEF PInv, ExportOK
    <3>3. FileOK(f)'
      BY <1>2, <3>2, FileStays DEF PInv, Settled, Stays
    <3> QED
      BY <1>1, <3>1, <3>3 DEF FileOK
  <2>2. FileOK(export.out)'
    BY <1>1, NoExportIs DEF FileOK, Faithful
  <2> QED
    BY <1>1, <2>1, <2>2, NoExportIs DEF PInv, ExportOK
<1>8. RowsOK' /\ (Pmf => EdgesJoinRows)'
  BY <1>1, <1>2, RowsStay, JoinedStays DEF Settled, Stays
<1> QED
  BY <1>3, <1>4, <1>6, <1>7, <1>8 DEF PInv

-----------------------------------------------------------------------------
(* The theorems.                                                           *)

LEMMA Start == Init => PInv
<1> SUFFICES ASSUME Init PROVE PInv
  OBVIOUS
<1>1. PICK x, y \in Contents, old \in BOOLEAN, r, s \in {0, 1} :
        /\ x # y
        /\ rows = [i \in Ids |->
                    CASE i = 1 -> [content |-> x, space |-> "source", marked |-> old, rank |-> r]
                      [] i = 2 -> [content |-> y, space |-> "source", marked |-> FALSE, rank |-> s]
                      [] OTHER -> None]
  BY Zenon DEF Init
<1>2. /\ edges = {<<2, 1>>} /\ drawn = 2 /\ edited = {}
      /\ export = NoExport /\ file = None /\ import = NoImport /\ raced = FALSE
  BY DEF Init
<1>3. 1 \in Ids /\ 2 \in Ids
  BY Limits DEF Ids
<1>4. PICK a : a = [content |-> x, space |-> "source", marked |-> old, rank |-> r]
  OBVIOUS
<1>5. PICK b : b = [content |-> y, space |-> "source", marked |-> FALSE, rank |-> s]
  OBVIOUS
<1>6. a \in Row /\ b \in Row /\ a.space = "source" /\ b.space = "source"
  BY <1>4, <1>5 DEF Row, Spaces
<1>7. a # None /\ b # None
  BY <1>6, Limits
<1>8. rows[1] = a /\ rows[2] = b /\ \A i \in Ids : i # 1 /\ i # 2 => rows[i] = None
  BY <1>1, <1>3, <1>4, <1>5
<1>9. rows \in Rows
  <2>1. \A i \in Ids : rows[i] \in Row \cup {None}
    BY <1>6, <1>8
  <2>2. rows = [i \in Ids |-> rows[i]]
    BY <1>1
  <2> QED
    BY <2>1, <2>2 DEF Rows
<1>10. Stored = {1, 2}
  BY <1>3, <1>7, <1>8 DEF Stored
<1>11. RowsOK
  BY <1>2, <1>9, <1>10, Limits DEF RowsOK, Pairs
<1>12. ExportOK
  BY <1>2, NoExportIs DEF ExportOK
<1>13. ImportOK
  BY <1>2, NoImportIs DEF ImportOK, Importing
<1>14. EdgesJoinRows
  BY <1>2, <1>6, <1>8, <1>10 DEF EdgesJoinRows
<1> QED
  BY <1>11, <1>12, <1>13, <1>14 DEF PInv

LEMMA Step == PInv /\ [Next]_vars => PInv'
<1> SUFFICES ASSUME PInv, [Next]_vars PROVE PInv'
  OBVIOUS
<1>1. CASE User
  BY <1>1, CreateKeeps, DeleteKeeps, UpdateKeeps DEF User
<1>2. CASE ExportStart
  BY <1>2, ExportStartKeeps
<1>3. CASE ExportPage
  BY <1>3, ExportPageKeeps
<1>4. CASE ImportStart
  BY <1>4, ImportStartKeeps
<1>5. CASE ImportStep
  BY <1>5, ImportFindKeeps, ImportCreateKeeps, ImportMarkKeeps, ImportRelateKeeps DEF ImportStep
<1>6. CASE ImportFail
  BY <1>6, ImportFailKeeps
<1>7. CASE Stop
  BY <1>7, StopKeeps
<1>8. CASE UNCHANGED vars
  <2>1. UNCHANGED <<rows, edges, drawn, export, file, import, raced, edited>>
    BY <1>8 DEF vars, history
  <2>2. Settled
    BY <2>1, NothingMoves DEF PInv
  <2>3. ImportOK'
    BY <2>1, <2>2, ImportStays DEF Settled
  <2> QED
    BY <2>1, <2>2, <2>3, Goes
<1> QED
  BY <1>1, <1>2, <1>3, <1>4, <1>5, <1>6, <1>7, <1>8 DEF Next

LEMMA Invariant == Spec => []PInv
BY Start, Step, PTL DEF Spec

(* Rows, export, file and import have their types, and an import links     *)
(* only ids that were drawn.                                               *)
THEOREM TypeCorrect == Spec => []TypeOK
<1>1. PInv => TypeOK
  <2> SUFFICES ASSUME PInv PROVE TypeOK
    OBVIOUS
  <2>1. Importing(import) /\ RowsOK /\ ExportOK
    BY DEF PInv, ImportOK, Importing
  <2>2. export \in Export /\ file \in File \cup {None}
    BY <2>1 DEF ExportOK
  <2> QED
    BY <2>1, <2>2 DEF TypeOK, RowsOK, Rows, Pairs, Importing
<1> QED
  BY <1>1, Invariant, PTL

(* However rows are created, reworded and superseded between the pages of  *)
(* an export, and whatever the page size, every row that was there when it *)
(* began is in the file, unless one was deleted or ranked anew meanwhile.  *)
THEOREM ExportsAreWhole == Spec => ExportIsWhole
<1>1. ASSUME PInv, [Next]_vars, file' # file, export.quiet
      PROVE  export.before \subseteq {e.id : e \in ToSet(file'.entries)}
  <2>1. ExportPage
    BY <1>1 DEF Next, vars, User, Create, Delete, Update, ExportStart, ImportStart,
       ImportStep, ImportFind, ImportCreate, ImportMark, ImportRelate, ImportFail, Stop
  <2>2. \A i \in export.before : Has(file'.entries, i)
    BY <1>1, <2>1, ExportPageIs
  <2> QED
    BY <2>2 DEF Has, ToSet
<1>2. PInv /\ [Next]_vars =>
        (file' # file /\ export.quiet =>
           export.before \subseteq {e.id : e \in ToSet(file'.entries)})
  BY <1>1
<1> QED
  BY <1>2, Invariant, PTL DEF Spec, ExportIsWhole

(* After a PMF import that reports no error, when no memory was deleted    *)
(* while an import ran, every memory of the file is stored with its        *)
(* relations, and says what the file says of it, marker included, unless a *)
(* user updated it after it was exported; whatever an import before left   *)
(* half done.                                                              *)
THEOREM ImportsRestore == Spec => ImportRestores
<1>1. ASSUME PInv, [Next]_vars, import.pc # "idle", import'.pc = "idle", import'.ok,
             import.mode.format = "pmf", ~raced
      PROVE  Imported(import'.to, edges', rows', edited', import.mode)
  <2>1. /\ PInv' /\ Ends(import)' /\ import'.mode = import.mode
        /\ raced' = raced /\ file' = file
    <3>1. CASE ImportStep
      <4>1. raced' = raced /\ file' = file
        BY <3>1 DEF ImportStep, ImportFind, ImportCreate, ImportMark, ImportRelate, history
      <4>2. PInv' /\ Ends(import)' /\ import'.mode = import.mode
        BY <1>1, <3>1, ImportFindKeeps, ImportCreateKeeps, ImportMarkKeeps, ImportRelateKeeps
        DEF ImportStep
      <4> QED
        BY <4>1, <4>2
    <3>2. CASE ImportFail
      BY <1>1, <3>2, ImportFailKeeps DEF ImportFail, history
    <3>3. CASE Stop
      BY <1>1, <3>3, StopKeeps
    <3>4. CASE User \/ ExportStart \/ ExportPage \/ UNCHANGED vars
      BY <1>1, <3>4 DEF User, Create, Delete, Update, ExportStart, ExportPage, vars
    <3>5. CASE ImportStart
      BY <1>1, <3>5 DEF ImportStart
    <3> QED
      BY <1>1, <3>1, <3>2, <3>3, <3>4, <3>5 DEF Next
  <2>2. PICK q : q = import'
    OBVIOUS
  <2>3. PICK es : es = file.entries
    OBVIOUS
  <2>4. /\ q.mode = import.mode /\ q.ok /\ q.left = <<>> /\ q.rels = {} /\ Progress(q)'
    <3>1. Safe(import)'
      BY <1>1, <2>1 DEF Safe
    <3> QED
      BY <1>1, <2>1, <2>2, <3>1 DEF Ends, Progress, After, Restored
  <2>5. file # None /\ es \in Seq(Entry) /\ DOMAIN es = 1 .. Len(es) /\ Len(es) \in Nat
    BY <1>1, <2>3, EntriesAre DEF PInv, ImportOK, Importing
  <2>6. PICK n \in Nat : /\ After(<<>>, n, es)
                         /\ \A j \in 1 .. n : Restored(q, es[j])'
    <3>1. PICK n \in Nat : /\ After(q.left, n, file.entries)'
                           /\ q.ok => \A j \in 1 .. n : Restored(q, file.entries[j])'
      BY <2>4 DEF Progress
    <3>2. After(<<>>, n, es)
      BY <2>1, <2>3, <2>4, <3>1 DEF After
    <3>3. \A j \in 1 .. n : Restored(q, es[j])'
      BY <2>1, <2>3, <2>4, <3>1 DEF Restored
    <3> QED
      BY <3>2, <3>3
  <2>7. n = Len(es)
    <3>1. PICK none : none = <<>>
      OBVIOUS
    <3>2. Len(none) = 0 /\ After(none, n, es)
      BY <2>6, <3>1, EmptySeq
    <3>3. n + Len(none) = Len(es)
      BY <3>2 DEF After
    <3> QED
      BY <3>2, <3>3
  <2>8. ASSUME NEW e \in ToSet(es) PROVE Restored(q, e)'
    <3>1. PICK j \in 1 .. n : e = es[j]
      BY <2>5, <2>7 DEF ToSet
    <3> QED
      BY <2>6, <3>1 DEF Restored
  <2>9. \A e \in file.rels : <<q.to[e[1]], q.to[e[2]]>> \in edges'
    BY <2>1, <2>4 DEF Progress
  <2>10. ASSUME NEW row, NEW i, Said(row, i, es)
         PROVE  \E f \in ToSet(es) : /\ f.id = i /\ f.content = row.content
                                     /\ f.marked => row.marked
    BY <2>10 DEF Said, ToSet
  <2> QED
    BY <2>1, <2>2, <2>3, <2>4, <2>8, <2>9, <2>10 DEF Restored, Imported
<1>2. PInv /\ [Next]_vars =>
        (import.pc # "idle" /\ import'.pc = "idle" /\ import'.ok
         /\ import.mode.format = "pmf" /\ ~raced
           => Imported(import'.to, edges', rows', edited', import.mode))
  BY <1>1
<1> QED
  BY <1>2, Invariant, PTL DEF Spec, ImportRestores

(* Where files are imported as PMF only, under their ids or new ones, in   *)
(* one namespace or another, a relation joins two memories of a namespace; *)
(* importMemories keeps old ids that may be gone (its run shows it).       *)
THEOREM EdgesJoin == (\A m \in Modes : m.format = "pmf") => (Spec => []EdgesJoinRows)
<1>1. CASE \A m \in Modes : m.format = "pmf"
  <2>1. PInv => EdgesJoinRows
    BY <1>1 DEF PInv, Pmf
  <2> QED
    BY <2>1, Invariant, PTL
<1> QED
  BY <1>1
=============================================================================

------------------------------ MODULE Portability ------------------------------
(***************************************************************************)
(* Export and import of a namespace by MemoryService.  An export pages     *)
(* through the rows while they change; an import creates memories, marks   *)
(* the superseded ones and links them, one awaited call after another, and *)
(* can be cut short anywhere and run again.  Identity is by id or, in      *)
(* createMemory, by content; the two calls of createMemory are one step    *)
(* here, MemoryStore has them apart.                                       *)
(***************************************************************************)
EXTENDS Integers, FiniteSets, SequencesExt

CONSTANTS
  Contents,   \* what memories say
  Modes,      \* the ways to import: a subset of AllModes
  None,       \* nothing
  PageSize,   \* rows per page of an export (1000)
  MaxIds,     \* bound: memories created in a behaviour
  MaxImports, \* bound: imports started
  MaxUser,    \* bound: memories deleted, created or updated by users
  MaxFaults   \* bound: calls that fail and processes that stop

Spaces == {"source", "target"}

(* importMemories; importFromPMF without and with a target namespace.      *)
AllModes == {[format |-> "json", byId |-> TRUE, into |-> "source"],
             [format |-> "pmf", byId |-> TRUE, into |-> "source"]}
            \cup [format : {"pmf"}, byId : {FALSE}, into : Spaces]

ASSUME PortabilityAssumption ==
  /\ Modes \subseteq AllModes
  /\ PageSize \in Nat \ {0}
  /\ MaxIds \in Nat \ {0, 1}
  /\ {MaxImports, MaxUser, MaxFaults} \subseteq Nat

VARIABLES
  rows,    \* the memories, by id
  edges,   \* relations between ids (equal ones are not told apart)
  drawn,   \* ids drawn
  export,  \* the export under way
  file,    \* what an export wrote
  import,  \* the import under way
  raced,   \* history: a memory was deleted while an import ran
  edited,  \* history: memories that say something else, or are not marked any
           \* more, by an update since an export last read them
  imports, users, faults

history == <<raced, edited>>
counters == <<imports, users, faults>>
vars == <<rows, edges, drawn, export, file, import, history, counters>>

-----------------------------------------------------------------------------
Ids == 1 .. MaxIds
Row == [content : Contents, space : Spaces, marked : BOOLEAN, rank : {0, 1}]
Entry == [id : Ids, content : Contents, marked : BOOLEAN]
Edges == Ids \X Ids

Stored == {i \in Ids : rows[i] # None}
In(s) == {i \in Stored : rows[i].space = s}

File == [entries : Seq(Entry), rels : SUBSET Edges]

ASSUME NoneAssumption == None \notin Nat \cup Row \cup File

Export == [pc     : {"idle", "page"},
           out    : File,
           before : SUBSET Ids,  \* history: the rows when it began
           quiet  : BOOLEAN]     \* history: no row was deleted or ranked anew

NoExport == [pc |-> "idle", out |-> [entries |-> <<>>, rels |-> {}],
             before |-> {}, quiet |-> TRUE]

Import == [pc   : {"idle", "find", "create", "mark", "relate"},
           mode : AllModes \cup {None},
           left : Seq(Entry),               \* entries still to import
           to   : [Ids -> Ids \cup {None}], \* idMap
           here : Ids \cup {None},          \* created for Head(left)
           rels : SUBSET Edges,             \* relations still to import
           ok   : BOOLEAN]                  \* errors is empty

NoImport == [pc |-> "idle", mode |-> None, left |-> <<>>, to |-> [i \in Ids |-> None],
             here |-> None, rels |-> {}, ok |-> TRUE]

(* Two linked memories to export.                                          *)
Init ==
  /\ \E x, y \in Contents, old \in BOOLEAN, r, s \in {0, 1} :
       /\ x # y
       /\ rows = [i \in Ids |->
                   CASE i = 1 -> [content |-> x, space |-> "source", marked |-> old, rank |-> r]
                     [] i = 2 -> [content |-> y, space |-> "source", marked |-> FALSE, rank |-> s]
                     [] OTHER -> None]
  /\ edges = {<<2, 1>>} /\ drawn = 2
  /\ export = NoExport /\ file = None /\ import = NoImport
  /\ raced = FALSE /\ edited = {}
  /\ imports = 0 /\ users = 0 /\ faults = 0

-----------------------------------------------------------------------------
(* Requests of users meanwhile.                                            *)

ByUser == users < MaxUser /\ users' = users + 1 /\ UNCHANGED <<imports, faults>>

Touching(i) == {e \in edges : i \in {e[1], e[2]}}

(* SurrealDBAdapter.delete takes the relations along.                      *)
Delete(i) ==
  /\ ByUser
  /\ rows' = [rows EXCEPT ![i] = None]
  /\ edges' = edges \ Touching(i)
  /\ export' = [export EXCEPT !.quiet = FALSE]
  /\ raced' = (raced \/ import.pc # "idle")
  /\ UNCHANGED <<drawn, file, import, edited>>

(* SurrealDBAdapter.update: what a memory says, with no look at what others *)
(* say, its marker, set or cleared, and its salience, which is part of the *)
(* order in which an export pages.                                         *)
Update(i) ==
  /\ ByUser
  /\ \E row \in Row :
       /\ row # rows[i] /\ row.space = rows[i].space
       /\ rows' = [rows EXCEPT ![i] = row]
       /\ export' = [export EXCEPT !.quiet = @ /\ row.rank = rows[i].rank]
       /\ edited' = IF row.content = rows[i].content /\ (rows[i].marked => row.marked)
                      THEN edited ELSE edited \cup {i}
  /\ UNCHANGED <<edges, drawn, file, import, raced>>

Same(c, s) == {i \in In(s) : rows[i].content = c}

Insert(c, s, r) ==
  /\ drawn < MaxIds /\ drawn' = drawn + 1
  /\ rows' = [rows EXCEPT ![drawn + 1] = [content |-> c, space |-> s,
                                          marked |-> FALSE, rank |-> r]]

Create ==
  /\ ByUser
  /\ \E c \in Contents, r \in {0, 1} : Same(c, "source") = {} /\ Insert(c, "source", r)
  /\ UNCHANGED <<edges, export, file, import, history>>

-----------------------------------------------------------------------------
(* exportNamespace, exportNamespacePMF.                                    *)

(* Mutant: no tiebreaker, rows of one rank come in a new order each time.  *)
OrderUntied(i, j) ==
  \/ rows[i].rank > rows[j].rank
  \/ /\ rows[i].rank = rows[j].rank
     /\ IF export.out.entries = <<>> THEN i < j ELSE i > j

(* ORDER BY effectiveSalience DESC, id ASC                                 *)
Order(i, j) ==
  \/ rows[i].rank > rows[j].rank
  \/ rows[i].rank = rows[j].rank /\ i < j

(* How many rows come before row i, and the rows in their places.          *)
Place(i) == Cardinality({j \in In("source") : Order(j, i)})

Sorted == [k \in 1 .. Cardinality(In("source")) |->
             CHOOSE i \in In("source") : Place(i) = k - 1]

Page(offset) ==
  SubSeq(Sorted, offset + 1, IF offset + PageSize < Len(Sorted) THEN offset + PageSize
                             ELSE Len(Sorted))

ExportStart ==
  /\ export.pc = "idle" /\ file = None
  /\ export' = [NoExport EXCEPT !.pc = "page", !.before = In("source")]
  /\ UNCHANGED <<rows, edges, drawn, file, import, history, counters>>

EntryOf(i) == [id |-> i, content |-> rows[i].content, marked |-> rows[i].marked]

(* fetchAllForExport: pages by offset until a page is short; every row of  *)
(* a page brings its relations.                                            *)
ExportPage ==
  LET page == Page(Len(export.out.entries))
      out  == [entries |-> export.out.entries \o [k \in DOMAIN page |-> EntryOf(page[k])],
               rels    |-> export.out.rels \cup UNION {Touching(i) : i \in ToSet(page)}]
  IN /\ export.pc = "page"
     /\ IF Len(page) < PageSize
          THEN export' = NoExport /\ file' = out
          ELSE export' = [export EXCEPT !.out = out] /\ UNCHANGED file
     /\ edited' = edited \ ToSet(page)
     /\ UNCHANGED <<rows, edges, drawn, import, raced, counters>>

-----------------------------------------------------------------------------
(* importFromPMF, importMemories.                                          *)

Relating(r) == [r EXCEPT !.pc = IF r.rels = {} THEN "idle" ELSE "relate"]

(* Mutant: the last entry is never imported.                               *)
NextEntryShort(r) ==
  IF Len(r.left) <= 1 THEN Relating(r)
  ELSE [r EXCEPT !.pc = IF r.mode.byId THEN "find" ELSE "create", !.here = None]

(* The next entry, or on to the relations.                                 *)
NextEntry(r) ==
  IF r.left = <<>> THEN Relating(r)
  ELSE [r EXCEPT !.pc = IF r.mode.byId THEN "find" ELSE "create", !.here = None]

Done(r, i) ==
  NextEntry([r EXCEPT !.left = Tail(@), !.to[Head(r.left).id] = i])

ImportStart ==
  /\ import.pc = "idle" /\ file # None
  /\ imports < MaxImports /\ imports' = imports + 1
  /\ \E m \in Modes :
       import' = NextEntry([NoImport EXCEPT !.mode = m, !.left = file.entries,
                                            !.rels = file.rels])
  /\ UNCHANGED <<rows, edges, drawn, export, file, history, users, faults>>

(* A memory that exists under its id is skipped.                           *)
ImportFind ==
  LET e == Head(import.left)
  IN /\ import.pc = "find"
     /\ import' = IF e.id \in In("source") THEN Done(import, e.id)
                  ELSE [import EXCEPT !.pc = "create"]
     /\ UNCHANGED <<rows, edges, drawn, export, file, history, counters>>

(* Mutant: only a memory that is new gets the marker.                      *)
CreatedOnlyNew(e, i) ==
  IF import.mode.format = "pmf" /\ e.marked /\ i \notin Stored
    THEN [import EXCEPT !.pc = "mark", !.here = i]
    ELSE Done(import, i)

Created(e, i) ==
  IF import.mode.format = "pmf" /\ e.marked THEN [import EXCEPT !.pc = "mark", !.here = i]
  ELSE Done(import, i)

(* createMemory: the memory of that content in the namespace, or a new one. *)
ImportCreate ==
  LET e == Head(import.left)
  IN /\ import.pc = "create"
     /\ \/ /\ Same(e.content, import.mode.into) = {}
           /\ Insert(e.content, import.mode.into, 0)
           /\ import' = Created(e, drawn + 1)
        \/ /\ \E i \in Same(e.content, import.mode.into) : import' = Created(e, i)
           /\ UNCHANGED <<rows, drawn>>
     /\ UNCHANGED <<edges, export, file, history, counters>>

(* updateMemory, which does nothing when the memory is gone.               *)
ImportMark ==
  /\ import.pc = "mark"
  /\ rows' = IF import.here \in Stored THEN [rows EXCEPT ![import.here].marked = TRUE]
             ELSE rows
  /\ import' = Done(import, import.here)
  /\ UNCHANGED <<edges, drawn, export, file, history, counters>>

(* Mutant: an end that was not imported is taken from the file.            *)
EndOfOrOld(i) ==
  IF import.mode.format = "json" \/ import.to[i] = None THEN i ELSE import.to[i]

(* importMemories creates relations between the ids of the file.           *)
EndOf(i) == IF import.mode.format = "json" THEN i ELSE import.to[i]

Related(e, ok) ==
  Relating([import EXCEPT !.rels = @ \ {e}, !.ok = @ /\ ok])

ImportRelate ==
  /\ import.pc = "relate"
  /\ \E e \in import.rels :
       LET ends == <<EndOf(e[1]), EndOf(e[2])>>
       IN IF None \in ToSet(ends)
            THEN import' = Related(e, FALSE) /\ UNCHANGED edges
            ELSE import' = Related(e, TRUE) /\ edges' = edges \cup {ends}
  /\ UNCHANGED <<rows, drawn, export, file, history, counters>>

(* A call fails: the entry or the relation is an error, the import goes on. *)
ImportFail ==
  /\ import.pc # "idle" /\ faults < MaxFaults
  /\ \/ /\ import.pc # "relate"
        /\ import' = NextEntry([import EXCEPT !.left = Tail(@), !.ok = FALSE])
     \/ import.pc = "relate" /\ \E e \in import.rels : import' = Related(e, FALSE)
  /\ faults' = faults + 1
  /\ UNCHANGED <<rows, edges, drawn, export, file, history, imports, users>>

(* The process stops, or the page of an export fails.                      *)
Stop ==
  /\ faults < MaxFaults /\ faults' = faults + 1
  /\ export.pc # "idle" \/ import.pc # "idle"
  /\ export' = NoExport
  /\ import' = [NoImport EXCEPT !.ok = FALSE]
  /\ UNCHANGED <<rows, edges, drawn, file, history, imports, users>>

-----------------------------------------------------------------------------
User == Create \/ \E i \in Stored : Delete(i) \/ Update(i)

ImportStep == ImportFind \/ ImportCreate \/ ImportMark \/ ImportRelate

Next ==
  \/ User \/ ExportStart \/ ExportPage
  \/ ImportStart \/ ImportStep \/ ImportFail \/ Stop

Spec == Init /\ [][Next]_vars

-----------------------------------------------------------------------------
(* Types; an import links only memories that it found or created.          *)
TypeOK ==
  /\ rows \in [Ids -> Row \cup {None}] /\ drawn \in 0 .. MaxIds
  /\ Stored \subseteq 1 .. drawn
  /\ edges \subseteq (1 .. drawn) \X (1 .. drawn)
  /\ export \in Export /\ file \in File \cup {None}
  /\ import \in Import
  /\ \A i \in Ids : import.to[i] # None => import.to[i] <= drawn
  /\ import.pc \in {"find", "create", "mark"} <=> import.left # <<>>
  /\ import.pc = "mark" => import.here # None

(* However rows are created, reworded and superseded while an export pages *)
(* through them, every row that was there when it began is in the file,    *)
(* unless one was deleted or ranked anew meanwhile (fetchAllForExport).    *)
ExportIsWhole ==
  [][file' # file /\ export.quiet =>
       export.before \subseteq {e.id : e \in ToSet(file'.entries)}]_vars

Imported(to, edgesNow, rowsNow, editedNow, m) ==
  /\ \A e \in ToSet(file.entries) :
       LET i == to[e.id]
       IN /\ i # None /\ rowsNow[i] # None /\ rowsNow[i].space = m.into
          /\ i \notin editedNow =>
               \E f \in ToSet(file.entries) :
                 /\ f.id = e.id /\ f.content = rowsNow[i].content
                 /\ f.marked => rowsNow[i].marked
  /\ \A e \in file.rels : <<to[e[1]], to[e[2]]>> \in edgesNow

(* After an import that reports no error, whatever imports before it left  *)
(* half done: every memory of the file is stored in the namespace asked    *)
(* for, with its relations, and it says what the file says and is marked   *)
(* where the file is, unless a user has updated it after it was exported   *)
(* (a memory that moves down the pages is in the file twice, perhaps as it *)
(* was before and after an update, and either counts).                     *)
(* What is found under its id is left as it stands, so that an import does *)
(* not take such an update back.  Only a memory deleted while the import   *)
(* ran may be missing.                                                     *)
ImportRestores ==
  [][import.pc # "idle" /\ import'.pc = "idle" /\ import'.ok
     /\ import.mode.format = "pmf" /\ ~raced
     => Imported(import'.to, edges', rows', edited', import.mode)]_vars

(* A relation joins two memories that are stored, in one namespace: import *)
(* re-points the relations of the file, also into another namespace.  Only *)
(* a memory deleted while an import ran may be pointed at.                 *)
EdgesJoinRows ==
  ~raced => \A e \in edges : /\ {e[1], e[2]} \subseteq Stored
                             /\ rows[e[1]].space = rows[e[2]].space
=============================================================================

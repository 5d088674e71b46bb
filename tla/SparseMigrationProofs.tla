------------------------- MODULE SparseMigrationProofs -------------------------
(***************************************************************************)
(* Theorems about SparseMigration, for any requests at a time, points,     *)
(* page size, failures and stops.                                          *)
(***************************************************************************)
EXTENDS SparseMigration, NaturalsInduction, WellFoundedInduction, FiniteSetTheorems, TLAPS

Inits == {"look", "create", "index", "config", "ready"}

Whole == kept \subseteq PointsOf(main)
Copied == kept \subseteq PointsOf(tmp)

(* A collection without the sparse vector has not been dropped yet.        *)
NotDense == main # None => main.sparse

(* A migration that copies, and one that has dropped the collection.       *)
Copies(r) ==
  \/ r.pc \in {"make", "scrollOut", "writeOut", "drop", "reset",
               "scrollBack", "writeBack", "tidy", "end"}
  \/ r.then = "scrollBack"

Behind(r) ==
  \/ r.pc \in {"reset", "scrollBack", "writeBack", "tidy", "end"}
  \/ r.then = "scrollBack"

(* What is copied to c so far, and what a page that is read will add.      *)
Upto(r, c) == \A p \in kept : p < r.next => p \in PointsOf(c)

WithPage(r, c) == \A p \in kept : (r.more => p < r.next) => p \in PointsOf(c) \cup r.page

(* Where the points are while a migration is the only one to copy.         *)
Holds(r) ==
  /\ r.pc = "make" => Whole
  /\ r.pc = "scrollOut" => Whole /\ Upto(r, tmp)
  /\ r.pc = "writeOut" => Whole /\ WithPage(r, tmp)
  /\ r.pc \in {"drop", "reset"} \/ r.then = "scrollBack" => Copied
  /\ r.pc \in {"index", "config", "ready"} => main # None
  /\ r.pc = "scrollBack" => main # None /\ Copied /\ Upto(r, main)
  /\ r.pc = "writeBack" => main # None /\ Copied /\ WithPage(r, main)
  /\ r.pc \in {"tidy", "end"} => main # None /\ Whole

CallOK(r) ==
  /\ r \in Call
  /\ r.pc \in Inits => r.then \in Returns
  /\ r.seen \/ Behind(r) => NotDense
  /\ Copies(r) /\ ~overlap => Holds(r)

(* The inductive invariant.                                                *)
SInv ==
  /\ TypeOK
  /\ sparseEnabled => NotDense
  /\ \A c \in Calls : CallOK(call[c])
  /\ ~overlap => \A c, d \in Calls : Copies(call[c]) /\ Copies(call[d]) => c = d
  /\ PointsSurvive

-----------------------------------------------------------------------------
(* Collections and calls.                                                  *)

LEMMA Least ==
  ASSUME NEW S \in SUBSET Nat, S # {}
  PROVE  \E m \in S : \A n \in S : m <= n
<1> DEFINE R == OpToRel(<, Nat)
<1>1. IsWellFoundedOn(R, Nat)
  BY NatLessThanWellFounded, Zenon
<1> HIDE DEF R
<1>2. PICK m \in S : \A n \in S : <<n, m>> \notin R
  BY <1>1, WFMin
<1>3. \A n \in S : ~(n < m)
  BY <1>2 DEF R, OpToRel
<1> QED
  BY <1>3

LEMMA EmptyType ==
  Empty \in Collection /\ Empty # None /\ PointsOf(Empty) = {} /\ Empty.sparse
<1>1. Empty \in [sparse : BOOLEAN, points : SUBSET Points]
  BY DEF Empty
<1> QED
  BY <1>1, SparseAssumption DEF Collection, PointsOf, Empty

LEMMA PointsType ==
  ASSUME NEW c \in Collection
  PROVE  PointsOf(c) \subseteq Points /\ (c # None => PointsOf(c) = c.points)
BY DEF Collection, PointsOf

LEMMA PutType ==
  ASSUME NEW c \in Collection, c # None, NEW S \in SUBSET Points
  PROVE  LET d == [c EXCEPT !.points = S]
         IN d \in Collection /\ d # None /\ PointsOf(d) = S /\ (d.sparse <=> c.sparse)
<1> DEFINE d == [c EXCEPT !.points = S]
<1>1. c \in [sparse : BOOLEAN, points : SUBSET Points]
  BY DEF Collection
<1>2. d \in [sparse : BOOLEAN, points : SUBSET Points]
  BY <1>1
<1>3. d.points = S /\ (d.sparse <=> c.sparse)
  BY <1>1
<1> HIDE DEF d
<1>4. d \in Collection /\ d # None
  BY <1>2, SparseAssumption DEF Collection
<1>5. PointsOf(d) = S
  BY <1>3, <1>4 DEF PointsOf
<1> QED
  BY <1>3, <1>4, <1>5 DEF d

Pcs == {"idle", "look", "create", "index", "config", "ready", "write",
        "check", "clear", "make", "scrollOut", "writeOut", "drop", "reset",
        "scrollBack", "writeBack", "tidy", "end"}

(* A call with nothing but its place.                                      *)
LEMMA PlainIs ==
  ASSUME NEW pc \in Pcs, NEW r, r = [Idle EXCEPT !.pc = pc]
  PROVE  /\ r \in Call /\ r.pc = pc /\ r.then = "none" /\ r.seen = FALSE /\ r.next = 0
BY DEF Idle, Call, Pcs

LEMMA LookIs ==
  ASSUME NEW then \in Returns, NEW r, r = [Idle EXCEPT !.pc = "look", !.then = then]
  PROVE  r \in Call /\ r.pc = "look" /\ r.then = then /\ r.seen = FALSE
BY DEF Idle, Call

(* A call that goes on to another place.                                   *)
LEMMA OnIs ==
  ASSUME NEW x \in Call, NEW pc \in Pcs, NEW r, r = [x EXCEPT !.pc = pc]
  PROVE  r \in Call /\ r.pc = pc /\ r.then = x.then /\ r.seen = x.seen
BY DEF Call, Pcs

-----------------------------------------------------------------------------
(* Steps of one call.                                                      *)

(* The call c is r afterwards; types stay, and the collection does not     *)
(* lose the sparse vector.                                                 *)
Turns(c, r) ==
  /\ call' = [call EXCEPT ![c] = r]
  /\ main' \in Collection /\ tmp' \in Collection
  /\ initialized' \in BOOLEAN /\ sparseEnabled' \in BOOLEAN
  /\ kept' \subseteq kept /\ overlap' = overlap
  /\ NotDense => NotDense'
  /\ sparseEnabled' => NotDense'

(* No collection loses a point that must be kept.                          *)
Grows ==
  /\ main # None => main' # None
  /\ \A p \in kept' : /\ p \in PointsOf(main) => p \in PointsOf(main')
                      /\ p \in PointsOf(tmp) => p \in PointsOf(tmp')

LEMMA TurnsType ==
  ASSUME SInv, NEW c \in Calls, NEW r, r \in Call, Turns(c, r)
  PROVE  /\ TypeOK'
         /\ call'[c] = r /\ \A d \in Calls : d # c => call'[d] = call[d]
<1>1. call'[c] = r /\ (\A d \in Calls : d # c => call'[d] = call[d]) /\ call' \in [Calls -> Call]
  BY DEF SInv, TypeOK, Turns
<1>2. flags' \in BOOLEAN \X BOOLEAN
  BY DEF Turns, flags
<1>3. sparseEnabled' /\ main' # None => main'.sparse
  BY DEF Turns, NotDense
<1> QED
  BY <1>1, <1>2, <1>3 DEF SInv, TypeOK, Turns

LEMMA HoldsStays ==
  ASSUME NEW r, Holds(r), Grows, kept' \subseteq kept PROVE Holds(r)'
BY DEF Holds, Grows, Whole, Copied, Upto, WithPage

LEMMA Moves ==
  ASSUME SInv, NEW c \in Calls, NEW r, Turns(c, r), Grows, CallOK(r)',
         Copies(r) => Copies(call[c])
  PROVE  SInv'
<1>1. r \in Call
  BY DEF CallOK
<1>2. /\ TypeOK'
      /\ call'[c] = r /\ \A d \in Calls : d # c => call'[d] = call[d]
  BY <1>1, TurnsType
<1>3. ASSUME NEW d \in Calls PROVE CallOK(call[d])'
  <2>1. CASE d = c
    BY <1>2, <2>1 DEF CallOK, Holds, Whole, Copied, Upto, WithPage, NotDense, Copies, Behind
  <2>2. CASE d # c
    <3>1. PICK x : x = call[d]
      OBVIOUS
    <3>2. CallOK(x) /\ call'[d] = x
      BY <1>2, <2>2, <3>1 DEF SInv
    <3>3. Holds(x) => Holds(x)'
      BY HoldsStays DEF Turns
    <3>4. CallOK(x)'
      BY <3>2, <3>3 DEF CallOK, Turns
    <3> QED
      BY <3>2, <3>4 DEF CallOK, Holds, Whole, Copied, Upto, WithPage, NotDense, Copies, Behind
  <2> QED
    BY <2>1, <2>2
<1>4. (~overlap => \A x, y \in Calls : Copies(call[x]) /\ Copies(call[y]) => x = y)'
  <2> SUFFICES ASSUME ~overlap, NEW x \in Calls, NEW y \in Calls,
                      Copies(call'[x]), Copies(call'[y])
               PROVE  x = y
    BY DEF Turns, Copies
  <2>1. Copies(call[x]) /\ Copies(call[y])
    BY <1>2
  <2> QED
    BY <2>1 DEF SInv
<1>5. PointsSurvive'
  BY DEF SInv, PointsSurvive, Turns, Grows
<1> QED
  BY <1>2, <1>3, <1>4, <1>5 DEF SInv, Turns

(* A step of the migration that copies: if it is the only one, no other    *)
(* call cares for what it does.                                            *)
LEMMA Alone ==
  ASSUME SInv, NEW c \in Calls, NEW r, Turns(c, r), CallOK(r)', Copies(call[c]),
         PointsSurvive'
  PROVE  SInv'
<1>1. r \in Call
  BY DEF CallOK
<1>2. /\ TypeOK'
      /\ call'[c] = r /\ \A d \in Calls : d # c => call'[d] = call[d]
  BY <1>1, TurnsType
<1>3. ASSUME NEW d \in Calls PROVE CallOK(call[d])'
  <2>1. CASE d = c
    BY <1>2, <2>1 DEF CallOK, Holds, Whole, Copied, Upto, WithPage, NotDense, Copies, Behind
  <2>2. CASE d # c
    <3>1. PICK x : x = call[d]
      OBVIOUS
    <3>2. CallOK(x) /\ call'[d] = x
      BY <1>2, <2>2, <3>1 DEF SInv
    <3>3. ~overlap => ~Copies(x)
      BY <2>2, <3>1 DEF SInv
    <3>4. CallOK(x)'
      BY <3>2, <3>3 DEF CallOK, Turns
    <3> QED
      BY <3>2, <3>4 DEF CallOK, Holds, Whole, Copied, Upto, WithPage, NotDense, Copies, Behind
  <2> QED
    BY <2>1, <2>2
<1>4. (~overlap => \A x, y \in Calls : Copies(call[x]) /\ Copies(call[y]) => x = y)'
  <2> SUFFICES ASSUME ~overlap, NEW x \in Calls, NEW y \in Calls,
                      Copies(call'[x]), Copies(call'[y])
               PROVE  x = y
    BY DEF Turns, Copies
  <2>1. Copies(call[x]) /\ Copies(call[y])
    BY <1>2
  <2> QED
    BY <2>1 DEF SInv
<1> QED
  BY <1>2, <1>3, <1>4 DEF SInv, Turns

(* A step that leaves the collections alone.                               *)
LEMMA Quiet ==
  ASSUME SInv, NEW c \in Calls, NEW r, call' = [call EXCEPT ![c] = r],
         UNCHANGED <<main, tmp, flags, history>>
  PROVE  Turns(c, r) /\ Grows
BY DEF SInv, TypeOK, Turns, Grows, flags, history, NotDense

(* A call that does not copy then.                                         *)
LEMMA Plain ==
  ASSUME SInv, NEW r, r \in Call, r.pc \in Inits => r.then \in Returns, ~r.seen, ~Copies(r)
  PROVE  CallOK(r)'
BY DEF CallOK, Copies, Behind

(* A call that goes to a place where it does not copy.                     *)
Outside == {"idle", "write", "check", "clear"}

LEMMA Stops ==
  ASSUME SInv, NEW c \in Calls, NEW pc \in Outside, NEW r, r = [Idle EXCEPT !.pc = pc],
         Turns(c, r), Grows
  PROVE  SInv'
<1> pc \in Pcs
  BY DEF Outside, Pcs
<1>1. r \in Call /\ r.pc = pc /\ r.then = "none" /\ r.seen = FALSE
  BY PlainIs
<1>2. r.pc \notin Inits /\ ~Copies(r)
  BY <1>1 DEF Outside, Inits, Copies
<1> QED
  BY <1>1, <1>2, Plain, Moves

LEMMA Ends ==
  ASSUME SInv, NEW c \in Calls, NEW pc \in Outside, Go(c, pc),
         UNCHANGED <<main, tmp, flags, history>>
  PROVE  SInv'
<1>1. PICK r : r = [Idle EXCEPT !.pc = pc]
  OBVIOUS
<1>2. call' = [call EXCEPT ![c] = r]
  BY <1>1 DEF Go, Becomes
<1> QED
  BY <1>1, <1>2, Quiet, Stops

LEMMA GoIdle ==
  ASSUME NEW c, Becomes(c, Idle) PROVE Go(c, "idle")
<1>1. [Idle EXCEPT !.pc = "idle"] = Idle
  BY DEF Idle
<1> QED
  BY <1>1 DEF Go

-----------------------------------------------------------------------------
(* initialize.                                                             *)

LEMMA Enters ==
  ASSUME SInv, NEW c \in Calls, NEW then \in {"check", "write"}, Enter(c, then),
         UNCHANGED <<main, tmp, flags, history>>
  PROVE  SInv'
<1>1. CASE initialized
  <2>1. Go(c, then)
    BY <1>1 DEF Enter, Go
  <2> QED
    BY <2>1, Ends DEF Outside
<1>2. CASE ~initialized
  <2>1. PICK r : r = [Idle EXCEPT !.pc = "look", !.then = then]
    OBVIOUS
  <2>2. call' = [call EXCEPT ![c] = r]
    BY <1>2, <2>1 DEF Enter, Becomes
  <2>3. r \in Call /\ r.pc = "look" /\ r.then = then /\ r.seen = FALSE
    BY <2>1, LookIs DEF Returns
  <2>4. r.then \in Returns /\ ~Copies(r)
    BY <2>3 DEF Returns, Copies
  <2> QED
    BY <2>2, <2>3, <2>4, Quiet, Plain, Moves
<1> QED
  BY <1>1, <1>2

(* What is known of a call.                                                *)
LEMMA IsOK ==
  ASSUME SInv, NEW c \in Calls PROVE CallOK(call[c])
BY DEF SInv

(* The call goes on in initialize, and the collection is there.            *)
LEMMA GoesOn ==
  ASSUME SInv, NEW c \in Calls, NEW r, r \in Call, r.pc \in Inits, call[c].pc \in Inits,
         r.then = call[c].then, r.seen => NotDense \/ call[c].seen,
         \/ r.pc \in {"index", "config", "ready"} => main' # None
         \/ call[c].pc \in {"index", "config"} /\ UNCHANGED main,
         Turns(c, r), Grows
  PROVE  SInv'
<1>1. PICK x : x = call[c]
  OBVIOUS
<1>2. CallOK(x)
  BY <1>1, IsOK
<1>3. x.then \in Returns
  BY <1>1, <1>2 DEF CallOK
<1>4. Copies(r) <=> Copies(x)
  BY <1>1 DEF Copies, Inits
<1>5. r.seen \/ Behind(r) => NotDense'
  BY <1>1, <1>2 DEF CallOK, Behind, Inits, Turns
<1>6. ASSUME Copies(r), ~overlap' PROVE Holds(r)'
  <2>1. Holds(x)
    BY <1>2, <1>4, <1>6 DEF CallOK, Turns
  <2>2. x.then = "scrollBack"
    BY <1>1, <1>4, <1>6 DEF Copies, Inits
  <2>3. Copied'
    BY <2>1, <2>2 DEF Holds, Copied, Grows, Turns
  <2>4. r.pc \in {"index", "config", "ready"} => main' # None
    BY <1>1, <2>1 DEF Holds
  <2> QED
    BY <2>3, <2>4 DEF Holds, Inits
<1>7. CallOK(r)'
  BY <1>1, <1>3, <1>5, <1>6 DEF CallOK, Copies, Behind
<1> QED
  BY <1>1, <1>4, <1>7, Moves

LEMMA LookStep ==
  ASSUME SInv, NEW c \in Calls, Look(c) PROVE SInv'
<1>1. PICK r : r = [call[c] EXCEPT !.pc = IF main = None THEN "create" ELSE "config"]
  OBVIOUS
<1>2. call' = [call EXCEPT ![c] = r] /\ UNCHANGED <<main, tmp, flags, history>>
  BY <1>1 DEF Look, Goes, Becomes, Steps
<1>3. call[c] \in Call /\ call[c].pc = "look"
  BY IsOK DEF Look, At, CallOK
<1>4. r \in Call /\ r.pc = (IF main = None THEN "create" ELSE "config")
      /\ r.then = call[c].then /\ r.seen = call[c].seen
  BY <1>1, <1>3, OnIs DEF Pcs
<1> QED
  BY <1>2, <1>3, <1>4, Quiet, GoesOn DEF Inits

LEMMA CreateStep ==
  ASSUME SInv, NEW c \in Calls, Create(c) PROVE SInv'
<1>1. CASE main = None
  <2>1. PICK r : r = [call[c] EXCEPT !.pc = "index"]
    OBVIOUS
  <2>2. call' = [call EXCEPT ![c] = r] /\ main' = Empty /\ UNCHANGED <<tmp, flags, history>>
    BY <1>1, <2>1 DEF Create, Goes, Becomes, Steps
  <2>3. call[c] \in Call /\ call[c].pc = "create"
    BY IsOK DEF Create, At, CallOK
  <2>4. r \in Call /\ r.pc = "index" /\ r.then = call[c].then /\ r.seen = call[c].seen
    BY <2>1, <2>3, OnIs DEF Pcs
  <2>5. Turns(c, r)
    BY <2>2, EmptyType DEF SInv, TypeOK, Turns, flags, history, NotDense
  <2>6. Grows
    BY <1>1, <2>2 DEF Grows, PointsOf
  <2> QED
    BY <2>2, <2>3, <2>4, <2>5, <2>6, EmptyType, GoesOn DEF Inits
<1>2. CASE main # None
  <2>1. Go(c, "idle") /\ UNCHANGED <<main, tmp, flags, history>>
    BY <1>2, GoIdle DEF Create, Steps
  <2> QED
    BY <2>1, Ends DEF Outside
<1> QED
  BY <1>1, <1>2

LEMMA IndexStep ==
  ASSUME SInv, NEW c \in Calls, Index(c) PROVE SInv'
<1>1. CASE main # None
  <2>1. PICK r : r = [call[c] EXCEPT !.pc = "config"]
    OBVIOUS
  <2>2. call' = [call EXCEPT ![c] = r] /\ UNCHANGED <<main, tmp, flags, history>>
    BY <1>1, <2>1 DEF Index, Goes, Becomes, Steps
  <2>3. call[c] \in Call /\ call[c].pc = "index"
    BY IsOK DEF Index, At, CallOK
  <2>4. r \in Call /\ r.pc = "config" /\ r.then = call[c].then /\ r.seen = call[c].seen
    BY <2>1, <2>3, OnIs DEF Pcs
  <2> QED
    BY <1>1, <2>2, <2>3, <2>4, Quiet, GoesOn DEF Inits
<1>2. CASE main = None
  <2>1. Go(c, "idle") /\ UNCHANGED <<main, tmp, flags, history>>
    BY <1>2, GoIdle DEF Index, Steps
  <2> QED
    BY <2>1, Ends DEF Outside
<1> QED
  BY <1>1, <1>2

LEMMA ConfigStep ==
  ASSUME SInv, NEW c \in Calls, Config(c) PROVE SInv'
<1>1. PICK seen \in BOOLEAN : Reads(c, seen) /\ (seen => main # None /\ main.sparse)
  BY DEF Config
<1>2. PICK r : r = [call[c] EXCEPT !.pc = "ready", !.seen = seen]
  OBVIOUS
<1>3. call' = [call EXCEPT ![c] = r] /\ UNCHANGED <<main, tmp, flags, history>>
  BY <1>1, <1>2 DEF Config, Reads, Becomes, history
<1>4. call[c] \in Call /\ call[c].pc = "config"
  BY IsOK DEF Config, At, CallOK
<1>5. r \in Call /\ r.pc = "ready" /\ r.then = call[c].then /\ r.seen = seen
  BY <1>2, <1>4 DEF Call
<1> QED
  BY <1>1, <1>3, <1>4, <1>5, Quiet, GoesOn DEF Inits, NotDense

LEMMA ReadyStep ==
  ASSUME SInv, NEW c \in Calls, Ready(c) PROVE SInv'
<1>1. PICK x : x = call[c]
  OBVIOUS
<1>2. CallOK(x) /\ x.pc = "ready" /\ x.then \in Returns /\ x.seen \in BOOLEAN
  BY <1>1, IsOK DEF Ready, At, CallOK, Inits, Call
<1>3. PICK r : r = [Idle EXCEPT !.pc = x.then]
  OBVIOUS
<1>4. /\ call' = [call EXCEPT ![c] = r] /\ UNCHANGED <<main, tmp, history>>
      /\ initialized' = TRUE /\ sparseEnabled' = x.seen
  BY <1>1, <1>3 DEF Ready, Go, Becomes
<1>5. r \in Call /\ r.pc = x.then /\ r.then = "none" /\ r.seen = FALSE /\ r.next = 0
  <2>1. x.then \in Pcs
    BY <1>2 DEF Returns, Pcs
  <2> QED
    BY <1>3, <2>1, PlainIs
<1>6. Turns(c, r)
  BY <1>2, <1>4 DEF SInv, TypeOK, CallOK, Turns, history, NotDense
<1>7. Grows
  BY <1>4 DEF Grows, history
<1>8. CASE x.then \in Outside
  BY <1>3, <1>6, <1>7, <1>8, Stops
<1>9. CASE x.then = "scrollBack"
  <2>1. Copies(x) /\ Behind(x)
    BY <1>9 DEF Copies, Behind
  <2>2. NotDense'
    BY <1>2, <2>1, <1>6 DEF CallOK, Turns
  <2>3. ASSUME ~overlap' PROVE Holds(r)'
    <3>1. Holds(x)
      BY <1>2, <1>6, <2>1, <2>3 DEF CallOK, Turns
    <3>2. main' # None /\ Copied'
      BY <1>2, <1>4, <1>9, <3>1 DEF Holds, Copied, history
    <3>3. \A p \in kept' : ~(p < r.next)
      BY <1>5, <1>6, SparseAssumption DEF SInv, TypeOK, Turns
    <3> QED
      BY <1>5, <1>9, <3>2, <3>3 DEF Holds, Upto
  <2>4. CallOK(r)'
    BY <1>5, <1>9, <2>2, <2>3 DEF CallOK, Inits, Copies, Behind
  <2> QED
    BY <1>1, <1>6, <1>7, <2>1, <2>4, Moves
<1> QED
  BY <1>2, <1>8, <1>9 DEF Returns, Outside

-----------------------------------------------------------------------------
(* Requests of users.                                                      *)

LEMMA WriteStep ==
  ASSUME SInv, NEW c \in Calls, Write(c) PROVE SInv'
<1> USE DEF TypeOK, history
<1>1. CASE UNCHANGED <<main, kept>>
  BY <1>1, Ends DEF Write, Outside
<1>2. CASE main # None /\ \E p \in Points : Upsert(p) \/ Delete(p)
  <2>1. PICK r : r = [Idle EXCEPT !.pc = "idle"]
    OBVIOUS
  <2>2. call' = [call EXCEPT ![c] = r] /\ UNCHANGED <<tmp, flags, overlap>>
    BY <2>1 DEF Write, Go, Becomes
  <2>3. PICK p \in Points : Upsert(p) \/ Delete(p)
    BY <1>2
  <2>4. main \in Collection /\ main.points \subseteq Points /\ PointsOf(main) = main.points
    BY <1>2, PointsType DEF SInv
  <2>5. PICK S \in SUBSET Points :
          /\ main' = [main EXCEPT !.points = S]
          /\ kept' \subseteq kept
          /\ \A q \in kept' : q \in PointsOf(main) => q \in S
    <3>1. CASE Upsert(p)
      BY <2>4, <3>1 DEF Upsert
    <3>2. CASE Delete(p)
      BY <2>4, <3>2 DEF Delete
    <3> QED
      BY <2>3, <3>1, <3>2
  <2>6. /\ main' \in Collection /\ main' # None
        /\ PointsOf(main') = S /\ (main'.sparse <=> main.sparse)
    BY <1>2, <2>4, <2>5, PutType
  <2>7. Turns(c, r)
    BY <1>2, <2>2, <2>5, <2>6 DEF SInv, Turns, flags, NotDense
  <2>8. Grows
    BY <2>2, <2>5, <2>6 DEF Grows
  <2> QED
    BY <2>1, <2>7, <2>8, Stops DEF Outside
<1> QED
  BY <1>1, <1>2 DEF Write

-----------------------------------------------------------------------------
(* The migration, up to the copy.                                          *)

LEMMA ChecksStep ==
  ASSUME SInv, NEW c \in Calls, Checks(c) PROVE SInv'
<1>1. PICK pc \in Outside : Go(c, pc) /\ UNCHANGED <<main, tmp, flags, history>>
  BY DEF Checks, Steps, Outside
<1> QED
  BY <1>1, Ends

LEMMA ClearsStep ==
  ASSUME SInv, NEW c \in Calls, Clears(c) PROVE SInv'
<1>1. PICK r : r = [Idle EXCEPT !.pc = "make"]
  OBVIOUS
<1>2. /\ call' = [call EXCEPT ![c] = r] /\ UNCHANGED <<main, flags>> /\ tmp' \in {tmp, None}
      /\ kept' = PointsOf(main)
  BY <1>1 DEF Clears, Removes, Go, Becomes
<1>3. r \in Call /\ r.pc = "make" /\ r.then = "none" /\ r.seen = FALSE
  BY <1>1 DEF Idle, Call
<1>4. call'[c] = r /\ (\A d \in Calls : d # c => call'[d] = call[d]) /\ call' \in [Calls -> Call]
  BY <1>2, <1>3 DEF SInv, TypeOK
<1>5. overlap' \in BOOLEAN /\ (~overlap' => \A d \in Calls : d # c => ~Copies(call[d]))
  BY DEF Clears, Copying, Copies
<1>6. TypeOK'
  <2>1. tmp' \in Collection /\ kept' \subseteq Points
    BY <1>2, PointsType DEF SInv, TypeOK, Collection
  <2>2. main' \in Collection /\ flags' \in BOOLEAN \X BOOLEAN
        /\ (sparseEnabled' /\ main' # None => main'.sparse)
    BY <1>2 DEF SInv, TypeOK, flags
  <2> QED
    BY <1>4, <1>5, <2>1, <2>2 DEF TypeOK
<1>7. Whole' /\ (NotDense' <=> NotDense)
  BY <1>2 DEF Whole, NotDense
<1>8. ASSUME NEW d \in Calls PROVE CallOK(call[d])'
  <2>1. CASE d = c
    <3>1. CallOK(r)'
      BY <1>3, <1>7 DEF CallOK, Holds, Inits, Behind
    <3> QED
      BY <1>4, <2>1, <3>1 DEF CallOK, Holds, Whole, Copied, Upto, WithPage, NotDense, Copies, Behind
  <2>2. CASE d # c
    <3>1. PICK x : x = call[d]
      OBVIOUS
    <3>2. CallOK(x) /\ call'[d] = x
      BY <1>4, <2>2, <3>1 DEF SInv
    <3>3. ~overlap' => ~Copies(x)
      BY <1>5, <2>2, <3>1
    <3>4. CallOK(x)'
      BY <1>7, <3>2, <3>3 DEF CallOK
    <3> QED
      BY <3>2, <3>4 DEF CallOK, Holds, Whole, Copied, Upto, WithPage, NotDense, Copies, Behind
  <2> QED
    BY <2>1, <2>2
<1>9. (~overlap => \A x, y \in Calls : Copies(call[x]) /\ Copies(call[y]) => x = y)'
  <2> SUFFICES ASSUME ~overlap', NEW x \in Calls, NEW y \in Calls,
                      Copies(call'[x]), Copies(call'[y])
               PROVE  x = y
    BY DEF Copies
  <2> QED
    BY <1>4, <1>5
<1>10. PointsSurvive'
  BY <1>7 DEF PointsSurvive, Whole
<1>11. (sparseEnabled => NotDense)'
  BY <1>2, <1>7 DEF SInv, flags
<1> QED
  BY <1>6, <1>8, <1>9, <1>10, <1>11 DEF SInv

(* A step of a migration that goes to a place r of the copy.               *)
LEMMA CopyStep ==
  ASSUME SInv, NEW c \in Calls, Copies(call[c]), NEW r, r \in Call,
         r.pc \notin Inits \/ r.then \in Returns, r.seen => call[c].seen,
         call' = [call EXCEPT ![c] = r], UNCHANGED <<flags, history>>,
         main' \in Collection, tmp' \in Collection, NotDense => NotDense',
         Behind(r) => Behind(call[c]) \/ NotDense',
         ~overlap /\ Holds(call[c]) => Holds(r)' /\ PointsSurvive'
  PROVE  SInv'
<1>1. PICK x : x = call[c]
  OBVIOUS
<1>2. CallOK(x)
  BY <1>1, IsOK
<1>3. Turns(c, r)
  BY DEF SInv, TypeOK, Turns, flags, history
<1>4. PointsSurvive'
  BY <1>1, <1>2 DEF CallOK, PointsSurvive, history
<1>5. CallOK(r)'
  BY <1>1, <1>2 DEF CallOK, history
<1> QED
  BY <1>3, <1>4, <1>5, Alone

LEMMA MakesStep ==
  ASSUME SInv, NEW c \in Calls, Makes(c) PROVE SInv'
<1>1. CASE tmp # None
  <2>1. Go(c, "idle") /\ UNCHANGED <<main, tmp, flags, history>>
    BY <1>1 DEF Makes, Steps
  <2> QED
    BY <2>1, Ends DEF Outside
<1>2. CASE tmp = None
  <2>1. PICK r : r = [Idle EXCEPT !.pc = "scrollOut"]
    OBVIOUS
  <2>2. /\ call' = [call EXCEPT ![c] = r] /\ tmp' = Empty
        /\ UNCHANGED <<main, flags, history>>
    BY <1>2, <2>1 DEF Makes, Go, Becomes, Steps
  <2>3. r \in Call /\ r.pc = "scrollOut" /\ r.then = "none" /\ r.seen = FALSE /\ r.next = 0
    BY <2>1 DEF Idle, Call
  <2>4. call[c].pc = "make" /\ Copies(call[c])
    BY DEF Makes, At, Copies
  <2>5. \A p \in kept : ~(p < r.next)
    BY <2>3, SparseAssumption DEF SInv, TypeOK
  <2>6. Holds(call[c]) => Holds(r)' /\ PointsSurvive'
    BY <2>2, <2>3, <2>4, <2>5 DEF Holds, Whole, Upto, PointsSurvive, history
  <2>7. main' \in Collection /\ tmp' \in Collection /\ (NotDense => NotDense')
    BY <2>2, EmptyType DEF SInv, TypeOK, NotDense
  <2>8. ~Behind(r) /\ r.pc \notin Inits
    BY <2>3 DEF Behind, Inits
  <2> QED
    BY <2>2, <2>3, <2>4, <2>6, <2>7, <2>8, CopyStep
<1> QED
  BY <1>1, <1>2

-----------------------------------------------------------------------------
(* The copy.                                                               *)

LEMMA PageFacts ==
  ASSUME SInv, NEW c \in Calls, NEW from \in Collection
  PROVE  /\ Left(c, from) \subseteq Points
         /\ PageOf(c, from) \subseteq Left(c, from)
         /\ PageOf(c, from) = {} => Left(c, from) = {}
<1>1. Left(c, from) \subseteq Points /\ Left(c, from) \subseteq Nat
  BY PointsType, SparseAssumption DEF Left
<1>2. ASSUME Left(c, from) # {} PROVE PageOf(c, from) # {}
  <2>1. PICK m \in Left(c, from) : \A n \in Left(c, from) : m <= n
    BY <1>1, <1>2, Least
  <2>2. {q \in Left(c, from) : q < m} = {}
    BY <1>1, <2>1
  <2>3. Cardinality({q \in Left(c, from) : q < m}) < PageSize
    BY <2>2, FS_EmptySet, SparseAssumption
  <2> QED
    BY <2>1, <2>3 DEF PageOf
<1> QED
  BY <1>1, <1>2 DEF PageOf

LEMMA ScrollStep ==
  ASSUME SInv, NEW c \in Calls, NEW from \in Collection, NEW pc, NEW write, NEW then,
         Scroll(c, from, pc, write, then),
         \/ from = main /\ pc = "scrollOut" /\ write = "writeOut" /\ then = "drop"
         \/ from = tmp /\ pc = "scrollBack" /\ write = "writeBack" /\ then = "tidy"
  PROVE  SInv'
<1> DEFINE page == PageOf(c, from)
           rest == Left(c, from) \ page
           next == IF rest = {} THEN 0 ELSE CHOOSE p \in rest : \A q \in rest : p <= q
<1>1. PICK x : x = call[c]
  OBVIOUS
<1>2. x \in Call /\ CallOK(x) /\ x.pc = pc /\ x.next \in Nat
  BY <1>1, IsOK DEF Scroll, At, CallOK, Call
<1>3. Copies(x) /\ UNCHANGED <<main, tmp, flags, history>>
  BY <1>2 DEF Scroll, Copies, Steps
<1>4. page \subseteq Points /\ rest \subseteq Points /\ rest \subseteq Nat
  BY PageFacts, SparseAssumption
<1>5. next \in Nat /\ (rest # {} => \A q \in rest : next <= q)
  BY <1>4, Least
<1> DEFINE to == IF pc = "scrollOut" THEN tmp ELSE main
<1>6. ASSUME Holds(x)
      PROVE  /\ kept \subseteq PointsOf(from) /\ Upto(x, to)
             /\ pc = "scrollOut" => Whole
             /\ pc = "scrollBack" => main # None /\ Copied
  BY <1>2, <1>6 DEF Holds, Whole, Copied
<1>7. \A p \in PointsOf(from) : p < x.next \/ p \in Left(c, from)
  <2>1. PointsOf(from) \subseteq Nat
    BY PointsType, SparseAssumption
  <2> QED
    BY <1>1, <1>2, <2>1 DEF Left
<1>8. main' \in Collection /\ tmp' \in Collection /\ (NotDense => NotDense')
  BY <1>3 DEF SInv, TypeOK, NotDense
<1>9. CASE from = None
  BY <1>3, <1>9, Ends DEF Scroll, Go, Outside
<1>10. CASE from # None /\ page = {}
  <2>1. PICK r : r = [Idle EXCEPT !.pc = then]
    OBVIOUS
  <2>2. call' = [call EXCEPT ![c] = r]
    BY <1>10, <2>1 DEF Scroll, Go, Becomes
  <2>3. r \in Call /\ r.pc = then /\ r.then = "none" /\ r.seen = FALSE
    BY <2>1 DEF Idle, Call
  <2>4. ASSUME Holds(x) PROVE \A p \in kept : p \in PointsOf(to)
    BY <1>6, <1>7, <1>10, <2>4, PageFacts DEF Upto
  <2>5. Holds(x) => Holds(r)
    BY <1>6, <2>3, <2>4 DEF Holds, Whole, Copied
  <2>6. Holds(r)' <=> Holds(r)
    BY <1>3 DEF Holds, Whole, Copied, Upto, WithPage, history
  <2>7. PointsSurvive'
    BY <1>3 DEF SInv, PointsSurvive, history
  <2>8. r.pc \notin Inits /\ (Behind(r) => Behind(x))
    BY <1>2, <2>3 DEF Inits, Behind
  <2> QED
    BY <1>1, <1>3, <1>8, <2>2, <2>3, <2>5, <2>6, <2>7, <2>8, CopyStep
<1>11. CASE from # None /\ page # {}
  <2>1. PICK r : r = [Idle EXCEPT !.pc = write, !.page = page, !.more = rest # {}, !.next = next]
    OBVIOUS
  <2>2. call' = [call EXCEPT ![c] = r]
    BY <1>11, <2>1 DEF Scroll, Becomes
  <2> HIDE DEF page, rest, next, to
  <2>3. /\ r \in Call /\ r.pc = write /\ r.then = "none" /\ r.seen = FALSE
        /\ r.page = page /\ r.more = (rest # {}) /\ r.next = next
    BY <1>4, <1>5, <2>1 DEF Idle, Call
  <2>4. ASSUME Holds(x), NEW p \in kept, r.more => p < r.next
        PROVE  p \in PointsOf(to) \cup page
    <3>1. CASE p < x.next
      BY <1>6, <2>4, <3>1 DEF Upto
    <3>2. CASE p \in Left(c, from)
      <4>1. ASSUME p \in rest PROVE FALSE
        <5>1. next <= p /\ p \in Nat /\ rest # {}
          BY <1>4, <1>5, <4>1
        <5>2. r.more = TRUE
          BY <2>3, <5>1
        <5>3. p < next
          BY <2>3, <2>4, <5>2
        <5> QED
          BY <1>5, <5>1, <5>3
      <4> QED
        BY <3>2, <4>1 DEF rest
    <3> QED
      BY <1>6, <1>7, <2>4, <3>1, <3>2
  <2>5. Holds(x) => Holds(r)
    BY <1>6, <2>3, <2>4 DEF Holds, WithPage, to
  <2>6. Holds(r)' <=> Holds(r)
    BY <1>3 DEF Holds, Whole, Copied, Upto, WithPage, history
  <2>7. PointsSurvive'
    BY <1>3 DEF SInv, PointsSurvive, history
  <2>8. r.pc \notin Inits /\ (Behind(r) => Behind(x))
    BY <1>2, <2>3 DEF Inits, Behind
  <2> QED
    BY <1>1, <1>3, <1>8, <2>2, <2>3, <2>5, <2>6, <2>7, <2>8, CopyStep
<1> QED
  BY <1>9, <1>10, <1>11

(* A page is written to the collection to, which becomes filled.           *)
LEMMA FillFacts ==
  ASSUME NEW x \in Call, NEW to \in Collection, to # None, NEW filled,
         filled = [to EXCEPT !.points = @ \cup x.page]
  PROVE  /\ filled \in Collection /\ filled # None
         /\ PointsOf(filled) = PointsOf(to) \cup x.page
         /\ filled.sparse <=> to.sparse
<1>1. to.points \subseteq Points /\ x.page \subseteq Points /\ PointsOf(to) = to.points
  BY PointsType DEF Call
<1>2. PICK S \in SUBSET Points : S = to.points \cup x.page
  BY <1>1
<1>3. filled = [to EXCEPT !.points = S]
  BY <1>2 DEF Collection
<1> QED
  BY <1>1, <1>2, <1>3, PutType

(* Where the call goes then.                                               *)
LEMMA TurnFacts ==
  ASSUME NEW c \in Calls, NEW x \in Call, x = call[c], NEW from \in {"scrollOut", "scrollBack"},
         NEW then \in {"drop", "tidy"}, Turn(c, from, then)
  PROVE  \E r \in Call :
           /\ call' = [call EXCEPT ![c] = r] /\ (r.seen => x.seen)
           /\ \/ x.more /\ r.pc = from /\ r.then = x.then /\ r.next = x.next
              \/ ~x.more /\ r.pc = then /\ r.then = "none"
<1>1. CASE x.more
  <2>1. PICK r : r = [x EXCEPT !.pc = from, !.page = {}]
    OBVIOUS
  <2>2. call' = [call EXCEPT ![c] = r]
    BY <1>1, <2>1 DEF Turn, Becomes
  <2>3. r \in Call /\ r.pc = from /\ r.then = x.then /\ r.next = x.next /\ r.seen = x.seen
    BY <2>1 DEF Call
  <2> QED
    BY <1>1, <2>2, <2>3
<1>2. CASE ~x.more
  <2>1. PICK r : r = [Idle EXCEPT !.pc = then]
    OBVIOUS
  <2>2. call' = [call EXCEPT ![c] = r]
    BY <1>2, <2>1 DEF Turn, Go, Becomes
  <2>3. r \in Call /\ r.pc = then /\ r.then = "none" /\ r.seen = FALSE
    BY <2>1 DEF Idle, Call
  <2> QED
    BY <1>2, <2>2, <2>3
<1> QED
  BY <1>1, <1>2

LEMMA WritesOutStep ==
  ASSUME SInv, NEW c \in Calls, WritesOut(c) PROVE SInv'
<1>1. CASE tmp = None
  <2>1. Go(c, "idle") /\ UNCHANGED <<main, tmp, flags, history>>
    BY <1>1 DEF WritesOut, Steps
  <2> QED
    BY <2>1, Ends DEF Outside
<1>2. CASE tmp # None
  <2>1. PICK x : x = call[c]
    OBVIOUS
  <2>2. x \in Call /\ x.pc = "writeOut" /\ Copies(x)
    BY <2>1, IsOK DEF WritesOut, At, CallOK, Copies
  <2>3. /\ tmp' = [tmp EXCEPT !.points = @ \cup x.page]
        /\ Turn(c, "scrollOut", "drop") /\ UNCHANGED <<main, flags, history>>
    BY <1>2, <2>1 DEF WritesOut, Filled, Steps
  <2>4. tmp' \in Collection /\ PointsOf(tmp') = PointsOf(tmp) \cup x.page
    BY <1>2, <2>2, <2>3, FillFacts DEF SInv, TypeOK
  <2>5. PICK r \in Call :
          /\ call' = [call EXCEPT ![c] = r] /\ (r.seen => x.seen)
          /\ \/ x.more /\ r.pc = "scrollOut" /\ r.then = x.then /\ r.next = x.next
             \/ ~x.more /\ r.pc = "drop" /\ r.then = "none"
    BY <2>1, <2>2, <2>3, TurnFacts
  <2>6. ASSUME Holds(x) PROVE Holds(r)'
    <3>1. Whole' /\ WithPage(x, tmp)
      BY <2>2, <2>3, <2>6 DEF Holds, Whole, history
    <3>2. x.then = "scrollBack" => Copied'
      BY <2>3, <2>4, <2>6 DEF Holds, Copied, history
    <3>3. x.more /\ r.next = x.next => Upto(r, tmp)'
      BY <2>3, <2>4, <3>1 DEF WithPage, Upto, history
    <3>4. ~x.more => Copied'
      BY <2>3, <2>4, <3>1 DEF WithPage, Copied, history
    <3> QED
      BY <2>5, <3>1, <3>2, <3>3, <3>4 DEF Holds
  <2>7. PointsSurvive'
    BY <2>3, <2>4 DEF SInv, PointsSurvive, history
  <2>8. r.pc \notin Inits /\ (Behind(r) => Behind(x))
    BY <2>5 DEF Inits, Behind
  <2>9. main' \in Collection /\ (NotDense => NotDense')
    BY <2>3 DEF SInv, TypeOK, NotDense
  <2> QED
    BY <2>1, <2>2, <2>3, <2>4, <2>5, <2>6, <2>7, <2>8, <2>9, CopyStep
<1> QED
  BY <1>1, <1>2

LEMMA WritesBackStep ==
  ASSUME SInv, NEW c \in Calls, WritesBack(c) PROVE SInv'
<1>1. CASE main = None
  <2>1. Go(c, "idle") /\ UNCHANGED <<main, tmp, flags, history>>
    BY <1>1 DEF WritesBack, Steps
  <2> QED
    BY <2>1, Ends DEF Outside
<1>2. CASE main # None
  <2>1. PICK x : x = call[c]
    OBVIOUS
  <2>2. x \in Call /\ x.pc = "writeBack" /\ Copies(x)
    BY <2>1, IsOK DEF WritesBack, At, CallOK, Copies
  <2>3. /\ main' = [main EXCEPT !.points = @ \cup x.page]
        /\ Turn(c, "scrollBack", "tidy") /\ UNCHANGED <<tmp, flags, history>>
    BY <1>2, <2>1 DEF WritesBack, Filled, Steps
  <2>4. /\ main' \in Collection /\ main' # None
        /\ PointsOf(main') = PointsOf(main) \cup x.page
        /\ main'.sparse <=> main.sparse
    BY <1>2, <2>2, <2>3, FillFacts DEF SInv, TypeOK
  <2>5. PICK r \in Call :
          /\ call' = [call EXCEPT ![c] = r] /\ (r.seen => x.seen)
          /\ \/ x.more /\ r.pc = "scrollBack" /\ r.then = x.then /\ r.next = x.next
             \/ ~x.more /\ r.pc = "tidy" /\ r.then = "none"
    BY <2>1, <2>2, <2>3, TurnFacts
  <2>6. ASSUME Holds(x) PROVE Holds(r)'
    <3>1. Copied' /\ WithPage(x, main)
      BY <2>2, <2>3, <2>6 DEF Holds, Copied, history
    <3>2. x.more /\ r.next = x.next => Upto(r, main)'
      BY <2>3, <2>4, <3>1 DEF WithPage, Upto, history
    <3>3. ~x.more => Whole'
      BY <2>3, <2>4, <3>1 DEF WithPage, Whole, history
    <3> QED
      BY <2>4, <2>5, <3>1, <3>2, <3>3 DEF Holds
  <2>7. PointsSurvive'
    BY <2>3, <2>4 DEF SInv, PointsSurvive, history
  <2>8. r.pc \notin Inits /\ Behind(x)
    BY <2>2, <2>5 DEF Inits, Behind
  <2>9. tmp' \in Collection /\ (NotDense => NotDense')
    BY <1>2, <2>3, <2>4 DEF SInv, TypeOK, NotDense
  <2> QED
    BY <2>1, <2>2, <2>3, <2>4, <2>5, <2>6, <2>7, <2>8, <2>9, CopyStep
<1> QED
  BY <1>1, <1>2

LEMMA DropsStep ==
  ASSUME SInv, NEW c \in Calls, Drops(c) PROVE SInv'
<1>1. PICK r : r = [Idle EXCEPT !.pc = "reset"]
  OBVIOUS
<1>2. call' = [call EXCEPT ![c] = r] /\ main' = None /\ UNCHANGED <<tmp, flags, history>>
  BY <1>1 DEF Drops, Go, Becomes, Steps
<1>3. r \in Call /\ r.pc = "reset" /\ r.then = "none" /\ r.seen = FALSE
  BY <1>1 DEF Idle, Call
<1>4. call[c].pc = "drop" /\ Copies(call[c])
  BY DEF Drops, At, Copies
<1>5. Holds(call[c]) => Holds(r)' /\ PointsSurvive'
  BY <1>2, <1>3, <1>4 DEF Holds, Copied, PointsSurvive, history
<1>6. main' \in Collection /\ tmp' \in Collection /\ NotDense'
  BY <1>2 DEF SInv, TypeOK, NotDense, Collection
<1>7. r.pc \notin Inits
  BY <1>3 DEF Inits
<1> QED
  BY <1>2, <1>3, <1>4, <1>5, <1>6, <1>7, CopyStep

LEMMA ResetsStep ==
  ASSUME SInv, NEW c \in Calls, Resets(c) PROVE SInv'
<1>1. PICK r : r = [Idle EXCEPT !.pc = "look", !.then = "scrollBack"]
  OBVIOUS
<1>2. /\ call' = [call EXCEPT ![c] = r] /\ UNCHANGED <<main, tmp, history>>
      /\ initialized' = FALSE /\ sparseEnabled' = FALSE
  BY <1>1 DEF Resets, Becomes
<1>3. r \in Call /\ r.pc = "look" /\ r.then = "scrollBack" /\ r.seen = FALSE
  BY <1>1, LookIs DEF Returns
<1>4. PICK x : x = call[c]
  OBVIOUS
<1>5. CallOK(x) /\ x.pc = "reset" /\ Copies(x) /\ Behind(x)
  BY <1>4, IsOK DEF Resets, At, Copies, Behind
<1>6. Turns(c, r)
  BY <1>2 DEF SInv, TypeOK, Turns, history, NotDense
<1>7. Grows
  BY <1>2 DEF Grows
<1>8. ASSUME ~overlap' PROVE Holds(r)'
  <2>1. Copied'
    BY <1>2, <1>5, <1>8 DEF CallOK, Holds, Copied, history
  <2> QED
    BY <1>3, <2>1 DEF Holds
<1>9. NotDense'
  BY <1>5, <1>6 DEF CallOK, Turns
<1>10. CallOK(r)'
  BY <1>3, <1>8, <1>9 DEF CallOK, Returns
<1> QED
  BY <1>4, <1>5, <1>6, <1>7, <1>10, Moves

LEMMA TidiesStep ==
  ASSUME SInv, NEW c \in Calls, Tidies(c) PROVE SInv'
<1>1. PICK r : r = [Idle EXCEPT !.pc = "end"]
  OBVIOUS
<1>2. /\ call' = [call EXCEPT ![c] = r] /\ tmp' \in {tmp, None}
      /\ UNCHANGED <<main, flags, history>>
  BY <1>1 DEF Tidies, Removes, Go, Becomes
<1>3. r \in Call /\ r.pc = "end" /\ r.then = "none" /\ r.seen = FALSE
  BY <1>1 DEF Idle, Call
<1>4. call[c].pc = "tidy" /\ Copies(call[c]) /\ Behind(call[c])
  BY DEF Tidies, At, Copies, Behind
<1>5. Holds(call[c]) => Holds(r)' /\ PointsSurvive'
  BY <1>2, <1>3, <1>4 DEF Holds, Whole, PointsSurvive, history
<1>6. main' \in Collection /\ tmp' \in Collection /\ (NotDense => NotDense')
  BY <1>2 DEF SInv, TypeOK, NotDense, Collection
<1>7. r.pc \notin Inits
  BY <1>3 DEF Inits
<1> QED
  BY <1>2, <1>3, <1>4, <1>5, <1>6, <1>7, CopyStep

LEMMA AnswersStep ==
  ASSUME SInv, NEW c \in Calls, Answers(c) PROVE SInv'
<1>1. PICK r : r = [Idle EXCEPT !.pc = "idle"]
  OBVIOUS
<1>2. /\ call' = [call EXCEPT ![c] = r] /\ sparseEnabled' = TRUE
      /\ UNCHANGED <<main, tmp, initialized, history>>
  BY <1>1 DEF Answers, Go, Becomes
<1>3. NotDense
  BY IsOK DEF Answers, At, CallOK, Behind
<1>4. Turns(c, r)
  BY <1>2, <1>3 DEF SInv, TypeOK, Turns, flags, history, NotDense
<1>5. Grows
  BY <1>2 DEF Grows, history
<1> QED
  BY <1>1, <1>4, <1>5, Stops DEF Outside

LEMMA FailsStep ==
  ASSUME SInv, NEW c \in Calls, Fails(c) PROVE SInv'
BY Ends DEF Fails, Outside

LEMMA RestartStep ==
  ASSUME SInv, Restart PROVE SInv'
<1>1. /\ UNCHANGED <<main, tmp, kept, overlap>>
      /\ initialized' = FALSE /\ sparseEnabled' = FALSE
      /\ call' = [c \in Calls |-> Idle]
  BY DEF Restart, history
<1>2. Idle \in Call /\ ~Idle.seen /\ ~Copies(Idle) /\ ~Behind(Idle) /\ Idle.pc \notin Inits
  BY DEF Idle, Call, Copies, Behind, Inits
<1>3. TypeOK'
  BY <1>1, <1>2 DEF SInv, TypeOK, flags
<1>4. ASSUME NEW c \in Calls PROVE call'[c] = Idle /\ CallOK(call[c])'
  BY <1>1, <1>2 DEF CallOK, Copies, Behind
<1>5. PointsSurvive'
  BY <1>1 DEF SInv, PointsSurvive
<1>6. \A c \in Calls : ~Copies(call'[c])
  BY <1>2, <1>4
<1> QED
  BY <1>1, <1>3, <1>4, <1>5, <1>6 DEF SInv, Copies

-----------------------------------------------------------------------------
(* The invariant.                                                          *)

LEMMA Start == Init => SInv
<1> SUFFICES ASSUME Init PROVE SInv
  OBVIOUS
<1>1. Idle \in Call /\ ~Idle.seen /\ ~Copies(Idle) /\ ~Behind(Idle) /\ Idle.pc \notin Inits
  BY DEF Idle, Call, Copies, Behind, Inits
<1>2. \A c \in Calls : call[c] = Idle
  BY DEF Init
<1>3. TypeOK
  BY <1>1 DEF Init, TypeOK, flags, Collection
<1>4. PointsSurvive
  BY DEF Init, PointsSurvive
<1> QED
  BY <1>1, <1>2, <1>3, <1>4 DEF Init, SInv, CallOK

LEMMA Step == SInv /\ [Next]_vars => SInv'
<1> SUFFICES ASSUME SInv, [Next]_vars PROVE SInv'
  OBVIOUS
<1>1. ASSUME NEW c \in Calls, Initializing(c) PROVE SInv'
  BY <1>1, LookStep, CreateStep, IndexStep, ConfigStep, ReadyStep DEF Initializing
<1>2. ASSUME NEW c \in Calls, Requests(c) PROVE SInv'
  BY <1>2, Enters DEF Requests
<1>3. ASSUME NEW c \in Calls, Write(c) PROVE SInv'
  BY <1>3, WriteStep
<1>4. ASSUME NEW c \in Calls, Migrates(c) PROVE SInv'
  <2>1. CASE Starts(c)
    BY <2>1, Enters DEF Starts, Steps
  <2>2. main \in Collection /\ tmp \in Collection
    BY DEF SInv, TypeOK
  <2>3. CASE Scroll(c, main, "scrollOut", "writeOut", "drop")
    BY <2>2, <2>3, ScrollStep
  <2>4. CASE Scroll(c, tmp, "scrollBack", "writeBack", "tidy")
    BY <2>2, <2>4, ScrollStep
  <2> QED
    BY <1>4, <2>1, <2>3, <2>4, ChecksStep, ClearsStep, MakesStep, WritesOutStep, DropsStep,
       ResetsStep, WritesBackStep, TidiesStep, AnswersStep DEF Migrates
<1>5. ASSUME NEW c \in Calls, Fails(c) PROVE SInv'
  BY <1>5, FailsStep
<1>6. CASE Restart
  BY <1>6, RestartStep
<1>7. CASE UNCHANGED vars
  <2>1. UNCHANGED <<main, tmp, initialized, sparseEnabled, call, kept, overlap>>
    BY <1>7 DEF vars, flags, history
  <2> QED
    BY <2>1 DEF SInv, TypeOK, flags, CallOK, Holds, Whole, Copied, Upto, WithPage, NotDense,
       Copies, Behind, PointsSurvive
<1> QED
  BY <1>1, <1>2, <1>3, <1>4, <1>5, <1>6, <1>7 DEF Next

LEMMA Invariant == Spec => []SInv
BY Start, Step, PTL DEF Spec

(* The adapter counts the collection as sparse only when it is, however    *)
(* requests, migrations, failures and stops interleave.                    *)
THEOREM TypeCorrect == Spec => []TypeOK
<1>1. SInv => TypeOK
  BY DEF SInv
<1> QED
  BY <1>1, Invariant, PTL

(* From the moment a migration clears the copy until one clears it again,  *)
(* every point that it found is in the collection or in the copy, unless   *)
(* users delete it or two migrations copy at a time.                       *)
THEOREM PointsSurvival == Spec => []PointsSurvive
<1>1. SInv => PointsSurvive
  BY DEF SInv
<1> QED
  BY <1>1, Invariant, PTL

(* A migration that was the only one to copy and is about to answer that   *)
(* it has migrated leaves a sparse collection with every point that it     *)
(* found, but those that users have deleted.                               *)
THEOREM MigrationWhole == Spec => []MigratedIsWhole
<1>1. ASSUME SInv PROVE MigratedIsWhole
  <2> SUFFICES ASSUME NEW c \in Calls, At(c, "end"), ~overlap
               PROVE  main # None /\ main.sparse /\ kept \subseteq main.points
    BY DEF MigratedIsWhole
  <2>1. PICK x : x = call[c]
    OBVIOUS
  <2>2. CallOK(x) /\ x.pc = "end" /\ Copies(x) /\ Behind(x)
    BY <1>1, <2>1, IsOK DEF At, Copies, Behind
  <2>3. main # None /\ Whole /\ NotDense
    BY <2>2 DEF CallOK, Holds
  <2> QED
    BY <2>3 DEF Whole, NotDense, PointsOf
<1> QED
  BY <1>1, Invariant, PTL
=============================================================================

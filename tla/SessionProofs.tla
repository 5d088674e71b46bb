---------------------------- MODULE SessionProofs ----------------------------
(***************************************************************************)
(* Theorems about Session, for any number of sessions, calls, turns and    *)
(* failures, and any limits.                                               *)
(***************************************************************************)
EXTENDS Session, NaturalsInduction, WellFoundedInduction, FiniteSetTheorems,
        SequenceTheorems, TLAPS

LEMMA MinIn == ASSUME NEW S \in SUBSET Nat, S # {} PROVE Min(S) \in S
<1> DEFINE R == OpToRel(<, Nat)
<1>1. IsWellFoundedOn(R, Nat)
  BY NatLessThanWellFounded, Zenon
<1> HIDE DEF R
<1>2. PICK m \in S : \A n \in S : <<n, m>> \notin R
  BY <1>1, WFMin
<1>3. \A n \in S : ~(n < m)
  BY <1>2 DEF R, OpToRel
<1>4. \A n \in S : m <= n
  BY <1>3
<1> QED
  BY <1>4 DEF Min

-----------------------------------------------------------------------------
(* Sequences of sessions, under their names.                               *)

(* No two sessions of s have one name in the objects obj.                  *)
Apart(s, obj) ==
  \A j, k \in DOMAIN s : obj[s[j]].name = obj[s[k]].name => j = k

(* Every session of t is one of s, in its place or further behind.         *)
Thinned(t, s) ==
  \E f \in [DOMAIN t -> DOMAIN s] :
    \A j, k \in DOMAIN t : t[j] = s[f[j]] /\ (f[j] = f[k] => j = k)

LEMMA ThinnedApart ==
  ASSUME NEW t, NEW s, NEW obj, Thinned(t, s), Apart(s, obj)
  PROVE  Apart(t, obj) /\ ToSet(t) \subseteq ToSet(s)
BY DEF Thinned, Apart, ToSet

(* The end of a sequence.                                                  *)
LEMMA Ends ==
  ASSUME NEW S, NEW s \in Seq(S), NEW k \in Nat
  PROVE  LET t == SubSeq(s, k + 1, Len(s))
         IN /\ t \in Seq(S) /\ Thinned(t, s)
            /\ Len(t) = IF k <= Len(s) THEN Len(s) - k ELSE 0
            /\ \A i \in 1 .. Len(t) : i + k \in 1 .. Len(s) /\ t[i] = s[i + k]
<1> DEFINE n == Len(s)
           t == SubSeq(s, k + 1, n)
<1>1. n \in Nat /\ DOMAIN s = 1 .. n /\ \A i \in 1 .. n : s[i] \in S
  BY LenProperties, ElementOfSeq
<1>2. /\ t \in Seq(S) /\ Len(t) = IF k <= n THEN n - k ELSE 0
      /\ \A i \in 1 .. Len(t) : i + k \in 1 .. n /\ t[i] = s[i + k]
  <2>1. CASE k <= n
    <3>1. /\ SubSeq(s, k + 1, n) \in Seq(S)
          /\ Len(SubSeq(s, k + 1, n)) = IF k + 1 <= n THEN n - (k + 1) + 1 ELSE 0
          /\ \A i \in 1 .. n - (k + 1) + 1 : SubSeq(s, k + 1, n)[i] = s[k + 1 + i - 1]
      BY <1>1, <2>1, SubSeqProperties
    <3> QED
      BY <1>1, <2>1, <3>1
  <2>2. CASE k > n
    <3>1. t = <<>>
      BY <1>1, <2>2, SubSeqEmpty
    <3> QED
      BY <1>1, <2>2, <3>1, EmptySeq
  <2> QED
    BY <1>1, <2>1, <2>2
<1>3. DOMAIN t = 1 .. Len(t) /\ Len(t) \in Nat
  BY <1>2, LenProperties
<1> HIDE DEF t
<1>4. Thinned(t, s)
  <2> DEFINE f == [i \in DOMAIN t |-> i + k]
  <2>1. f \in [DOMAIN t -> DOMAIN s]
    BY <1>1, <1>2, <1>3
  <2>2. \A j, l \in DOMAIN t : t[j] = s[f[j]] /\ (f[j] = f[l] => j = l)
    BY <1>2, <1>3
  <2> QED
    BY <2>1, <2>2 DEF Thinned
<1> QED
  BY <1>2, <1>4 DEF t

LEMMA Removes ==
  ASSUME NEW S, NEW s \in Seq(S), NEW k \in 1 .. Len(s)
  PROVE  LET t == RemoveAt(s, k)
         IN /\ t \in Seq(S) /\ Len(t) = Len(s) - 1
            /\ \A i \in 1 .. Len(t) : t[i] = IF i < k THEN s[i] ELSE s[i + 1]
<1> DEFINE n == Len(s)
           a == SubSeq(s, 1, k - 1)
           b == SubSeq(s, k + 1, n)
<1>1. n \in Nat /\ k \in Nat /\ 1 <= k /\ k <= n
  BY LenProperties
<1>2. a \in Seq(S) /\ Len(a) = k - 1 /\ \A i \in 1 .. k - 1 : a[i] = s[i]
  <2>1. CASE k = 1
    BY <1>1, <2>1, SubSeqEmpty, EmptySeq
  <2>2. CASE k > 1
    <3>1. /\ SubSeq(s, 1, k - 1) \in Seq(S)
          /\ Len(SubSeq(s, 1, k - 1)) = IF 1 <= k - 1 THEN k - 1 - 1 + 1 ELSE 0
          /\ \A i \in 1 .. k - 1 - 1 + 1 : SubSeq(s, 1, k - 1)[i] = s[1 + i - 1]
      BY <1>1, <2>2, SubSeqProperties
    <3> QED
      BY <1>1, <2>2, <3>1
  <2> QED
    BY <1>1, <2>1, <2>2
<1>3. /\ b \in Seq(S) /\ Len(b) = n - k
      /\ \A i \in 1 .. n - k : b[i] = s[i + k]
  BY <1>1, Ends
<1> HIDE DEF a, b
<1>4. /\ a \o b \in Seq(S) /\ Len(a \o b) = Len(a) + Len(b)
      /\ \A i \in 1 .. Len(a) + Len(b) : (a \o b)[i] = IF i <= Len(a) THEN a[i] ELSE b[i - Len(a)]
  BY <1>2, <1>3, ConcatProperties
<1>5. \A i \in 1 .. n - 1 : (a \o b)[i] = IF i < k THEN s[i] ELSE s[i + 1]
  <2> SUFFICES ASSUME NEW i \in 1 .. n - 1
               PROVE  (a \o b)[i] = IF i < k THEN s[i] ELSE s[i + 1]
    OBVIOUS
  <2>1. CASE i < k
    BY <1>1, <1>2, <1>3, <1>4, <2>1
  <2>2. CASE i >= k
    <3>1. i - (k - 1) \in 1 .. n - k /\ i - (k - 1) + k = i + 1
      BY <1>1, <2>2
    <3>2. b[i - (k - 1)] = s[i - (k - 1) + k]
      BY <1>3, <3>1
    <3>3. i \in 1 .. Len(a) + Len(b) /\ ~(i <= Len(a)) /\ i - Len(a) = i - (k - 1)
      BY <1>1, <1>2, <1>3, <2>2
    <3>4. (a \o b)[i] = b[i - (k - 1)]
      BY <1>4, <3>3
    <3>5. b[i - (k - 1)] = s[i + 1]
      BY <3>1, <3>2, Zenon
    <3> QED
      BY <1>1, <2>2, <3>4, <3>5
  <2>3. i < k \/ i >= k
    BY <1>1
  <2> QED
    BY <2>1, <2>2, <2>3, Zenon
<1>6. RemoveAt(s, k) = a \o b
  BY DEF RemoveAt, a, b
<1>7. Len(a \o b) = n - 1
  BY <1>1, <1>2, <1>3, <1>4
<1> HIDE DEF n
<1> QED
  BY <1>4, <1>5, <1>6, <1>7 DEF n

(* Without(s, n): the session named n is gone, the others stay.            *)
LEMMA WithoutGoes ==
  ASSUME NEW S, NEW s \in Seq(S), NEW n, Apart(s, object)
  PROVE  LET t == Without(s, n)
         IN /\ t \in Seq(S) /\ Thinned(t, s) /\ Len(t) <= Len(s)
            /\ n \in {object[o].name : o \in ToSet(s)} => Len(t) = Len(s) - 1
            /\ \A j \in DOMAIN t : object[t[j]].name # n
<1> DEFINE I == {i \in 1 .. Len(s) : object[s[i]].name = n}
           k == Min(I)
<1>1. Len(s) \in Nat /\ DOMAIN s = 1 .. Len(s)
  BY LenProperties
<1>2. CASE I = {}
  <2>1. Without(s, n) = s
    BY <1>2 DEF Without, RemoveFirstMatch
  <2>2. n \notin {object[o].name : o \in ToSet(s)} /\ \A j \in DOMAIN s : object[s[j]].name # n
    BY <1>1, <1>2 DEF ToSet
  <2>3. Thinned(s, s)
    <3>1. [i \in DOMAIN s |-> i] \in [DOMAIN s -> DOMAIN s]
      OBVIOUS
    <3> QED
      BY <3>1 DEF Thinned
  <2> QED
    <3> DEFINE t == Without(s, n)
    <3>1. t = s /\ Len(s) <= Len(s)
      BY <1>1, <2>1
    <3> HIDE DEF t
    <3>2. t \in Seq(S) /\ Thinned(t, s) /\ Len(t) <= Len(s)
      BY <2>3, <3>1, Zenon
    <3>3. \A j \in DOMAIN t : object[t[j]].name # n
      BY <2>2, <3>1, Zenon
    <3> QED
      BY <2>2, <3>2, <3>3, Zenon DEF t
<1>3. CASE I # {}
  <2>1. Without(s, n) = RemoveAt(s, k)
    BY <1>3 DEF Without, RemoveFirstMatch, SelectInSeq
  <2>2. k \in I
    <3>1. I \in SUBSET Nat
      BY <1>1
    <3> HIDE DEF I
    <3> QED
      BY <1>3, <3>1, MinIn
  <2> HIDE DEF k
  <2> DEFINE t == RemoveAt(s, k)
  <2>3. /\ t \in Seq(S) /\ Len(t) = Len(s) - 1
        /\ \A i \in 1 .. Len(t) : t[i] = IF i < k THEN s[i] ELSE s[i + 1]
    BY <2>2, Removes
  <2>4. DOMAIN t = 1 .. Len(s) - 1
    BY <2>3, LenProperties
  <2> HIDE DEF t
  <2> DEFINE f == [i \in DOMAIN t |-> IF i < k THEN i ELSE i + 1]
  <2>5. f \in [DOMAIN t -> DOMAIN s] /\ k \in Nat
    BY <1>1, <2>2, <2>4
  <2>6. \A j, l \in DOMAIN t : t[j] = s[f[j]] /\ (f[j] = f[l] => j = l) /\ f[j] # k
    BY <1>1, <2>2, <2>3, <2>4
  <2>7. Thinned(t, s)
    BY <2>5, <2>6 DEF Thinned
  <2>8. ASSUME NEW j \in DOMAIN t PROVE object[t[j]].name # n
    <3>1. t[j] = s[f[j]] /\ f[j] # k /\ f[j] \in DOMAIN s /\ k \in DOMAIN s /\ object[s[k]].name = n
      BY <1>1, <2>2, <2>5, <2>6
    <3> QED
      BY <3>1 DEF Apart
  <2> QED
    BY <1>1, <2>1, <2>3, <2>7, <2>8 DEF t
<1> QED
  BY <1>2, <1>3

(* A session enters behind others, none of which has its name.             *)
LEMMA AppendApart ==
  ASSUME NEW S, NEW s \in Seq(S), NEW o \in S, NEW obj, Apart(s, obj),
         \A j \in DOMAIN s : obj[s[j]].name # obj[o].name
  PROVE  /\ Append(s, o) \in Seq(S) /\ Len(Append(s, o)) = Len(s) + 1
         /\ Apart(Append(s, o), obj)
         /\ \A x \in ToSet(Append(s, o)) : x \in ToSet(s) \/ x = o
<1> DEFINE t == Append(s, o)
<1>1. /\ t \in Seq(S) /\ Len(t) = Len(s) + 1 /\ Len(s) \in Nat /\ t[Len(s) + 1] = o
      /\ \A i \in 1 .. Len(s) : t[i] = s[i]
      /\ DOMAIN s = 1 .. Len(s) /\ DOMAIN t = 1 .. Len(s) + 1
  BY AppendProperties, LenProperties
<1> HIDE DEF t
<1>2. \A i \in 1 .. Len(s) + 1 : i \in 1 .. Len(s) \/ i = Len(s) + 1
  BY <1>1
<1>3. Apart(t, obj)
  BY <1>1, <1>2 DEF Apart
<1>4. \A x \in ToSet(t) : x \in ToSet(s) \/ x = o
  BY <1>1, <1>2 DEF ToSet
<1> QED
  BY <1>1, <1>3, <1>4 DEF t
-----------------------------------------------------------------------------
(* The invariant.                                                          *)

Searching == {c \in Calls : At(c, "search")}

(* No turn of session o has made room for another.                         *)
Whole(o) == SaidTo(o) \subseteq ToSet(object[o].turns)

Verbatim(r) == {x.turn : x \in {y \in r.taken : y.kind = "verbatim"}}

Ending == {"archive", "ingest", "link", "extract", "part", "ended"}

(* What an endSession knows at each of its calls: turns that were long     *)
(* enough when it began are still among those it would take, or are to be  *)
(* extracted, or have been.                                                *)
EndOK(r) ==
  /\ r.pc = "search" => r.name \in Names
  /\ r.pc \in Ending => r.name \in Names /\ r.obj \in 1 .. started /\ r.archive \in Archive
  /\ r.pc = "archive" => r.taken = {}
  /\ r.pc \in Ending \ {"archive"} =>
       r.archive \in memories /\ \A x \in r.taken : Part(x, r.archive) \in parts
  /\ r.pc \in {"archive", "ingest", "link"} =>
       Verbatim(r) = {} /\ (Whole(r.obj) => r.due \subseteq LongTurns(r.obj))
  /\ r.pc = "link" => r.facts # {} /\ Facts(r.facts) \subseteq memories
  /\ r.pc \in {"extract", "part"} =>
       r.batch # {} /\ (Whole(r.obj) => r.due \subseteq r.batch \cup Verbatim(r))
  /\ r.pc = "part" => [kind |-> "verbatim", turn |-> Min(r.batch)] \in memories
  /\ r.pc = "ended" /\ Verbatim(r) # {} /\ Whole(r.obj) => r.due \subseteq Verbatim(r)

WindowOK(o) ==
  LET turns == object[o].turns
      kept  == ToSet(turns)
  IN /\ kept \subseteq SaidTo(o)
     /\ \A j, k \in DOMAIN turns : j < k => turns[j] < turns[k]
     /\ \A t \in SaidTo(o) \ kept, u \in kept : t < u
     /\ Len(turns) <= MaxTurns
     /\ kept # SaidTo(o) => Len(turns) > MaxTurns - DropTurns

Windows == \A o \in 1 .. started : WindowOK(o)

(* Who waits for a search has room for the session it will start.          *)
RoomOK == started + Cardinality(Searching) <= MaxStarts

(* The open sessions, the stores.                                          *)
Opened ==
  /\ sessions \in Seq(1 .. started) /\ Apart(sessions, object)
  /\ OpenNames \subseteq Names
  /\ SessionsBounded

StoreOK ==
  /\ memories \subseteq Memory
  /\ \A p \in parts : p.what \in memories \cap Extract /\ p.archive \in memories \cap Archive

SInv ==
  /\ object \in [Objects -> Object] /\ started \in 0 .. MaxStarts
  /\ owner \in Seq(1 .. started)
  /\ faults \in Nat
  /\ call \in [Calls -> Call] /\ \A c \in Calls : EndOK(call[c])
  /\ Opened /\ StoreOK /\ Windows /\ RoomOK

LEMMA Limits ==
  /\ MaxSessions \in Nat \ {0} /\ DropSessions \in Nat \ {0}
  /\ MaxTurns \in Nat \ {0} /\ DropTurns \in Nat \ {0} /\ DropTurns <= MaxTurns
  /\ MaxExtracts \in Nat /\ MaxStarts \in Nat /\ MaxSaid \in Nat /\ MaxFaults \in Nat
BY SessionAssumption

LEMMA Numbers ==
  ASSUME SInv
  PROVE  /\ started \in Nat /\ started <= MaxStarts /\ 1 .. started \subseteq Objects
         /\ IsFiniteSet(Searching) /\ Cardinality(Searching) \in Nat
         /\ Len(sessions) \in Nat /\ DOMAIN sessions = 1 .. Len(sessions)
         /\ Len(owner) \in Nat /\ DOMAIN owner = 1 .. Len(owner)
         /\ \A o \in 1 .. started : object[o] \in Object
<1>1. IsFiniteSet(Searching) /\ Cardinality(Searching) \in Nat
  BY SessionAssumption, FS_Subset, FS_CardinalityType DEF Searching
<1> QED
  BY <1>1, Limits, LenProperties DEF SInv, Opened, Objects

LEMMA UnderIs ==
  ASSUME SInv, NEW n \in OpenNames
  PROVE  /\ Under(n) \in ToSet(sessions) /\ Under(n) \in 1 .. started
         /\ object[Under(n)].name = n /\ n \in Names
<1>1. \E o \in ToSet(sessions) : object[o].name = n
  BY DEF OpenNames
<1>2. Under(n) \in ToSet(sessions) /\ object[Under(n)].name = n
  BY <1>1 DEF Under
<1>3. ToSet(sessions) \subseteq 1 .. started
  BY ElementOfSeq, Numbers DEF SInv, Opened, ToSet
<1> QED
  BY <1>2, <1>3 DEF SInv, Opened

-----------------------------------------------------------------------------
(* The open sessions.                                                      *)

LEMMA OpenThins ==
  ASSUME SInv, UNCHANGED <<object, started>>,
         sessions' \in Seq(1 .. started), Thinned(sessions', sessions),
         Len(sessions') <= Len(sessions)
  PROVE  Opened'
<1>1. Apart(sessions', object) /\ ToSet(sessions') \subseteq ToSet(sessions)
  BY ThinnedApart DEF SInv, Opened
<1>2. OpenNames' \subseteq OpenNames
  BY <1>1 DEF OpenNames
<1>3. Len(sessions') \in Nat
  BY LenProperties
<1> QED
  BY <1>1, <1>2, <1>3, Numbers, Limits DEF SInv, Opened, SessionsBounded

LEMMA OpenStays ==
  ASSUME SInv, UNCHANGED <<object, started, sessions>> PROVE Opened'
BY DEF SInv, Opened, SessionsBounded, OpenNames

LEMMA OpenWithout ==
  ASSUME SInv, UNCHANGED <<object, started>>, NEW n, sessions' = Without(sessions, n)
  PROVE  Opened'
<1>1. /\ sessions' \in Seq(1 .. started) /\ Thinned(sessions', sessions)
      /\ Len(sessions') <= Len(sessions)
  BY WithoutGoes DEF SInv, Opened
<1> QED
  BY <1>1, OpenThins

SameNames == \A o \in 1 .. started : object'[o].name = object[o].name

LEMMA OpenTouches ==
  ASSUME SInv, NEW n \in OpenNames, sessions' = Touched(n), UNCHANGED started, SameNames
  PROVE  Opened'
<1> DEFINE t == Without(sessions, n)
           o == Under(n)
<1>1. /\ t \in Seq(1 .. started) /\ Thinned(t, sessions) /\ Len(t) = Len(sessions) - 1
      /\ \A j \in DOMAIN t : object[t[j]].name # n
  BY WithoutGoes DEF SInv, Opened, OpenNames
<1>2. o \in 1 .. started /\ object[o].name = n /\ n \in Names
  BY UnderIs
<1>3. Apart(t, object) /\ ToSet(t) \subseteq ToSet(sessions)
  BY <1>1, ThinnedApart DEF SInv, Opened
<1>4. sessions' = Append(t, o)
  BY DEF Touched
<1> HIDE DEF t, o
<1>5. \A j \in DOMAIN t : object[t[j]].name # object[o].name
  BY <1>1, <1>2, Zenon
<1>6. /\ Append(t, o) \in Seq(1 .. started) /\ Len(Append(t, o)) = Len(t) + 1
      /\ Apart(Append(t, o), object)
      /\ \A x \in ToSet(Append(t, o)) : x \in ToSet(t) \/ x = o
  <2>1. t \in Seq(1 .. started) /\ o \in 1 .. started /\ Apart(t, object)
    BY <1>1, <1>2, <1>3
  <2> QED
    BY <1>5, <2>1, AppendApart
<1>7. \A j \in DOMAIN sessions' : sessions'[j] \in 1 .. started
  BY <1>4, <1>6, ElementOfSeq, LenProperties
<1>8. Apart(sessions', object')
  BY <1>4, <1>6, <1>7 DEF Apart, SameNames
<1>9. OpenNames' \subseteq Names
  <2>1. ToSet(sessions') \subseteq 1 .. started
    BY <1>7 DEF ToSet
  <2>2. \A x \in ToSet(sessions') : object'[x].name \in Names
    BY <1>2, <1>3, <1>4, <1>6, <2>1 DEF SInv, Opened, OpenNames, SameNames
  <2> QED
    BY <2>2 DEF OpenNames
<1>10. Len(sessions') = Len(sessions)
  BY <1>1, <1>4, <1>6, Numbers
<1> QED
  BY <1>4, <1>6, <1>8, <1>9, <1>10 DEF SInv, Opened, SessionsBounded

LEMMA OpenEnters ==
  ASSUME SInv, NEW c \in Calls, NEW n \in Names, StartEnter(c, n), started < MaxStarts
  PROVE  Opened'
<1> DEFINE s == MakeRoom
           t == Without(s, n)
           o == started + 1
<1>1. /\ started' = o /\ sessions' = Append(t, o)
      /\ object' = [object EXCEPT ![o] = [name |-> n, turns |-> <<>>]]
  BY DEF StartEnter
<1>2. /\ s \in Seq(1 .. started) /\ Apart(s, object) /\ Len(s) < MaxSessions
      /\ ToSet(s) \subseteq ToSet(sessions)
  <2>1. CASE Len(sessions) >= MaxSessions
    <3>1. /\ s \in Seq(1 .. started) /\ Thinned(s, sessions)
          /\ Len(s) = IF DropSessions <= Len(sessions) THEN Len(sessions) - DropSessions ELSE 0
      BY <2>1, Ends, Limits DEF MakeRoom, SInv, Opened
    <3>2. Len(s) < MaxSessions
      BY <3>1, Numbers, Limits DEF SInv, Opened, SessionsBounded
    <3> QED
      BY <3>1, <3>2, ThinnedApart DEF SInv, Opened
  <2>2. CASE Len(sessions) < MaxSessions
    BY <2>2, Numbers, Limits DEF MakeRoom, SInv, Opened
  <2> QED
    BY <2>1, <2>2, Numbers, Limits
<1> HIDE DEF s
<1>3. /\ t \in Seq(1 .. started) /\ Thinned(t, s) /\ Len(t) <= Len(s)
      /\ \A j \in DOMAIN t : object[t[j]].name # n
  BY <1>2, WithoutGoes
<1>4. Apart(t, object) /\ ToSet(t) \subseteq ToSet(s)
  BY <1>2, <1>3, ThinnedApart
<1> HIDE DEF t
<1>5. \A j \in DOMAIN t : t[j] \in 1 .. started
  BY <1>3, ElementOfSeq, LenProperties
<1>6. /\ object'[o] = [name |-> n, turns |-> <<>>] /\ o \in Objects
      /\ \A x \in 1 .. started : object'[x] = object[x]
  BY <1>1, Numbers, Limits DEF SInv, Objects
<1>7. Apart(t, object') /\ \A j \in DOMAIN t : object'[t[j]].name # object'[o].name
  BY <1>3, <1>4, <1>5, <1>6 DEF Apart
<1>8. t \in Seq(1 .. started') /\ o \in 1 .. started'
  <2>1. 1 .. started \subseteq 1 .. started' /\ o \in 1 .. started'
    BY <1>1, Numbers
  <2> QED
    BY <1>3, <2>1, SeqMonotonic
<1>9. /\ sessions' \in Seq(1 .. started') /\ Len(sessions') = Len(t) + 1
      /\ Apart(sessions', object')
      /\ \A x \in ToSet(sessions') : x \in ToSet(t) \/ x = o
  <2> HIDE DEF o
  <2>1. /\ Append(t, o) \in Seq(1 .. started') /\ Len(Append(t, o)) = Len(t) + 1
        /\ Apart(Append(t, o), object')
        /\ \A x \in ToSet(Append(t, o)) : x \in ToSet(t) \/ x = o
    BY <1>7, <1>8, AppendApart
  <2> QED
    BY <1>1, <2>1, Zenon
<1>10. OpenNames' \subseteq Names
  <2>1. ToSet(t) \subseteq 1 .. started
    BY <1>5 DEF ToSet
  <2>2. \A x \in ToSet(t) : object'[x].name \in Names
    BY <1>2, <1>4, <1>6, <2>1 DEF SInv, Opened, OpenNames
  <2> QED
    BY <1>6, <1>9, <2>2 DEF OpenNames
<1>11. Len(sessions') <= MaxSessions
  BY <1>2, <1>3, <1>9, LenProperties, Limits
<1> QED
  BY <1>9, <1>10, <1>11 DEF Opened, SessionsBounded
-----------------------------------------------------------------------------
(* The calls.                                                              *)

(* What an endSession relies on only grows.                                *)
Grows ==
  /\ memories \subseteq memories' /\ parts \subseteq parts'
  /\ started' \in Nat /\ started <= started'
  /\ \A o \in 1 .. started :
       Whole(o)' => Whole(o) /\ LongTurns(o) \subseteq LongTurns(o)'

LEMMA EndGrows ==
  ASSUME SInv, NEW r, EndOK(r), Grows PROVE EndOK(r)'
<1>1. 1 .. started \subseteq 1 .. started' /\ started \in Nat
  BY Numbers DEF Grows
<1>2. /\ r.pc = "search" => r.name \in Names
      /\ r.pc \in Ending => r.name \in Names /\ r.obj \in 1 .. started' /\ r.archive \in Archive
      /\ r.pc = "archive" => r.taken = {}
      /\ r.pc \in Ending \ {"archive"} =>
           r.archive \in memories' /\ \A x \in r.taken : Part(x, r.archive) \in parts'
      /\ r.pc = "link" => r.facts # {} /\ Facts(r.facts) \subseteq memories'
      /\ r.pc = "part" => [kind |-> "verbatim", turn |-> Min(r.batch)] \in memories'
  BY <1>1 DEF EndOK, Grows
<1>3. r.pc \in Ending => r.obj \in 1 .. started
  BY DEF EndOK
<1>4. r.pc \in {"archive", "ingest", "link"} =>
        Verbatim(r) = {} /\ (Whole(r.obj)' => r.due \subseteq LongTurns(r.obj)')
  BY <1>3 DEF EndOK, Grows, Ending
<1>5. r.pc \in {"extract", "part"} =>
        r.batch # {} /\ (Whole(r.obj)' => r.due \subseteq r.batch \cup Verbatim(r))
  BY <1>3 DEF EndOK, Grows, Ending
<1>6. r.pc = "ended" /\ Verbatim(r) # {} /\ Whole(r.obj)' => r.due \subseteq Verbatim(r)
  BY <1>3 DEF EndOK, Grows, Ending
<1>7. Verbatim(r)' = Verbatim(r)
  BY DEF Verbatim
<1> QED
  BY <1>2, <1>4, <1>5, <1>6, <1>7 DEF EndOK

LEMMA Stays ==
  ASSUME SInv, UNCHANGED <<object, started, owner>>
  PROVE  /\ Windows' /\ started' \in Nat
         /\ \A o \in 1 .. started : Whole(o)' = Whole(o) /\ LongTurns(o)' = LongTurns(o)
         /\ memories \subseteq memories' /\ parts \subseteq parts' => Grows
<1>1. \A o \in 1 .. started : Whole(o)' = Whole(o) /\ LongTurns(o)' = LongTurns(o)
  BY DEF Whole, LongTurns, LongOf, SaidTo
<1>2. Windows'
  BY DEF SInv, Windows, WindowOK, SaidTo
<1> QED
  BY <1>1, <1>2, Numbers DEF Grows

LEMMA CallMoves ==
  ASSUME SInv, Grows, NEW c \in Calls, NEW r \in Call, Become(c, r), EndOK(r)'
  PROVE  /\ call' \in [Calls -> Call]
         /\ (\A d \in Calls : EndOK(call[d]))'
         /\ r.pc # "search" => Searching' = Searching \ {c}
<1>1. call' \in [Calls -> Call]
  BY DEF SInv, Become
<1>2. ASSUME NEW d \in Calls, NEW q, q = call[d]' PROVE EndOK(q)'
  <2>1. CASE d = c
    <3>1. q = r
      BY <1>2, <2>1 DEF SInv, Become
    <3> QED
      BY <3>1
  <2>2. CASE d # c
    <3>1. q = call[d]
      BY <1>2, <2>2 DEF SInv, Become
    <3>2. EndOK(q)
      BY <3>1 DEF SInv
    <3> QED
      BY <3>2, EndGrows
  <2> QED
    BY <2>1, <2>2
<1>3. (\A d \in Calls : EndOK(call[d]))'
  BY <1>2 DEF EndOK
<1>4. ASSUME r.pc # "search" PROVE Searching' = Searching \ {c}
  BY <1>4 DEF SInv, Become, Searching, At
<1> QED
  BY <1>1, <1>3, <1>4

LEMMA CallsStay ==
  ASSUME SInv, Grows, UNCHANGED call
  PROVE  (\A d \in Calls : EndOK(call[d]))' /\ Searching' = Searching
<1>1. ASSUME NEW d \in Calls, NEW q, q = call[d]' PROVE EndOK(q)'
  <2>1. q = call[d] /\ EndOK(q)
    BY <1>1 DEF SInv
  <2> QED
    BY <2>1, EndGrows
<1>2. (\A d \in Calls : EndOK(call[d]))'
  BY <1>1 DEF EndOK
<1> QED
  BY <1>2 DEF Searching, At

LEMMA RoomStays ==
  ASSUME SInv, started' = started, Searching' \subseteq Searching PROVE RoomOK'
<1>1. IsFiniteSet(Searching') /\ Cardinality(Searching') \in Nat
      /\ Cardinality(Searching') <= Cardinality(Searching)
  BY Numbers, FS_Subset, FS_CardinalityType
<1>2. started + Cardinality(Searching) <= MaxStarts
  BY DEF SInv, RoomOK
<1>3. started + Cardinality(Searching') <= MaxStarts
  BY <1>1, <1>2, Numbers, Limits
<1> QED
  BY <1>3 DEF RoomOK

(* The calls of the memory service only add to what it stores.             *)
Serves ==
  /\ UNCHANGED <<object, started, owner>>
  /\ StoreOK' /\ memories \subseteq memories' /\ parts \subseteq parts'
  /\ faults' \in Nat

LEMMA EndMoves ==
  ASSUME SInv, Serves, NEW c \in Calls, NEW r \in Call, r.pc # "search",
         Become(c, r), EndOK(r)',
         UNCHANGED sessions \/ \E n : sessions' = Without(sessions, n)
  PROVE  SInv'
<1>1. Grows /\ Windows'
  BY Stays DEF Serves
<1>2. call' \in [Calls -> Call] /\ (\A d \in Calls : EndOK(call[d]))' /\ Searching' = Searching \ {c}
  BY <1>1, CallMoves
<1>3. RoomOK'
  BY <1>2, RoomStays DEF Serves
<1>4. Opened'
  BY OpenStays, OpenWithout DEF Serves
<1>5. /\ object' \in [Objects -> Object] /\ started' \in 0 .. MaxStarts
      /\ owner' \in Seq(1 .. started')
  BY DEF SInv, Serves
<1> QED
  BY <1>1, <1>2, <1>3, <1>4, <1>5 DEF SInv, Serves

-----------------------------------------------------------------------------
(* endSession.                                                             *)

(* Once the archive is stored.                                             *)
Filed(r) ==
  /\ r.name \in Names /\ r.obj \in 1 .. started
  /\ r.archive \in Archive /\ r.archive \in memories'
  /\ \A x \in r.taken : Part(x, r.archive) \in parts'

(* And nothing is taken as it was said.                                    *)
Ready(r) ==
  /\ Filed(r) /\ Verbatim(r) = {}
  /\ Whole(r.obj) => r.due \subseteq LongTurns(r.obj)

LEMMA Closes ==
  ASSUME SInv, Serves, NEW c \in Calls, NEW r \in Call, Filed(r), Close(c, r),
         Verbatim(r) # {} /\ Whole(r.obj) => r.due \subseteq Verbatim(r)
  PROVE  SInv'
<1> DEFINE e == [r EXCEPT !.pc = "ended"]
<1>1. /\ e \in Call /\ e.pc = "ended" /\ e.name = r.name /\ e.obj = r.obj
      /\ e.archive = r.archive /\ e.taken = r.taken /\ e.due = r.due
  BY DEF Call
<1>2. Become(c, e) /\ sessions' = Without(sessions, r.name)
  BY DEF Close
<1> HIDE DEF e
<1>3. Verbatim(e) = Verbatim(r)
  BY <1>1 DEF Verbatim
<1>4. Whole(e.obj)' = Whole(e.obj)
  BY <1>1, Stays DEF Serves, Filed
<1>5. EndOK(e)'
  <2>1. Verbatim(e)' = Verbatim(e) /\ started' = started
    BY DEF Verbatim, Serves
  <2> QED
    BY <1>1, <1>3, <1>4, <2>1 DEF EndOK, Filed, Ending
<1> QED
  BY <1>1, <1>2, <1>5, EndMoves

LEMMA TurnsAre ==
  ASSUME SInv, NEW o \in 1 .. started
  PROVE  /\ object[o].turns \in Seq(Turns) /\ ToSet(object[o].turns) \subseteq Turns
         /\ LongTurns(o) \subseteq Turns /\ LongTurns(o) \subseteq ToSet(object[o].turns)
         /\ Turns \subseteq Nat
<1>1. object[o].turns \in Seq(Turns)
  BY Numbers DEF Object
<1>2. ToSet(object[o].turns) \subseteq Turns
  BY <1>1, ElementOfSeq, LenProperties DEF ToSet
<1> QED
  BY <1>1, <1>2, Limits DEF LongTurns, LongOf, Turns

LEMMA Heuristics ==
  ASSUME SInv, Serves, NEW c \in Calls, NEW r \in Call, Ready(r), Heuristic(c, r)
  PROVE  SInv'
<1>1. CASE LongTurns(r.obj) = {}
  BY <1>1, Closes DEF Heuristic, Ready
<1>2. CASE LongTurns(r.obj) # {}
  <2>1. LongTurns(r.obj) \subseteq Turns
    BY TurnsAre DEF Ready, Filed
  <2>2. PICK b : b = LongTurns(r.obj)
    OBVIOUS
  <2> DEFINE e == [r EXCEPT !.pc = "extract", !.batch = b, !.facts = {}]
  <2>3. /\ e \in Call /\ e.pc = "extract" /\ e.name = r.name /\ e.obj = r.obj
        /\ e.archive = r.archive /\ e.taken = r.taken /\ e.due = r.due
        /\ e.batch = LongTurns(r.obj)
    BY <2>1, <2>2 DEF Call
  <2>4. Become(c, e) /\ UNCHANGED sessions
    BY <1>2, <2>2 DEF Heuristic
  <2> HIDE DEF e
  <2>5. Whole(e.obj)' = Whole(e.obj)
    BY <2>3, Stays DEF Serves, Ready, Filed
  <2>6. EndOK(e)'
    <3>1. started' = started
      BY DEF Serves
    <3>2. (Whole(e.obj)' => e.due \subseteq e.batch \cup Verbatim(e))
      BY <2>3, <2>5 DEF Ready
    <3> QED
      BY <1>2, <2>3, <3>1, <3>2 DEF EndOK, Ready, Filed, Ending
  <2> QED
    BY <2>3, <2>4, <2>6, EndMoves
<1> QED
  BY <1>1, <1>2

(* A session keeps no more turns than were said.                           *)
LEMMA TurnsFit ==
  ASSUME SInv, NEW o \in 1 .. started PROVE Len(object[o].turns) \in 0 .. MaxSaid
<1> DEFINE w == object[o].turns
<1>1. w \in [1 .. Len(w) -> Turns] /\ Len(w) \in Nat /\ DOMAIN w = 1 .. Len(w)
  BY TurnsAre, LenProperties
<1>2. \A j, k \in DOMAIN w : j < k => w[j] < w[k]
  BY DEF SInv, Windows, WindowOK
<1>3. IsFiniteSet(Turns) /\ Cardinality(Turns) = MaxSaid
  BY FS_Interval, Limits DEF Turns
<1>4. IsFiniteSet(1 .. Len(w)) /\ Cardinality(1 .. Len(w)) = Len(w)
  BY <1>1, FS_Interval
<1> HIDE DEF w
<1>5. \A j, k \in 1 .. Len(w) : j # k => w[j] # w[k]
  BY <1>1, <1>2, TurnsAre
<1>6. ~(MaxSaid < Len(w))
  BY <1>1, <1>3, <1>4, <1>5, FS_PigeonHole
<1> QED
  BY <1>1, <1>6, Limits DEF w

LEMMA EndKnows ==
  ASSUME SInv, Serves, NEW c \in Calls, NEW r, r = call[c], r.pc \in Ending
  PROVE  /\ r \in Call /\ r.name \in Names /\ r.obj \in 1 .. started /\ r.archive \in Archive
         /\ r.pc # "archive" => Filed(r)
         /\ r.pc \in {"ingest", "link"} => Ready(r)
         /\ EndOK(r) /\ EndOK(r)'
<1>1. r \in Call /\ EndOK(r)
  BY DEF SInv
<1>2. EndOK(r)'
  BY <1>1, EndGrows, Stays DEF Serves
<1>3. r.name \in Names /\ r.obj \in 1 .. started /\ r.archive \in Archive
  BY <1>1 DEF EndOK
<1>4. ASSUME r.pc # "archive" PROVE Filed(r)
  BY <1>1, <1>4 DEF EndOK, Filed, Serves
<1>5. ASSUME r.pc \in {"ingest", "link"} PROVE Ready(r)
  <2>1. r.pc # "archive"
    BY <1>5
  <2> QED
    BY <1>1, <1>4, <1>5, <2>1 DEF EndOK, Ready
<1> QED
  BY <1>1, <1>2, <1>3, <1>4, <1>5

(* The call goes on to the LLM's extraction, which takes nothing yet.      *)
LEMMA Waits ==
  ASSUME SInv, Serves, NEW r, Ready(r), NEW e, e.name = r.name, e.obj = r.obj,
         e.archive = r.archive, e.due = r.due, Verbatim(e) = {},
         \A x \in e.taken : Part(x, e.archive) \in parts',
         e.pc \in {"ingest", "link"},
         e.pc = "link" => e.facts # {} /\ Facts(e.facts) \subseteq memories'
  PROVE  EndOK(e)'
<1>1. Whole(e.obj)' = Whole(e.obj) /\ LongTurns(e.obj)' = LongTurns(e.obj)
  BY Stays DEF Serves, Ready, Filed
<1>2. started' = started /\ Verbatim(e)' = Verbatim(e)
  BY DEF Serves, Verbatim
<1> QED
  BY <1>1, <1>2 DEF EndOK, Ready, Filed, Ending

LEMMA EndArchiveKeeps ==
  ASSUME SInv, NEW c \in Calls, EndArchive(c) PROVE SInv'
<1>1. PICK r : r = call[c]
  OBVIOUS
<1>2. r.pc = "archive" /\ Store(r.archive) /\ UNCHANGED <<object, started, owner>>
  BY <1>1 DEF EndArchive, At
<1>3. r.archive \in Archive
  BY <1>1, <1>2 DEF SInv, EndOK, Ending
<1>4. Serves
  BY <1>2, <1>3 DEF SInv, StoreOK, Store, Serves, Memory
<1>5. r \in Call /\ EndOK(r) /\ r.pc \in Ending
  BY <1>1, <1>2, <1>4, EndKnows DEF Ending
<1>6. Ready(r)
  <2>1. Verbatim(r) = {} /\ (Whole(r.obj) => r.due \subseteq LongTurns(r.obj))
    BY <1>2, <1>5 DEF EndOK
  <2>2. r.taken = {}
    BY <1>1, <1>2, <1>5 DEF EndOK
  <2> QED
    BY <1>2, <1>3, <1>5, <2>1, <2>2 DEF Ready, Filed, EndOK, Store
<1>7. CASE Close(c, r)
  BY <1>4, <1>5, <1>6, <1>7, Closes DEF Ready
<1>8. CASE Heuristic(c, r)
  BY <1>4, <1>5, <1>6, <1>8, Heuristics
<1>9. CASE /\ Become(c, [r EXCEPT !.pc = "ingest", !.batch = ToSet(object[r.obj].turns)])
           /\ UNCHANGED sessions
  <2>1. PICK b : b = ToSet(object[r.obj].turns)
    OBVIOUS
  <2>2. b \subseteq Turns
    BY <1>6, <2>1, TurnsAre DEF Ready, Filed
  <2> DEFINE e == [r EXCEPT !.pc = "ingest", !.batch = b]
  <2>3. /\ e \in Call /\ e.pc = "ingest" /\ e.name = r.name /\ e.obj = r.obj
        /\ e.archive = r.archive /\ e.taken = r.taken /\ e.due = r.due
    BY <1>5, <2>2 DEF Call
  <2>4. Become(c, e)
    BY <1>9, <2>1
  <2> HIDE DEF e
  <2>5. Verbatim(e) = {} /\ \A x \in e.taken : Part(x, e.archive) \in parts'
    BY <1>6, <2>3 DEF Ready, Filed, Verbatim
  <2>6. EndOK(e)'
    BY <1>4, <1>6, <2>3, <2>5, Waits
  <2> QED
    BY <1>4, <1>9, <2>3, <2>4, <2>6, EndMoves
<1> QED
  BY <1>1, <1>2, <1>7, <1>8, <1>9 DEF EndArchive

LEMMA EndIngestKeeps ==
  ASSUME SInv, NEW c \in Calls, EndIngest(c) PROVE SInv'
<1>1. PICK r : r = call[c]
  OBVIOUS
<1>2. PICK found \in SUBSET r.batch :
        /\ memories' = memories \cup Facts(found)
        /\ \/ Heuristic(c, r)
           \/ found = {} /\ Close(c, r)
           \/ /\ found # {}
              /\ Become(c, [r EXCEPT !.pc = "link", !.facts = found, !.batch = {}])
              /\ UNCHANGED sessions
  BY <1>1 DEF EndIngest
<1>3. r.pc = "ingest" /\ UNCHANGED <<object, started, owner, parts, faults>>
  BY <1>1 DEF EndIngest, At
<1>4. r \in Call /\ found \subseteq Turns
  BY <1>1 DEF SInv, Call
<1>5. Facts(found) \subseteq Extract
  BY <1>4 DEF Facts, Extract
<1>6. Serves
  BY <1>2, <1>3, <1>5 DEF SInv, StoreOK, Serves, Memory
<1>7. Ready(r)
  BY <1>1, <1>3, <1>6, EndKnows DEF Ending
<1>8. CASE Heuristic(c, r)
  BY <1>4, <1>6, <1>7, <1>8, Heuristics
<1>9. CASE Close(c, r)
  BY <1>4, <1>6, <1>7, <1>9, Closes DEF Ready
<1>10. CASE /\ found # {}
            /\ Become(c, [r EXCEPT !.pc = "link", !.facts = found, !.batch = {}])
            /\ UNCHANGED sessions
  <2> DEFINE e == [r EXCEPT !.pc = "link", !.facts = found, !.batch = {}]
  <2>1. /\ e \in Call /\ e.pc = "link" /\ e.name = r.name /\ e.obj = r.obj
        /\ e.archive = r.archive /\ e.taken = r.taken /\ e.due = r.due /\ e.facts = found
    BY <1>4 DEF Call
  <2>2. Become(c, e)
    BY <1>10
  <2> HIDE DEF e
  <2>3. Verbatim(e) = {} /\ \A x \in e.taken : Part(x, e.archive) \in parts'
    BY <1>7, <2>1 DEF Ready, Filed, Verbatim
  <2>4. EndOK(e)'
    BY <1>2, <1>6, <1>7, <1>10, <2>1, <2>3, Waits
  <2> QED
    BY <1>6, <1>10, <2>1, <2>2, <2>4, EndMoves
<1> QED
  BY <1>2, <1>8, <1>9, <1>10

LEMMA EndLinkKeeps ==
  ASSUME SInv, NEW c \in Calls, EndLink(c) PROVE SInv'
<1>1. PICK r : r = call[c]
  OBVIOUS
<1> DEFINE x == [kind |-> "fact", turn |-> Min(r.facts)]
           s == [r EXCEPT !.facts = @ \ {x.turn}, !.taken = @ \cup {x}]
<1>2. /\ r.pc = "link" /\ UNCHANGED <<object, started, owner, memories, faults>>
      /\ \/ /\ parts' = parts \cup {Part(x, r.archive)}
            /\ IF s.facts = {} THEN Close(c, s) ELSE Become(c, s) /\ UNCHANGED sessions
         \/ Heuristic(c, r) /\ UNCHANGED parts
  BY <1>1 DEF EndLink, At
<1>3. /\ r \in Call /\ r.facts # {} /\ Facts(r.facts) \subseteq memories
      /\ r.facts \subseteq Turns /\ r.taken \subseteq Extract
      /\ r.archive \in Archive /\ r.archive \in memories
  BY <1>1, <1>2 DEF SInv, EndOK, Call, Ending
<1>4. Min(r.facts) \in r.facts
  BY <1>3, MinIn, Limits DEF Turns
<1>5. x \in Extract /\ x \in memories /\ x.kind = "fact" /\ x.turn = Min(r.facts)
  BY <1>3, <1>4 DEF Extract, Facts
<1>6. /\ s \in Call /\ s.pc = "link" /\ s.name = r.name /\ s.obj = r.obj
      /\ s.archive = r.archive /\ s.taken = r.taken \cup {x} /\ s.due = r.due
      /\ s.facts = r.facts \ {Min(r.facts)}
  BY <1>2, <1>3, <1>5 DEF Call
<1> HIDE DEF x, s
<1>7. Serves
  <2>1. CASE UNCHANGED parts
    BY <1>2, <2>1 DEF SInv, StoreOK, Serves
  <2>2. CASE parts' = parts \cup {Part(x, r.archive)}
    BY <1>2, <1>3, <1>5, <2>2 DEF SInv, StoreOK, Serves, Part
  <2> QED
    BY <1>2, <2>1, <2>2
<1>8. Ready(r)
  BY <1>1, <1>2, <1>7, EndKnows DEF Ending
<1>9. CASE Heuristic(c, r)
  BY <1>3, <1>7, <1>8, <1>9, Heuristics
<1>10. CASE /\ parts' = parts \cup {Part(x, r.archive)}
            /\ IF s.facts = {} THEN Close(c, s) ELSE Become(c, s) /\ UNCHANGED sessions
  <2>1. Verbatim(s) = {}
    BY <1>5, <1>6, <1>8 DEF Ready, Verbatim
  <2>2. \A y \in s.taken : Part(y, s.archive) \in parts'
    BY <1>6, <1>8, <1>10 DEF Ready, Filed
  <2>3. Filed(s)
    BY <1>6, <1>8, <2>2 DEF Ready, Filed
  <2>4. CASE s.facts = {}
    BY <1>6, <1>7, <1>10, <2>1, <2>3, <2>4, Closes
  <2>5. CASE s.facts # {}
    <3>1. Facts(s.facts) \subseteq memories'
      BY <1>2, <1>3, <1>6 DEF Facts
    <3>2. EndOK(s)'
      BY <1>6, <1>7, <1>8, <2>1, <2>2, <2>5, <3>1, Waits
    <3> QED
      BY <1>6, <1>7, <1>10, <2>5, <3>2, EndMoves
  <2> QED
    BY <2>4, <2>5
<1> QED
  BY <1>2, <1>9, <1>10

LEMMA EndExtractKeeps ==
  ASSUME SInv, NEW c \in Calls, EndExtract(c) PROVE SInv'
<1>1. PICK r : r = call[c]
  OBVIOUS
<1> DEFINE m == [kind |-> "verbatim", turn |-> Min(r.batch)]
           e == [r EXCEPT !.pc = "part"]
<1>2. /\ r.pc = "extract" /\ Store(m) /\ Become(c, e)
      /\ UNCHANGED <<sessions, object, started, owner>>
  BY <1>1 DEF EndExtract, At
<1>3. r \in Call /\ r.batch # {} /\ r.batch \subseteq Turns
  BY <1>1, <1>2 DEF SInv, EndOK, Call
<1>4. Min(r.batch) \in r.batch
  BY <1>3, MinIn, Limits DEF Turns
<1>5. m \in Extract
  BY <1>3, <1>4 DEF Extract
<1>6. Serves
  BY <1>2, <1>5 DEF SInv, StoreOK, Store, Serves, Memory
<1>7. EndOK(r)' /\ r.name \in Names /\ r.obj \in 1 .. started
  BY <1>1, <1>2, <1>6, EndKnows DEF Ending
<1>8. /\ e \in Call /\ e.pc = "part" /\ e.name = r.name /\ e.obj = r.obj
      /\ e.archive = r.archive /\ e.taken = r.taken /\ e.due = r.due /\ e.batch = r.batch
  BY <1>3 DEF Call
<1>9. [kind |-> "verbatim", turn |-> Min(e.batch)] \in memories'
  BY <1>2, <1>8 DEF Store
<1> HIDE DEF e, m
<1>10. Verbatim(e)' = Verbatim(r)'
  BY <1>8 DEF Verbatim
<1>11. EndOK(e)'
  BY <1>2, <1>7, <1>8, <1>9, <1>10 DEF EndOK, Ending
<1> QED
  BY <1>2, <1>6, <1>8, <1>11, EndMoves

LEMMA EndPartKeeps ==
  ASSUME SInv, NEW c \in Calls, EndPart(c) PROVE SInv'
<1>1. PICK q : q = call[c]
  OBVIOUS
<1> DEFINE x == [kind |-> "verbatim", turn |-> Min(q.batch)]
           r == [q EXCEPT !.batch = @ \ {x.turn}, !.pc = "extract", !.taken = @ \cup {x}]
<1>2. /\ q.pc = "part" /\ UNCHANGED <<object, started, owner, memories, faults>>
      /\ parts' = parts \cup {Part(x, r.archive)}
      /\ IF r.batch = {} THEN Close(c, r) ELSE Become(c, r) /\ UNCHANGED sessions
  BY <1>1 DEF EndPart, At
<1>3. /\ q \in Call /\ q.batch # {} /\ q.batch \subseteq Turns /\ q.taken \subseteq Extract
      /\ q.archive \in Archive /\ q.archive \in memories /\ x \in memories
  BY <1>1, <1>2 DEF SInv, EndOK, Call, Ending
<1>4. Min(q.batch) \in q.batch
  BY <1>3, MinIn, Limits DEF Turns
<1>5. x \in Extract /\ x.kind = "verbatim" /\ x.turn = Min(q.batch)
  BY <1>3, <1>4 DEF Extract
<1>6. /\ r \in Call /\ r.pc = "extract" /\ r.name = q.name /\ r.obj = q.obj
      /\ r.archive = q.archive /\ r.taken = q.taken \cup {x} /\ r.due = q.due
      /\ r.batch = q.batch \ {Min(q.batch)}
  BY <1>3, <1>5 DEF Call
<1> HIDE DEF x, r
<1>7. Serves
  BY <1>2, <1>3, <1>5, <1>6 DEF SInv, StoreOK, Serves, Part
<1>8. Filed(q) /\ EndOK(q)
  BY <1>1, <1>2, <1>7, EndKnows DEF Ending
<1>9. Filed(r)
  BY <1>2, <1>6, <1>8 DEF Filed
<1>10. Min(q.batch) \in Verbatim(r) /\ Verbatim(q) \subseteq Verbatim(r)
  BY <1>5, <1>6 DEF Verbatim
<1>11. Whole(r.obj) => r.due \subseteq r.batch \cup Verbatim(r)
  BY <1>2, <1>6, <1>8, <1>10 DEF EndOK
<1>12. CASE r.batch = {}
  BY <1>2, <1>6, <1>7, <1>9, <1>11, <1>12, Closes
<1>13. CASE r.batch # {}
  <2>1. Whole(r.obj)' = Whole(r.obj)
    BY <1>7, <1>9, Stays DEF Serves, Filed
  <2>2. started' = started /\ Verbatim(r)' = Verbatim(r)
    BY <1>2 DEF Verbatim
  <2>3. EndOK(r)'
    BY <1>6, <1>9, <1>11, <1>13, <2>1, <2>2 DEF EndOK, Filed, Ending
  <2> QED
    BY <1>2, <1>6, <1>7, <1>13, <2>3, EndMoves
<1> QED
  BY <1>12, <1>13

LEMMA EndOfKeeps ==
  ASSUME SInv, NEW c \in Calls, NEW n \in Names, EndOf(c, n) PROVE SInv'
<1>1. /\ n \in OpenNames
      /\ UNCHANGED <<sessions, object, started, owner, store, faults>>
  BY DEF EndOf
<1>2. PICK o, w : o = Under(n) /\ w = LongTurns(o)
  OBVIOUS
<1>3. PICK a : /\ a \in {[kind |-> "archive", name |-> n, turns |-> Len(object[o].turns)]}
                        \cup [kind : {"summary"}, text : Summaries]
               /\ Become(c, [IdleCall EXCEPT !.pc = "archive", !.name = n, !.obj = o,
                                             !.archive = a, !.due = w])
  BY <1>2 DEF EndOf
<1>4. o \in 1 .. started
  BY <1>1, <1>2, UnderIs
<1>5. a \in Archive
  BY <1>3, <1>4, TurnsFit DEF Archive
<1>6. Serves
  BY <1>1 DEF SInv, StoreOK, Serves, store
<1> DEFINE r == [IdleCall EXCEPT !.pc = "archive", !.name = n, !.obj = o,
                                 !.archive = a, !.due = w]
<1>7. w \subseteq Turns /\ o \in Objects
  BY <1>2, <1>4, TurnsAre, Numbers
<1>8. /\ r \in Call /\ r.pc = "archive" /\ r.name = n /\ r.obj = o
      /\ r.archive = a /\ r.taken = {} /\ r.due = w
  BY <1>5, <1>7 DEF Call, IdleCall
<1>9. Become(c, r) /\ UNCHANGED sessions
  BY <1>1, <1>3
<1> HIDE DEF r
<1>10. Verbatim(r)' = {} /\ started' = started
  BY <1>1, <1>8 DEF Verbatim
<1>11. Whole(r.obj)' => r.due \subseteq LongTurns(r.obj)'
  BY <1>2, <1>4, <1>6, <1>8, Stays DEF Serves
<1>12. EndOK(r)'
  BY <1>4, <1>5, <1>8, <1>10, <1>11 DEF EndOK, Ending
<1> QED
  BY <1>6, <1>8, <1>9, <1>12, EndMoves

LEMMA Idle ==
  /\ IdleCall \in Call /\ IdleCall.pc = "idle" /\ EndOK(IdleCall) /\ EndOK(IdleCall)'
<1>1. IdleCall \in Call
  BY Limits DEF IdleCall, Call, Turns, Extract
<1>2. IdleCall.pc = "idle"
  BY DEF IdleCall
<1> QED
  BY <1>1, <1>2 DEF EndOK, Ending

LEMMA FinishKeeps ==
  ASSUME SInv, NEW c \in Calls, Answered(c) \/ Fail(c) PROVE SInv'
<1>1. /\ Become(c, IdleCall) /\ UNCHANGED sessions
      /\ UNCHANGED <<object, started, owner, memories, parts>>
  BY DEF Answered, Fail, Finish, store
<1>2. faults' \in Nat
  BY DEF Answered, Fail, SInv
<1>3. Serves
  BY <1>1, <1>2 DEF SInv, StoreOK, Serves
<1> QED
  BY <1>1, <1>3, Idle, EndMoves

-----------------------------------------------------------------------------
(* addTurn.                                                                *)

LEMMA Ascending ==
  ASSUME SInv, NEW o \in 1 .. started
  PROVE  WindowOK(o) /\ \A t \in SaidTo(o) : t \in 1 .. Len(owner)
BY Numbers DEF SInv, Windows, SaidTo

(* The turns w of a session lose k at their front, which leaves v, and t   *)
(* enters.                                                                 *)
Entered(w, t, k, v) ==
  /\ WithTurn(w, t) = Append(v, t) /\ WithTurn(w, t) \in Seq(Turns)
  /\ Len(v) + k = Len(w)
  /\ \A i \in 1 .. Len(v) : i + k \in 1 .. Len(w) /\ v[i] = w[i + k]
  /\ (k = 0 /\ Len(w) < MaxTurns) \/ (k = DropTurns /\ Len(w) = MaxTurns)

LEMMA TurnEnters ==
  ASSUME SInv, NEW o \in 1 .. started, NEW t, t = Len(owner) + 1, t \in Turns,
         NEW w, w = object[o].turns
  PROVE  \E k \in Nat, v \in Seq(Turns) : Entered(w, t, k, v)
<1>1. w \in Seq(Turns) /\ Len(w) \in Nat /\ Len(w) <= MaxTurns
  BY TurnsAre, LenProperties, Ascending DEF WindowOK
<1>2. CASE Len(w) >= MaxTurns
  <2> DEFINE v == SubSeq(w, DropTurns + 1, Len(w))
  <2>1. /\ v \in Seq(Turns) /\ Len(v) = Len(w) - DropTurns
        /\ \A i \in 1 .. Len(v) : i + DropTurns \in 1 .. Len(w) /\ v[i] = w[i + DropTurns]
    <3>1. DropTurns \in Nat /\ DropTurns <= Len(w)
      BY <1>1, <1>2, Limits
    <3> QED
      BY <1>1, <3>1, Ends
  <2>2. WithTurn(w, t) = Append(v, t)
    BY <1>2 DEF WithTurn
  <2> HIDE DEF v
  <2>3. Append(v, t) \in Seq(Turns)
    BY <2>1, AppendProperties
  <2>4. Len(v) + DropTurns = Len(w) /\ Len(w) = MaxTurns
    BY <1>1, <1>2, <2>1, Limits
  <2> QED
    BY <2>1, <2>2, <2>3, <2>4, Limits DEF Entered
<1>3. CASE Len(w) < MaxTurns
  <2>1. WithTurn(w, t) = Append(w, t)
    BY <1>1, <1>3, Limits DEF WithTurn
  <2>2. Append(w, t) \in Seq(Turns)
    BY <1>1, AppendProperties
  <2>3. Len(w) + 0 = Len(w) /\ \A i \in 1 .. Len(w) : i + 0 \in 1 .. Len(w) /\ w[i] = w[i + 0]
    BY <1>1
  <2> QED
    BY <1>1, <1>3, <2>1, <2>2, <2>3 DEF Entered
<1>4. Len(w) >= MaxTurns \/ Len(w) < MaxTurns
  BY <1>1, Limits
<1> QED
  BY <1>2, <1>3, <1>4, Zenon

LEMMA AddTurnKeeps ==
  ASSUME SInv, NEW c \in Calls, AddTurn(c) PROVE SInv'
<1>1. PICK n \in OpenNames :
        /\ owner' = Append(owner, Under(n))
        /\ object' = [object EXCEPT ![Under(n)].turns = WithTurn(@, Len(owner) + 1)]
        /\ sessions' = Touched(n)
  BY DEF AddTurn
<1>2. PICK o, t, w : o = Under(n) /\ t = Len(owner) + 1 /\ w = object[o].turns
  OBVIOUS
<1>3. /\ Len(owner) < MaxSaid /\ UNCHANGED <<started, call, memories, parts, faults>>
  BY DEF AddTurn, store
<1>4. o \in 1 .. started /\ o \in Objects /\ t \in Turns /\ t \in Nat
  BY <1>2, <1>3, UnderIs, Numbers, Limits DEF Turns
<1>5. PICK k \in Nat, v \in Seq(Turns) : Entered(w, t, k, v)
  BY <1>2, <1>4, TurnEnters
<1>6. /\ WithTurn(w, t) = Append(v, t) /\ WithTurn(w, t) \in Seq(Turns)
      /\ Len(v) + k = Len(w)
      /\ \A i \in 1 .. Len(v) : i + k \in 1 .. Len(w) /\ v[i] = w[i + k]
      /\ (k = 0 /\ Len(w) < MaxTurns) \/ (k = DropTurns /\ Len(w) = MaxTurns)
  BY <1>5 DEF Entered
<1> DEFINE new == Append(v, t)
<1>7. /\ object' \in [Objects -> Object]
      /\ object'[o].turns = new /\ object'[o].name = object[o].name
      /\ \A p \in 1 .. started : p # o => object'[p] = object[p]
  BY <1>1, <1>2, <1>4, <1>6, Numbers DEF SInv, Object
<1>8. /\ Len(new) = Len(v) + 1 /\ Len(v) \in Nat /\ new[Len(v) + 1] = t
      /\ DOMAIN v = 1 .. Len(v) /\ DOMAIN new = 1 .. Len(v) + 1
      /\ \A i \in 1 .. Len(v) : new[i] = v[i]
      /\ \A i \in 1 .. Len(v) + 1 : i \in 1 .. Len(v) \/ i = Len(v) + 1
  <2>1. /\ Append(v, t) \in Seq(Turns) /\ Len(Append(v, t)) = Len(v) + 1
        /\ \A i \in 1 .. Len(v) : Append(v, t)[i] = v[i]
        /\ Append(v, t)[Len(v) + 1] = t
    BY <1>4, AppendProperties
  <2> QED
    BY <2>1, LenProperties
<1> HIDE DEF new
<1>9. /\ owner' \in Seq(1 .. started) /\ DOMAIN owner' = 1 .. t
      /\ owner'[t] = o /\ \A i \in 1 .. Len(owner) : owner'[i] = owner[i]
  <2>1. /\ Append(owner, o) \in Seq(1 .. started) /\ Len(Append(owner, o)) = Len(owner) + 1
        /\ \A i \in 1 .. Len(owner) : Append(owner, o)[i] = owner[i]
        /\ Append(owner, o)[Len(owner) + 1] = o
    BY <1>4, AppendProperties DEF SInv
  <2>2. owner' = Append(owner, o)
    BY <1>1, <1>2
  <2> QED
    BY <1>2, <2>1, <2>2, LenProperties
<1>10. /\ \A i : i \in SaidTo(o)' <=> i \in SaidTo(o) \/ i = t
      /\ \A p \in 1 .. started : p # o => SaidTo(p)' = SaidTo(p)
  BY <1>2, <1>9, Numbers DEF SaidTo
<1>11. /\ Len(w) \in Nat /\ DOMAIN w = 1 .. Len(w) /\ Len(w) <= MaxTurns
       /\ \A i \in 1 .. Len(w) : w[i] \in SaidTo(o) /\ w[i] \in Nat
       /\ \A i, j \in 1 .. Len(w) : i < j => w[i] < w[j]
       /\ \A s \in SaidTo(o) : s \in Nat /\ s < t
       /\ \A s \in SaidTo(o) : s \notin ToSet(w) => \A i \in 1 .. Len(w) : s < w[i]
       /\ ToSet(w) # SaidTo(o) => Len(w) > MaxTurns - DropTurns
  <2>1. w \in Seq(Turns) /\ Len(w) \in Nat /\ DOMAIN w = 1 .. Len(w) /\ Turns \subseteq Nat
    BY <1>2, <1>4, TurnsAre, LenProperties
  <2>2. \A i \in 1 .. Len(w) : w[i] \in ToSet(w) /\ w[i] \in Nat
    BY <2>1, ElementOfSeq DEF ToSet
  <2>3. /\ ToSet(w) \subseteq SaidTo(o) /\ Len(w) <= MaxTurns
        /\ \A i, j \in DOMAIN w : i < j => w[i] < w[j]
        /\ \A s \in SaidTo(o) \ ToSet(w), u \in ToSet(w) : s < u
        /\ ToSet(w) # SaidTo(o) => Len(w) > MaxTurns - DropTurns
    BY <1>2, <1>4, Ascending DEF WindowOK
  <2>4. \A s \in SaidTo(o) : s \in Nat /\ s < t
    BY <1>2, <1>4, Ascending, Numbers
  <2> QED
    BY <2>1, <2>2, <2>3, <2>4
<1>12. /\ \A i \in 1 .. Len(v) + 1 : new[i] \in ToSet(new)
       /\ \A u \in ToSet(new) : \E i \in 1 .. Len(v) + 1 : u = new[i]
       /\ \A i \in 1 .. Len(w) : w[i] \in ToSet(w)
       /\ \A u \in ToSet(w) : \E i \in 1 .. Len(w) : u = w[i]
  BY <1>8, <1>11 DEF ToSet
<1>13. \A i \in 1 .. Len(v) : v[i] \in SaidTo(o) /\ v[i] \in Nat /\ v[i] < t
  BY <1>6, <1>11
<1>14. \A s \in SaidTo(o), i \in 1 .. Len(v) : s \notin ToSet(new) => s < v[i]
  <2> SUFFICES ASSUME NEW s \in SaidTo(o), NEW i \in 1 .. Len(v), s \notin ToSet(new)
               PROVE  s < w[i + k]
    BY <1>6
  <2>1. i + k \in 1 .. Len(w)
    BY <1>6
  <2>2. CASE s \notin ToSet(w)
    BY <1>11, <2>1, <2>2
  <2>3. CASE s \in ToSet(w)
    <3>1. PICK j \in 1 .. Len(w) : s = w[j]
      BY <1>12, <2>3
    <3>2. ASSUME j > k PROVE FALSE
      <4>1. j - k \in 1 .. Len(v) /\ j - k + k = j
        BY <1>6, <1>8, <1>11, <3>2
      <4>2. v[j - k] = w[j]
        BY <1>6, <4>1
      <4>3. new[j - k] = s /\ j - k \in 1 .. Len(v) + 1
        BY <1>8, <3>1, <4>1, <4>2
      <4> QED
        BY <1>12, <4>3
    <3>3. j < i + k
      BY <1>8, <1>11, <3>2
    <3> QED
      BY <1>11, <2>1, <3>1, <3>3
  <2> QED
    BY <2>2, <2>3
<1>15. WindowOK(o)'
  <2>1. ToSet(new) \subseteq SaidTo(o)'
    BY <1>8, <1>10, <1>12, <1>13
  <2>2. \A i, j \in DOMAIN new : i < j => new[i] < new[j]
    <3> SUFFICES ASSUME NEW i \in DOMAIN new, NEW j \in DOMAIN new, i < j
                 PROVE  new[i] < new[j]
      OBVIOUS
    <3>1. i \in 1 .. Len(v) /\ new[i] = v[i]
      BY <1>8
    <3>2. CASE j \in 1 .. Len(v)
      <4>1. i + k \in 1 .. Len(w) /\ j + k \in 1 .. Len(w) /\ i + k < j + k
        BY <1>6, <3>1, <3>2
      <4> QED
        BY <1>6, <1>8, <1>11, <3>1, <3>2, <4>1
    <3>3. CASE j = Len(v) + 1
      BY <1>8, <1>13, <3>1, <3>3
    <3> QED
      BY <1>8, <3>2, <3>3
  <2>3. \A s \in SaidTo(o)' \ ToSet(new), u \in ToSet(new) : s < u
    <3> SUFFICES ASSUME NEW s \in SaidTo(o)', s \notin ToSet(new), NEW u \in ToSet(new)
                 PROVE  s < u
      OBVIOUS
    <3>1. PICK i \in 1 .. Len(v) + 1 : u = new[i]
      BY <1>12
    <3>2. s \in SaidTo(o)
      BY <1>8, <1>10, <1>12
    <3> QED
      BY <1>8, <1>11, <1>14, <3>1, <3>2
  <2>4. Len(new) <= MaxTurns
    BY <1>6, <1>8, <1>11, Limits
  <2>5. ASSUME ToSet(new) # SaidTo(o)' PROVE Len(new) > MaxTurns - DropTurns
    <3>1. CASE k = DropTurns /\ Len(w) = MaxTurns
      BY <1>6, <1>8, <3>1, Limits
    <3>2. CASE k = 0
      <4>1. Len(v) = Len(w) /\ \A i \in 1 .. Len(w) : new[i] = w[i] /\ i \in 1 .. Len(v) + 1
        BY <1>6, <1>8, <1>11, <3>2
      <4>2. ToSet(w) # SaidTo(o)
        <5> SUFFICES ASSUME ToSet(w) = SaidTo(o) PROVE FALSE
          OBVIOUS
        <5>1. \A i \in SaidTo(o)' : i \in ToSet(new)
          <6>1. \A i \in ToSet(w) : i \in ToSet(new)
            BY <1>12, <4>1
          <6>2. t \in ToSet(new)
            BY <1>8, <1>12
          <6> QED
            BY <1>10, <6>1, <6>2
        <5> QED
          BY <2>1, <2>5, <5>1
      <4> QED
        BY <1>8, <1>11, <4>1, <4>2, Limits
    <3> QED
      BY <1>6, <3>1, <3>2
  <2> QED
    BY <1>7, <2>1, <2>2, <2>3, <2>4, <2>5 DEF WindowOK
<1>16. ASSUME Whole(o)' PROVE Whole(o) /\ LongTurns(o) \subseteq LongTurns(o)'
  <2>1. \A i \in SaidTo(o) : i \in ToSet(v)
    <3> SUFFICES ASSUME NEW i \in SaidTo(o) PROVE i \in ToSet(v)
      OBVIOUS
    <3>1. i \in ToSet(new) /\ i # t
      BY <1>7, <1>10, <1>11, <1>16 DEF Whole
    <3>2. PICK j \in 1 .. Len(v) + 1 : i = new[j]
      BY <1>12, <3>1
    <3> QED
      BY <1>8, <3>1, <3>2 DEF ToSet
  <2>2. \A i \in ToSet(v) : i \in ToSet(w)
    BY <1>6, <1>8, <1>11 DEF ToSet
  <2>3. \A i \in ToSet(w) : i \in SaidTo(o)
    BY <1>11, <1>12
  <2>4. LongOf(o) = ToSet(w) \cap Long /\ LongOf(o)' = ToSet(new) \cap Long
    BY <1>2, <1>7 DEF LongOf
  <2>5. \A i : i \in ToSet(new) <=> i \in ToSet(w) \/ i = t
    BY <1>7, <1>8, <1>10, <1>12, <1>13, <1>16, <2>1, <2>2, <2>3 DEF Whole
  <2>6. \A i \in LongOf(o) : {u \in LongOf(o)' : u < i} = {u \in LongOf(o) : u < i}
    <3> SUFFICES ASSUME NEW i \in LongOf(o)
                 PROVE  {u \in LongOf(o)' : u < i} = {u \in LongOf(o) : u < i}
      OBVIOUS
    <3>1. i \in Nat /\ i < t
      BY <1>11, <2>3, <2>4
    <3>2. \A u \in LongOf(o)' : u < i => u \in LongOf(o)
      BY <1>4, <2>4, <2>5, <3>1
    <3>3. \A u \in LongOf(o) : u \in LongOf(o)'
      BY <2>4, <2>5
    <3> QED
      BY <3>2, <3>3
  <2>7. LongTurns(o) \subseteq LongTurns(o)'
    <3> SUFFICES ASSUME NEW i \in LongTurns(o) PROVE i \in LongTurns(o)'
      OBVIOUS
    <3>1. i \in LongOf(o) /\ Cardinality({u \in LongOf(o) : u < i}) < MaxExtracts
      BY DEF LongTurns
    <3>2. i \in LongOf(o)' /\ Cardinality({u \in LongOf(o)' : u < i}) < MaxExtracts
      BY <2>4, <2>5, <2>6, <3>1
    <3> QED
      BY <3>2 DEF LongTurns
  <2> QED
    BY <1>2, <2>1, <2>2, <2>7 DEF Whole
<1>17. ASSUME NEW p \in 1 .. started, p # o
       PROVE  Whole(p)' = Whole(p) /\ LongTurns(p)' = LongTurns(p) /\ WindowOK(p)'
  <2>1. object'[p] = object[p] /\ SaidTo(p)' = SaidTo(p) /\ WindowOK(p)
    BY <1>7, <1>10, <1>17, Ascending
  <2> QED
    BY <2>1 DEF Whole, LongTurns, LongOf, WindowOK
<1>18. Grows /\ Windows'
  BY <1>3, <1>15, <1>16, <1>17, Numbers DEF Grows, Windows
<1>19. Opened'
  BY <1>1, <1>3, <1>7, OpenTouches DEF SameNames
<1>20. (\A d \in Calls : EndOK(call[d]))' /\ Searching' = Searching
  BY <1>3, <1>18, CallsStay
<1> QED
  BY <1>3, <1>7, <1>9, <1>18, <1>19, <1>20, RoomStays DEF SInv, StoreOK

-----------------------------------------------------------------------------
(* startSession, and the steps of the sessions alone.                      *)

LEMMA RestStays ==
  ASSUME SInv, UNCHANGED <<object, started, owner>>, StoreOK', RoomOK', Opened', faults' \in Nat,
         call' \in [Calls -> Call], (\A d \in Calls : EndOK(call[d]))'
  PROVE  SInv'
<1>1. Windows'
  BY Stays
<1> QED
  BY <1>1 DEF SInv

LEMMA SessionsMove ==
  ASSUME SInv, UNCHANGED <<object, started, owner, call, memories, parts, faults>>, Opened'
  PROVE  SInv'
<1>1. Grows
  BY Stays
<1>2. (\A d \in Calls : EndOK(call[d]))' /\ Searching' = Searching
  BY <1>1, CallsStay
<1>3. RoomOK' /\ StoreOK'
  BY <1>2, RoomStays DEF SInv, StoreOK
<1> QED
  BY <1>2, <1>3, RestStays DEF SInv

LEMMA GetContextKeeps ==
  ASSUME SInv, NEW c \in Calls, GetContext(c) PROVE SInv'
<1>1. Opened'
  BY OpenTouches DEF GetContext, SameNames
<1> QED
  BY <1>1, SessionsMove DEF GetContext, store

LEMMA CleanupKeeps == ASSUME SInv, Cleanup PROVE SInv'
<1>1. PICK k \in 1 .. Len(sessions) : sessions' = SubSeq(sessions, k + 1, Len(sessions))
  BY DEF Cleanup
<1>2. /\ sessions' \in Seq(1 .. started) /\ Thinned(sessions', sessions)
      /\ Len(sessions') = IF k <= Len(sessions) THEN Len(sessions) - k ELSE 0
  <2>1. sessions \in Seq(1 .. started) /\ k \in Nat
    BY Numbers DEF SInv, Opened
  <2> QED
    BY <1>1, <2>1, Ends
<1>3. Len(sessions') <= Len(sessions)
  BY <1>2, Numbers
<1>4. UNCHANGED <<object, started>>
  BY DEF Cleanup
<1>5. Opened'
  BY <1>2, <1>3, <1>4, OpenThins
<1> QED
  BY <1>5, SessionsMove DEF Cleanup, store

LEMMA UnknownKeeps == ASSUME SInv, Unknown \/ UNCHANGED vars PROVE SInv'
<1>1. UNCHANGED <<sessions, object, started, owner, call, memories, parts, faults>>
  BY DEF Unknown, vars, store
<1>2. Opened'
  BY <1>1, OpenStays
<1> QED
  BY <1>1, <1>2, SessionsMove

LEMMA RestartKeeps == ASSUME SInv, Restart PROVE SInv'
<1>1. /\ faults' \in Nat /\ sessions' = <<>> /\ call' = [c \in Calls |-> IdleCall]
      /\ UNCHANGED <<object, started, owner, memories, parts>>
  BY DEF Restart, SInv, store
<1>2. /\ sessions' \in Seq(1 .. started) /\ Len(sessions') = 0
      /\ DOMAIN sessions' = {}
  BY <1>1, EmptySeq
<1>3. Opened'
  BY <1>1, <1>2, Limits DEF Opened, Apart, OpenNames, ToSet, SessionsBounded
<1>4. call' \in [Calls -> Call] /\ \A d \in Calls : call'[d] = IdleCall
  BY <1>1, Idle
<1>5. ASSUME NEW d \in Calls, NEW q, q = call[d]' PROVE EndOK(q)'
  BY <1>4, <1>5, Idle
<1>6. (\A d \in Calls : EndOK(call[d]))'
  BY <1>5 DEF EndOK
<1>7. Searching' = {}
  BY <1>4, Idle DEF Searching, At
<1>8. RoomOK'
  BY <1>1, <1>7, RoomStays
<1>9. StoreOK'
  BY <1>1 DEF SInv, StoreOK
<1> QED
  BY <1>1, <1>3, <1>4, <1>6, <1>8, <1>9, RestStays

LEMMA StartSearchKeeps ==
  ASSUME SInv, NEW c \in Calls, StartSearch(c) PROVE SInv'
<1>1. PICK n \in Names : Become(c, [IdleCall EXCEPT !.pc = "search", !.name = n])
  BY DEF StartSearch
<1>2. /\ UNCHANGED <<sessions, object, started, owner, memories, parts, faults>>
      /\ At(c, "idle") /\ started + Cardinality(Searching) < MaxStarts
  BY DEF StartSearch, store, Room, Searching
<1> DEFINE r == [IdleCall EXCEPT !.pc = "search", !.name = n]
<1>3. r \in Call /\ r.pc = "search" /\ r.name = n
  BY Idle DEF IdleCall, Call
<1>4. Become(c, r)
  BY <1>1
<1> HIDE DEF r
<1>5. EndOK(r)'
  BY <1>3 DEF EndOK, Ending
<1>6. Grows
  BY <1>2, Stays
<1>7. call' \in [Calls -> Call] /\ (\A d \in Calls : EndOK(call[d]))'
  BY <1>3, <1>4, <1>5, <1>6, CallMoves
<1>8. Searching' = Searching \cup {c} /\ c \notin Searching
  BY <1>2, <1>3, <1>4 DEF SInv, Become, Searching, At
<1>9. Cardinality(Searching') = Cardinality(Searching) + 1
  BY <1>8, Numbers, FS_AddElement
<1>10. RoomOK'
  <2>1. started + Cardinality(Searching') <= MaxStarts
    BY <1>2, <1>9, Numbers, Limits
  <2> QED
    BY <1>2, <2>1 DEF RoomOK
<1>11. Opened' /\ StoreOK' /\ faults' \in Nat
  BY <1>2, OpenStays DEF SInv, StoreOK
<1> QED
  BY <1>2, <1>7, <1>10, <1>11, RestStays

LEMMA StartEnterKeeps ==
  ASSUME SInv, NEW c \in Calls, NEW n \in Names, StartEnter(c, n),
         started + Cardinality(Searching) < MaxStarts \/ c \in Searching
  PROVE  SInv'
<1>1. PICK o : o = started + 1
  OBVIOUS
<1>2. /\ started' = o /\ object' = [object EXCEPT ![o] = [name |-> n, turns |-> <<>>]]
      /\ Become(c, IdleCall) /\ UNCHANGED <<owner, memories, parts, faults>>
  BY <1>1 DEF StartEnter, Finish, store
<1>3. /\ started + Cardinality(Searching) <= MaxStarts
      /\ IsFiniteSet(Searching) /\ Cardinality(Searching) \in Nat /\ started \in Nat
  BY Numbers DEF SInv, RoomOK
<1>4. c \in Searching => Cardinality(Searching \ {c}) = Cardinality(Searching) - 1
  BY <1>3, FS_RemoveElement
<1>5. /\ IsFiniteSet(Searching \ {c}) /\ Cardinality(Searching \ {c}) \in Nat
      /\ Cardinality(Searching \ {c}) <= Cardinality(Searching)
  <2>1. Searching \ {c} \subseteq Searching
    OBVIOUS
  <2> HIDE DEF Searching
  <2> QED
    BY <1>3, <2>1, FS_Subset, FS_CardinalityType
<1>6. started + 1 + Cardinality(Searching \ {c}) <= MaxStarts
  BY <1>3, <1>4, <1>5, Limits
<1>7. o \in Objects /\ o \in Nat /\ o \notin 1 .. started /\ started < MaxStarts
      /\ \A p \in 1 .. o : p \in 1 .. started \/ p = o
  BY <1>1, <1>3, <1>5, <1>6, Limits DEF Objects
<1>8. /\ object' \in [Objects -> Object]
      /\ object'[o] = [name |-> n, turns |-> <<>>]
      /\ \A p \in 1 .. started : object'[p] = object[p]
  <2>1. [name |-> n, turns |-> <<>>] \in Object
    BY EmptySeq DEF Object
  <2> QED
    BY <1>2, <1>7, <2>1 DEF SInv, Objects
<1>9. /\ owner' \in Seq(1 .. started') /\ started' \in 0 .. MaxStarts
      /\ \A i \in DOMAIN owner : owner[i] \in 1 .. started
  <2>1. 1 .. started \subseteq 1 .. started'
    BY <1>1, <1>2, <1>3
  <2> QED
    BY <1>1, <1>2, <1>7, <2>1, Limits, SeqMonotonic, ElementOfSeq, LenProperties DEF SInv, Objects
<1>10. \A p \in 1 .. started :
        Whole(p)' = Whole(p) /\ LongTurns(p)' = LongTurns(p) /\ WindowOK(p)'
  <2> SUFFICES ASSUME NEW p \in 1 .. started
               PROVE  Whole(p)' = Whole(p) /\ LongTurns(p)' = LongTurns(p) /\ WindowOK(p)'
    OBVIOUS
  <2>1. object'[p] = object[p] /\ SaidTo(p)' = SaidTo(p) /\ WindowOK(p)
    BY <1>2, <1>8, Ascending DEF SaidTo
  <2> QED
    BY <2>1 DEF Whole, LongTurns, LongOf, WindowOK
<1>11. WindowOK(o)'
  <2>1. SaidTo(o)' = {}
    BY <1>2, <1>7, <1>9 DEF SaidTo
  <2>2. object'[o].turns = <<>> /\ ToSet(<<>>) = {} /\ DOMAIN <<>> = {} /\ Len(<<>>) = 0
    BY <1>8, EmptySeq DEF ToSet
  <2> QED
    BY <2>1, <2>2, Limits DEF WindowOK
<1>12. Grows /\ Windows'
  BY <1>1, <1>2, <1>3, <1>7, <1>10, <1>11 DEF Grows, Windows
<1>13. /\ call' \in [Calls -> Call] /\ (\A d \in Calls : EndOK(call[d]))'
       /\ Searching' = Searching \ {c}
  BY <1>2, <1>12, Idle, CallMoves
<1>14. RoomOK'
  BY <1>1, <1>2, <1>6, <1>13 DEF RoomOK
<1>15. Opened'
  BY <1>7, OpenEnters
<1> QED
  BY <1>2, <1>8, <1>9, <1>12, <1>13, <1>14, <1>15 DEF SInv, StoreOK

-----------------------------------------------------------------------------
LEMMA Starts == Init => SInv
<1> SUFFICES ASSUME Init PROVE SInv
  OBVIOUS
<1> USE DEF Init
<1>1. object \in [Objects -> Object] /\ started \in 0 .. MaxStarts
  BY EmptySeq, Limits DEF Object
<1>2. owner \in Seq(1 .. started) /\ sessions \in Seq(1 .. started) /\ Len(sessions) = 0
      /\ DOMAIN sessions = {}
  BY EmptySeq
<1>3. call \in [Calls -> Call] /\ \A c \in Calls : EndOK(call[c])
  BY Idle
<1>4. Opened
  BY <1>2, Limits DEF Opened, Apart, OpenNames, ToSet, SessionsBounded
<1>5. Searching = {}
  BY Idle DEF Searching, At
<1>6. RoomOK
  BY <1>5, FS_EmptySet, Limits DEF RoomOK
<1>7. Windows
  BY DEF Windows
<1> QED
  BY <1>1, <1>2, <1>3, <1>4, <1>6, <1>7 DEF SInv, StoreOK

LEMMA Step == SInv /\ [Next]_vars => SInv'
<1> SUFFICES ASSUME SInv, [Next]_vars PROVE SInv'
  OBVIOUS
<1>1. ASSUME NEW c \in Calls, StartSearch(c) PROVE SInv'
  BY <1>1, StartSearchKeeps
<1>2. ASSUME NEW c \in Calls, StartNow(c) PROVE SInv'
  BY <1>2, StartEnterKeeps DEF StartNow, Room, Searching
<1>3. ASSUME NEW c \in Calls, AddTurn(c) PROVE SInv'
  BY <1>3, AddTurnKeeps
<1>4. ASSUME NEW c \in Calls, GetContext(c) PROVE SInv'
  BY <1>4, GetContextKeeps
<1>5. ASSUME NEW c \in Calls, NEW n \in Names, EndOf(c, n) PROVE SInv'
  BY <1>5, EndOfKeeps
<1>6. ASSUME NEW c \in Calls, StartFound(c) PROVE SInv'
  <2>1. call[c].name \in Names /\ c \in Searching
    BY <1>6 DEF StartFound, At, Searching, SInv, EndOK
  <2> QED
    BY <1>6, <2>1, StartEnterKeeps DEF StartFound
<1>7. ASSUME NEW c \in Calls, EndStep(c) PROVE SInv'
  BY <1>7, EndArchiveKeeps, EndIngestKeeps, EndLinkKeeps, EndExtractKeeps, EndPartKeeps DEF EndStep
<1>8. ASSUME NEW c \in Calls, Answered(c) \/ Fail(c) PROVE SInv'
  BY <1>8, FinishKeeps
<1>9. CASE Unknown \/ UNCHANGED vars
  BY <1>9, UnknownKeeps
<1>10. CASE Cleanup
  BY <1>10, CleanupKeeps
<1>11. CASE Restart
  BY <1>11, RestartKeeps
<1> QED
  BY <1>1, <1>2, <1>3, <1>4, <1>5, <1>6, <1>7, <1>8, <1>9, <1>10, <1>11 DEF Next

LEMMA Invariant == Spec => []SInv
BY Starts, Step, PTL DEF Spec

(* Types; an id leads to one object, started under it; relations lead      *)
(* between memories that are stored.                                       *)
THEOREM TypeCorrect == Spec => []TypeOK
<1>1. SInv => TypeOK
  BY DEF SInv, Opened, StoreOK, Apart, TypeOK
<1> QED
  BY <1>1, Invariant, PTL

(* However starts, their searches and calls on sessions interleave, no     *)
(* more than MaxSessions sessions are open (enforceSessionLimits).         *)
THEOREM SessionsStayBounded == Spec => []SessionsBounded
<1>1. SInv => SessionsBounded
  BY DEF SInv, Opened
<1> QED
  BY <1>1, Invariant, PTL

(* A session keeps an unbroken run of its newest turns in their order, at  *)
(* most MaxTurns, and gives up turns only for that limit (addTurn).        *)
THEOREM WindowsAreRecent == Spec => []WindowIsRecent
<1>1. SInv => WindowIsRecent
  BY DEF SInv, Windows, WindowOK, WindowIsRecent
<1> QED
  BY <1>1, Invariant, PTL

(* When endSession answers, the archive is stored and all it extracted is  *)
(* related to it, whatever failed on the way or was called on the session  *)
(* meanwhile; and the heuristic took every turn that it would have taken   *)
(* when the call began, unless turns made room for others meanwhile.       *)
THEOREM EndsComplete == Spec => []EndedIsComplete
<1>1. ASSUME SInv, NEW c \in Calls, NEW r, r = call[c], r.pc = "ended"
      PROVE  /\ r.archive \in memories
             /\ \A x \in r.taken : Part(x, r.archive) \in parts
             /\ Verbatim(r) # {} /\ Whole(r.obj) => r.due \subseteq Verbatim(r)
  BY <1>1 DEF SInv, EndOK, Ending
<1>2. SInv => EndedIsComplete
  BY <1>1 DEF EndedIsComplete, At, Verbatim, Whole
<1> QED
  BY <1>2, Invariant, PTL
=============================================================================

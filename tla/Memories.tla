------------------------------ MODULE Memories ------------------------------
(***************************************************************************)
(* What MemoryService promises its callers, with one store in place of     *)
(* two: a memory is created once, changed and superseded while it exists,  *)
(* deleted for good, and every hit of a vector search is a memory that is  *)
(* current at the moment of the answer.  Nothing of the index, of copies   *)
(* in flight or of failing calls shows.                                    *)
(***************************************************************************)
CONSTANTS
  Ids,     \* memory ids
  Texts,   \* contents
  Procs,   \* callers
  None     \* no content

VARIABLES
  phase,   \* where each memory is in its life
  text,    \* the content of each existing memory
  answer   \* the hits each caller of a search has in hand

vars == <<phase, text, answer>>

Phases == {"unborn", "current", "superseded", "deleted"}

Init ==
  /\ phase = [i \in Ids |-> "unborn"]
  /\ text = [i \in Ids |-> None]
  /\ answer = [p \in Procs |-> {}]

Exists(i) == phase[i] \in {"current", "superseded"}
CurrentIds == {i \in Ids : phase[i] = "current"}

Create(i, c) ==
  /\ phase[i] = "unborn"
  /\ phase' = [phase EXCEPT ![i] = "current"]
  /\ text' = [text EXCEPT ![i] = c]
  /\ UNCHANGED answer

(* An update writes a content, the mark of a superseded fact, or both.     *)
Change(i, c, ph) ==
  /\ Exists(i)
  /\ phase' = [phase EXCEPT ![i] = ph]
  /\ text' = [text EXCEPT ![i] = c]
  /\ UNCHANGED answer

Delete(i) ==
  /\ Exists(i)
  /\ phase' = [phase EXCEPT ![i] = "deleted"]
  /\ text' = [text EXCEPT ![i] = None]
  /\ UNCHANGED answer

Reply(p, hits) ==
  /\ answer' = [answer EXCEPT ![p] = hits]
  /\ UNCHANGED <<phase, text>>

Next ==
  \/ \E i \in Ids, c \in Texts :
       Create(i, c) \/ \E ph \in {"current", "superseded"} : Change(i, c, ph)
  \/ \E i \in Ids : Delete(i)
  \/ \E p \in Procs : \E hits \in SUBSET CurrentIds : Reply(p, hits)

Spec == Init /\ [][Next]_vars
=============================================================================

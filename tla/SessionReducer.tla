--------------------------- MODULE SessionReducer ---------------------------
(***************************************************************************)
(* The state of a transcription session and what a provider's event does   *)
(* to it (transcriptionapi/reducer.go).  A provider may send the events of *)
(* several items in any order and more than once; an event without a       *)
(* sequence number has sequence 0.                                         *)
(***************************************************************************)
EXTENDS Integers

CONSTANTS
  Items,        \* item ids a provider uses in a session
  Texts,        \* final transcripts
  None,
  MaxSequence

ASSUME ReducerAssumption == None \notin Texts /\ MaxSequence \in Nat

\* final is None until the item is completed; the text of a hypothesis is left
\* out, nothing is decided by it.
ItemStates ==
  [at : {"absent", "open", "completed", "failed"}, last : 0 .. MaxSequence,
   final : Texts \cup {None}]

Sessions ==
  [phase : {"open", "committing", "completed", "failed"},
   item : [Items -> ItemStates]]

Events ==
  [item : Items, kind : {"hypothesis", "final", "failure"},
   sequence : 0 .. MaxSequence, text : Texts]

NewSession ==
  [phase |-> "open",
   item |-> [i \in Items |-> [at |-> "absent", last |-> 0, final |-> None]]]

Stale(item, e) == e.sequence > 0 /\ e.sequence <= item.last

\* A second final of another text is an error, for the caller to report.
Conflicts(item, e) ==
  item.at = "completed" /\ e.kind = "final" /\ item.final # e.text

\* Variant: events that come late may reopen an item.
IgnoredIfStale(item, e) == Stale(item, e) \/ item.at = "failed"

Ignored(item, e) == item.at \in {"completed", "failed"} \/ Stale(item, e)

Advance(item, e) == IF e.sequence > item.last THEN e.sequence ELSE item.last

Apply(s, e) ==
  LET item == s.item[e.item]
      Put(at, final, phase) ==
        [phase |-> phase,
         item |-> [s.item EXCEPT ![e.item] =
                     [at |-> at, last |-> Advance(item, e), final |-> final]]]
  IN CASE Ignored(item, e) -> s
       [] ~Ignored(item, e) /\ e.kind = "hypothesis" ->
            Put("open", None, IF s.phase = "open" THEN "committing" ELSE s.phase)
       [] ~Ignored(item, e) /\ e.kind = "final" ->
            Put("completed", e.text, "completed")
       [] OTHER -> Put("failed", None, "failed")

\* There are items, and each of them is completed or failed.
AllCompleted(s) ==
  /\ \E i \in Items : s.item[i].at # "absent"
  /\ \A i \in Items : s.item[i].at # "open"
=============================================================================

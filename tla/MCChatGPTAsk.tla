---------------------------- MODULE MCChatGPTAsk ----------------------------
(***************************************************************************)
(* ChatGPTAsk on two asks: at most one of them is not a plain text ask,    *)
(* the tab of at most one wanders, and pages that submit by themselves     *)
(* after the look that follows the typing do so when all asks have one     *)
(* prompt, up to the return of the ask.                                    *)
(***************************************************************************)
EXTENDS ChatGPTAsk, FiniteSets, TLC

OnePrompt == Cardinality({ask'[r].prompt : r \in Runs} \ {None}) <= 1

Bounded ==
  /\ Cardinality({r \in Runs : ask'[r].kind # "text"}) <= 1
  /\ Cardinality({r \in Runs :
       tab'[r].at \in (Runs \cup {Foreign}) \ {r}}) <= 1
  /\ late' # {} => OnePrompt
  /\ \A r \in late' \ late : ask[r].pc \notin {"return", "done"}

MCNext == Next /\ Bounded
MCSpec == Init /\ [][MCNext]_vars

Symmetry == Permutations(Runs) \cup Permutations(Prompts)
=============================================================================

-------------------------- MODULE ChatGPTAskProofs --------------------------
(***************************************************************************)
(* For any number of asks and prompts, and whatever the pages do: a        *)
(* terminal answer is the finished answer to the ask's own prompt; of the  *)
(* drafts that are there when it looks, an ask destroys none but that of a *)
(* prompt whose Enter was performed; but for the submissions that a page   *)
(* makes by itself after the typing was seen, a caller who repeats an ask  *)
(* only when its result calls that safe sends a prompt at most once; and a *)
(* tab an ask has closed is no loss, those submissions or not.             *)
(***************************************************************************)
EXTENDS ChatGPTAsk, TLAPS

\* Typing, as far as the steps need it.
AskFields == {"pc", "prompt", "kind", "receipt", "bound", "phase", "dispatch",
              "conv", "seen", "user", "detail", "result"}
ResultFields == {"ok", "code", "action", "actionSafe", "safe", "conv", "read",
                 "closed"}
TabFields == {"at", "text", "own", "files", "enter", "unseen"}

Records ==
  /\ DOMAIN ask = Runs /\ DOMAIN tab = Runs /\ DOMAIN sends = Runs
  /\ DOMAIN conv = Runs
  /\ \A r \in Runs : /\ DOMAIN ask[r] = AskFields
                     /\ DOMAIN ask[r].result = ResultFields
                     /\ DOMAIN tab[r] = TabFields
                     /\ DOMAIN conv[r] = {"users", "answer"}

\* Where an ask knows its conversation, and where it has pressed Enter.
Reading == {"research", "answer", "recover", "terminal"}
Sent == {"acknowledge", "persist"} \cup Reading

Names(r) ==
  /\ ask[r].pc = "persist" => ask[r].seen \in Runs
  /\ ask[r].pc \in Reading => ask[r].conv \in Runs

\* A result that calls no retry safe, not even after a failed clean-up.
Unsafe(result) ==
  /\ result.action # "nil" /\ result.actionSafe = FALSE /\ result.safe = FALSE

\* From here on no result of the ask will call a retry safe.
Committed(r) ==
  \/ ask[r].pc \in Sent
  \/ ask[r].pc \in {"return", "done"} /\ Unsafe(ask[r].result)

Once(r) ==
  /\ ask[r].pc \in Sent => ask[r].dispatch \in {"performed", "unknown"}
  /\ ask[r].pc = "terminal" => Unsafe(ask[r].result)
  /\ tab[r].enter => Committed(r)
  /\ ask[r].dispatch # "not_performed" => Committed(r)
  /\ r \notin late =>
       /\ sends[r] = 0 \/ sends[r] = 1
       /\ sends[r] = 1 =>
            /\ tab[r].at # "home" /\ tab[r].own = FALSE /\ tab[r].enter = FALSE
            /\ Committed(r) \/ ask[r].pc \in {"inserted", "insert_failed"}

\* Of two asks of one prompt, one is over and called a retry safe.
GivesLeave(r) == ask[r].pc = "done" /\ ask[r].result.safe

OneAtWork ==
  \A q, r \in Runs :
    (q # r /\ Prompt(q) = Prompt(r) /\ Prompt(r) # None)
    => GivesLeave(q) \/ GivesLeave(r)

\* Up to its typing the composer of an ask is blank, or holds a draft that came
\* later, and its receipt is that of an ask whose Enter was performed.
Fresh == {"select", "bind", "attach", "prepare", "insert"}

Blank(r) ==
  /\ ask[r].pc \in {"idle", "acquire", "load"} =>
       tab[r].own = FALSE /\ tab[r].enter = FALSE
  /\ ask[r].pc = "load" => tab[r].at = "blank"
  /\ ask[r].pc \in Fresh /\ tab[r].at = "home" =>
       tab[r].text = None \/ tab[r].own \/ tab[r].unseen
  /\ ask[r].pc \in {"inserted", "verify"} /\ tab[r].at = "home" => tab[r].own

HasReceipt(r) ==
  ask[r].receipt # None =>
    /\ ask[r].receipt \in Runs
    /\ ask[ask[r].receipt].pc = "done"
    /\ ask[ask[r].receipt].dispatch = "performed"

KeepsDraft(r) == Destroys(r) /\ ~tab[r].unseen => WasSent(tab[r].text)

\* What was read as the answer.
Asked(r) == ask[r].pc = "idle" <=> ask[r].prompt = None

OwnRead(r) ==
  ask[r].result.code = "terminal" =>
    LET result == ask[r].result IN
    /\ ask[r].pc \in {"terminal", "return", "done"}
    /\ result.conv \in Runs /\ result.conv = ask[r].conv
    /\ ask[result.conv].prompt = ask[r].prompt
    /\ result.read \in {"text", "image"}
    /\ result.read = conv[result.conv].answer

\* What a step of an ask changes, and what it keeps.
Only(r) ==
  /\ DOMAIN ask' = Runs /\ DOMAIN tab' = Runs /\ sends' = sends /\ conv' = conv
  /\ late' = late
  /\ \A q \in Runs \ {r} : ask'[q] = ask[q] /\ tab'[q] = tab[q]
  /\ DOMAIN ask'[r] = AskFields /\ DOMAIN ask'[r].result = ResultFields
  /\ DOMAIN tab'[r] = TabFields
  /\ ask'[r].prompt = ask[r].prompt /\ ask'[r].receipt = ask[r].receipt
  /\ ask[r].pc # "idle" /\ ask[r].pc # "done" /\ ask'[r].pc # "idle"

Good(r) ==
  /\ Only(r) /\ Names(r)'
  /\ Once(r) => Once(r)'
  /\ Blank(r) /\ HasReceipt(r) => Blank(r)' /\ KeepsDraft(r)
  /\ OwnRead(r) => OwnRead(r)'

-----------------------------------------------------------------------------
\* The results.
LEMMA FailureResult ==
  ASSUME NEW code, NEW action, NEW c
  PROVE  /\ DOMAIN AskFailure(code, action, c) = ResultFields
         /\ AskFailure(code, action, c).code = code
         /\ DOMAIN AskFailureWithoutActionRetry(code) = ResultFields
         /\ AskFailureWithoutActionRetry(code).code = code
BY DEF AskFailure, AskFailureWithoutActionRetry, NoResult, ResultFields

LEMMA FailureUnsafe ==
  ASSUME NEW code, NEW action \in {"performed", "unknown"}, NEW c
  PROVE  Unsafe(AskFailure(code, action, c))
<1>1. (action = "not_performed") = FALSE
  OBVIOUS
<1>2. (action \in {"nil", "not_performed"}) = FALSE
  OBVIOUS
<1> QED  BY <1>1, <1>2 DEF AskFailure, NoResult, Unsafe

LEMMA SuccessResult ==
  ASSUME NEW state, NEW c, NEW read
  PROVE  LET result == AskSuccess(state, c, read) IN
         /\ DOMAIN result = ResultFields /\ Unsafe(result)
         /\ result.code = state /\ result.conv = c /\ result.read = read
BY DEF AskSuccess, NoResult, Unsafe, ResultFields

LEMMA UnknownResult ==
  ASSUME NEW c
  PROVE  LET result == PreparationUnknown(c) IN
         /\ DOMAIN result = ResultFields /\ Unsafe(result)
         /\ result.code # "terminal"
BY DEF PreparationUnknown, AskFailure, AskFailureWithoutActionRetry, NoResult,
       Unsafe, ResultFields

LEMMA CleanupResult ==
  ASSUME NEW result, DOMAIN result = ResultFields
  PROVE  /\ DOMAIN CleanupFailed(result) = ResultFields
         /\ CleanupFailed(result).code = "cleanup_failed"
         /\ Unsafe(result) => Unsafe(CleanupFailed(result))
BY DEF CleanupFailed, Unsafe, ResultFields

LEMMA ClosedResult ==
  ASSUME NEW result, DOMAIN result = ResultFields
  PROVE  LET closed == [result EXCEPT !.closed = TRUE] IN
         /\ DOMAIN closed = ResultFields /\ Unsafe(result) => Unsafe(closed)
         /\ closed.code = result.code /\ closed.conv = result.conv
         /\ closed.read = result.read
BY DEF Unsafe, ResultFields

-----------------------------------------------------------------------------
\* Up to the Send.
LEMMA PreparesGood ==
  ASSUME Records, NEW r \in Runs, Names(r), Prepares(r)
  PROVE  Good(r)
<1> USE FailureResult, FailureUnsafe, SuccessResult, UnknownResult, CleanupResult,
        ClosedResult DEF Records, AskFields, TabFields, page
<1>1. CASE Acquire(r)
  <2>1. Only(r) /\ Names(r)'
    BY <1>1 DEF Only, Names, Reading, Acquire, Goto
  <2>2. Once(r) => Once(r)'
    BY <1>1 DEF Once, Committed, Sent, Reading, Acquire, Goto
  <2>3. Blank(r) /\ HasReceipt(r) => Blank(r)' /\ KeepsDraft(r)
    BY <1>1 DEF Blank, Fresh, KeepsDraft, Destroys, WasSent, Acquire, Goto
  <2>4. OwnRead(r) => OwnRead(r)'
    BY <1>1 DEF OwnRead, Acquire, Goto
  <2> QED  BY <2>1, <2>2, <2>3, <2>4 DEF Good
<1>2. CASE AcquireFails(r)
  <2>1. Only(r) /\ Names(r)'
    BY <1>2 DEF Only, Names, Reading, AcquireFails
  <2>2. Once(r) => Once(r)'
    BY <1>2 DEF Once, Committed, Sent, Reading, AcquireFails
  <2>3. Blank(r) /\ HasReceipt(r) => Blank(r)' /\ KeepsDraft(r)
    BY <1>2 DEF Blank, Fresh, KeepsDraft, Destroys, WasSent, AcquireFails
  <2>4. OwnRead(r) => OwnRead(r)'
    BY <1>2 DEF OwnRead, AcquireFails
  <2> QED  BY <2>1, <2>2, <2>3, <2>4 DEF Good
<1>3. CASE PreparePage(r)
  <2>1. Only(r) /\ Names(r)'
    BY <1>3 DEF Only, Names, Reading, PreparePage, Goto
  <2>2. Once(r) => Once(r)'
    BY <1>3 DEF Once, Committed, Sent, Reading, PreparePage, Goto
  <2>3. Blank(r) /\ HasReceipt(r) => Blank(r)' /\ KeepsDraft(r)
    BY <1>3 DEF Blank, Fresh, KeepsDraft, Destroys, WasSent, PreparePage, Goto
  <2>4. OwnRead(r) => OwnRead(r)'
    BY <1>3 DEF OwnRead, PreparePage, Goto
  <2> QED  BY <2>1, <2>2, <2>3, <2>4 DEF Good
<1>4. CASE NotReady(r)
  <2>1. Only(r) /\ Names(r)'
    BY <1>4 DEF Only, Names, Reading, NotReady, Fail, Return
  <2>2. Once(r) => Once(r)'
    BY <1>4 DEF Once, Committed, Sent, Reading, NotReady, Fail, Return
  <2>3. Blank(r) /\ HasReceipt(r) => Blank(r)' /\ KeepsDraft(r)
    BY <1>4 DEF Blank, Fresh, KeepsDraft, Destroys, WasSent, NotReady, Fail, Return
  <2>4. OwnRead(r) => OwnRead(r)'
    BY <1>4 DEF OwnRead, NotReady, Fail, Return
  <2> QED  BY <2>1, <2>2, <2>3, <2>4 DEF Good
<1>5. CASE ComposerReady(r)
  <2>1. Only(r) /\ Names(r)'
    BY <1>5 DEF Only, Names, Reading, ComposerReady, Goto, Return
  <2>2. Once(r) => Once(r)'
    BY <1>5 DEF Once, Committed, Sent, Reading, ComposerReady, Goto, Return
  <2>3. Blank(r) /\ HasReceipt(r) => Blank(r)' /\ KeepsDraft(r)
    BY <1>5 DEF Blank, Fresh, KeepsDraft, Destroys, WasSent, ComposerReady, Goto, Return, AtHome
  <2>4. OwnRead(r) => OwnRead(r)'
    BY <1>5 DEF OwnRead, ComposerReady, Goto, Return
  <2> QED  BY <2>1, <2>2, <2>3, <2>4 DEF Good
<1>6. CASE ClearNotStarted(r)
  <2>1. Only(r) /\ Names(r)'
    BY <1>6 DEF Only, Names, Reading, ClearNotStarted, Return
  <2>2. Once(r) => Once(r)'
    BY <1>6 DEF Once, Committed, Sent, Reading, ClearNotStarted, Return
  <2>3. Blank(r) /\ HasReceipt(r) => Blank(r)' /\ KeepsDraft(r)
    BY <1>6 DEF Blank, Fresh, KeepsDraft, Destroys, WasSent, ClearNotStarted, Return
  <2>4. OwnRead(r) => OwnRead(r)'
    BY <1>6 DEF OwnRead, ClearNotStarted, Return
  <2> QED  BY <2>1, <2>2, <2>3, <2>4 DEF Good
<1>7. CASE Clear(r)
  <2>1. Only(r) /\ Names(r)'
    BY <1>7 DEF Only, Names, Reading, Clear, Goto, Return
  <2>2. Once(r) => Once(r)'
    BY <1>7 DEF Once, Committed, Sent, Reading, Clear, Goto, Return
  <2>3. Blank(r) /\ HasReceipt(r) => Blank(r)' /\ KeepsDraft(r)
    BY <1>7 DEF Blank, Fresh, KeepsDraft, Destroys, WasSent, Clear, Goto, Return, AtHome,
       DraftIsReceipts, Prompt, HasReceipt
  <2>4. OwnRead(r) => OwnRead(r)'
    BY <1>7 DEF OwnRead, Clear, Goto, Return
  <2> QED  BY <2>1, <2>2, <2>3, <2>4 DEF Good
<1>8. CASE StableBlank(r)
  <2>1. Only(r) /\ Names(r)'
    BY <1>8 DEF Only, Names, Reading, StableBlank, Goto, Return
  <2>2. Once(r) => Once(r)'
    BY <1>8 DEF Once, Committed, Sent, Reading, StableBlank, Goto, Return
  <2>3. Blank(r) /\ HasReceipt(r) => Blank(r)' /\ KeepsDraft(r)
    BY <1>8 DEF Blank, Fresh, KeepsDraft, Destroys, WasSent, StableBlank, Goto, Return, AtHome
  <2>4. OwnRead(r) => OwnRead(r)'
    BY <1>8 DEF OwnRead, StableBlank, Goto, Return
  <2> QED  BY <2>1, <2>2, <2>3, <2>4 DEF Good
<1>9. CASE Select(r)
  <2>1. Only(r) /\ Names(r)'
    BY <1>9 DEF Only, Names, Reading, Select, Goto
  <2>2. Once(r) => Once(r)'
    BY <1>9 DEF Once, Committed, Sent, Reading, Select, Goto
  <2>3. Blank(r) /\ HasReceipt(r) => Blank(r)' /\ KeepsDraft(r)
    BY <1>9 DEF Blank, Fresh, KeepsDraft, Destroys, WasSent, Select, Goto
  <2>4. OwnRead(r) => OwnRead(r)'
    BY <1>9 DEF OwnRead, Select, Goto
  <2> QED  BY <2>1, <2>2, <2>3, <2>4 DEF Good
<1>10. CASE BindInputFingerprint(r)
  <2>1. Only(r) /\ Names(r)'
    BY <1>10 DEF Only, Names, Reading, BindInputFingerprint, Fail, Return
  <2>2. Once(r) => Once(r)'
    BY <1>10 DEF Once, Committed, Sent, Reading, BindInputFingerprint, Fail,
       Return
  <2>3. Blank(r) /\ HasReceipt(r) => Blank(r)' /\ KeepsDraft(r)
    BY <1>10 DEF Blank, Fresh, KeepsDraft, Destroys, WasSent, BindInputFingerprint, Fail, Return
  <2>4. OwnRead(r) => OwnRead(r)'
    BY <1>10 DEF OwnRead, BindInputFingerprint, Fail, Return
  <2> QED  BY <2>1, <2>2, <2>3, <2>4 DEF Good
<1>11. CASE AttachLocalFiles(r)
  <2>1. Only(r) /\ Names(r)'
    BY <1>11 DEF Only, Names, Reading, AttachLocalFiles, Goto, Fail, Return
  <2>2. Once(r) => Once(r)'
    BY <1>11 DEF Once, Committed, Sent, Reading, AttachLocalFiles, Goto, Fail,
       Return
  <2>3. Blank(r) /\ HasReceipt(r) => Blank(r)' /\ KeepsDraft(r)
    BY <1>11 DEF Blank, Fresh, KeepsDraft, Destroys, WasSent, AttachLocalFiles, Goto, Fail,
       Return
  <2>4. OwnRead(r) => OwnRead(r)'
    BY <1>11 DEF OwnRead, AttachLocalFiles, Goto, Fail, Return
  <2> QED  BY <2>1, <2>2, <2>3, <2>4 DEF Good
<1>12. CASE PreparationStops(r)
  <2>1. Only(r) /\ Names(r)'
    BY <1>12 DEF Only, Names, Reading, PreparationStops, ReturnIncomplete
  <2>2. Once(r) => Once(r)'
    BY <1>12 DEF Once, Committed, Sent, Reading, PreparationStops,
       ReturnIncomplete
  <2>3. Blank(r) /\ HasReceipt(r) => Blank(r)' /\ KeepsDraft(r)
    BY <1>12 DEF Blank, Fresh, KeepsDraft, Destroys, WasSent, PreparationStops, ReturnIncomplete
  <2>4. OwnRead(r) => OwnRead(r)'
    BY <1>12 DEF OwnRead, PreparationStops, ReturnIncomplete
  <2> QED  BY <2>1, <2>2, <2>3, <2>4 DEF Good
<1>13. CASE ObserveBoundary(r)
  <2>1. Only(r) /\ Names(r)'
    BY <1>13 DEF Only, Names, Reading, ObserveBoundary, Goto
  <2>2. Once(r) => Once(r)'
    BY <1>13 DEF Once, Committed, Sent, Reading, ObserveBoundary, Goto
  <2>3. Blank(r) /\ HasReceipt(r) => Blank(r)' /\ KeepsDraft(r)
    BY <1>13 DEF Blank, Fresh, KeepsDraft, Destroys, WasSent, ObserveBoundary, Goto
  <2>4. OwnRead(r) => OwnRead(r)'
    BY <1>13 DEF OwnRead, ObserveBoundary, Goto
  <2> QED  BY <2>1, <2>2, <2>3, <2>4 DEF Good
<1>14. CASE InsertPrompt(r)
  <2>1. Only(r) /\ Names(r)'
    BY <1>14 DEF Only, Names, Reading, InsertPrompt, Goto
  <2>2. Once(r) => Once(r)'
    BY <1>14 DEF Once, Committed, Sent, Reading, InsertPrompt, Goto
  <2>3. Blank(r) /\ HasReceipt(r) => Blank(r)' /\ KeepsDraft(r)
    BY <1>14 DEF Blank, Fresh, KeepsDraft, Destroys, WasSent, InsertPrompt, Goto
  <2>4. OwnRead(r) => OwnRead(r)'
    BY <1>14 DEF OwnRead, InsertPrompt, Goto
  <2> QED  BY <2>1, <2>2, <2>3, <2>4 DEF Good
<1>15. CASE VerifyInserted(r)
  <2>1. Only(r) /\ Names(r)'
    BY <1>15 DEF Only, Names, Reading, VerifyInserted, Goto
  <2>2. Once(r) => Once(r)'
    BY <1>15 DEF Once, Committed, Sent, Reading, VerifyInserted, Goto,
       BaselineUnchanged, AtHome
  <2>3. Blank(r) /\ HasReceipt(r) => Blank(r)' /\ KeepsDraft(r)
    BY <1>15 DEF Blank, Fresh, KeepsDraft, Destroys, WasSent, VerifyInserted, Goto
  <2>4. OwnRead(r) => OwnRead(r)'
    BY <1>15 DEF OwnRead, VerifyInserted, Goto
  <2> QED  BY <2>1, <2>2, <2>3, <2>4 DEF Good
<1>16. CASE Verify(r)
  <2>1. Only(r) /\ Names(r)'
    BY <1>16 DEF Only, Names, Reading, Verify, Goto, Fail, Return
  <2>2. Once(r) => Once(r)'
    BY <1>16 DEF Once, Committed, Sent, Reading, Verify, Goto, Fail, Return
  <2>3. Blank(r) /\ HasReceipt(r) => Blank(r)' /\ KeepsDraft(r)
    BY <1>16 DEF Blank, Fresh, KeepsDraft, Destroys, WasSent, Verify, Goto, Fail, Return
  <2>4. OwnRead(r) => OwnRead(r)'
    BY <1>16 DEF OwnRead, Verify, Goto, Fail, Return
  <2> QED  BY <2>1, <2>2, <2>3, <2>4 DEF Good
<1>17. CASE MarkPrepared(r)
  <2>1. Only(r) /\ Names(r)'
    BY <1>17 DEF Only, Names, Reading, MarkPrepared, Fail, Return
  <2>2. Once(r) => Once(r)'
    BY <1>17 DEF Once, Committed, Sent, Reading, MarkPrepared, Fail, Return
  <2>3. Blank(r) /\ HasReceipt(r) => Blank(r)' /\ KeepsDraft(r)
    BY <1>17 DEF Blank, Fresh, KeepsDraft, Destroys, WasSent, MarkPrepared, Fail, Return
  <2>4. OwnRead(r) => OwnRead(r)'
    BY <1>17 DEF OwnRead, MarkPrepared, Fail, Return
  <2> QED  BY <2>1, <2>2, <2>3, <2>4 DEF Good
<1> QED
  BY <1>1, <1>2, <1>3, <1>4, <1>5, <1>6, <1>7, <1>8, <1>9, <1>10, <1>11,
       <1>12, <1>13, <1>14, <1>15, <1>16, <1>17 DEF Prepares

\* From the Send on.
LEMMA SendsAndReadsGood ==
  ASSUME Records, NEW r \in Runs, Names(r), SendsAndReads(r)
  PROVE  Good(r)
<1> USE FailureResult, FailureUnsafe, SuccessResult, UnknownResult, CleanupResult,
        ClosedResult DEF Records, AskFields, TabFields, page
<1>1. CASE VerifyBeforeSend(r)
  <2>1. Only(r) /\ Names(r)'
    BY <1>1 DEF Only, Names, Reading, VerifyBeforeSend, Goto
  <2>2. Once(r) => Once(r)'
    BY <1>1 DEF Once, Committed, Sent, Reading, VerifyBeforeSend, Goto,
       BaselineUnchanged, AtHome
  <2>3. Blank(r) /\ HasReceipt(r) => Blank(r)' /\ KeepsDraft(r)
    BY <1>1 DEF Blank, Fresh, KeepsDraft, Destroys, WasSent, VerifyBeforeSend, Goto
  <2>4. OwnRead(r) => OwnRead(r)'
    BY <1>1 DEF OwnRead, VerifyBeforeSend, Goto
  <2> QED  BY <2>1, <2>2, <2>3, <2>4 DEF Good
<1>2. CASE SendNotPerformed(r)
  <2>1. Only(r) /\ Names(r)'
    BY <1>2 DEF Only, Names, Reading, SendNotPerformed, ReturnIncomplete
  <2>2. Once(r) => Once(r)'
    BY <1>2 DEF Once, Committed, Sent, Reading, SendNotPerformed,
       ReturnIncomplete
  <2>3. Blank(r) /\ HasReceipt(r) => Blank(r)' /\ KeepsDraft(r)
    BY <1>2 DEF Blank, Fresh, KeepsDraft, Destroys, WasSent, SendNotPerformed, ReturnIncomplete
  <2>4. OwnRead(r) => OwnRead(r)'
    BY <1>2 DEF OwnRead, SendNotPerformed, ReturnIncomplete
  <2> QED  BY <2>1, <2>2, <2>3, <2>4 DEF Good
<1>3. CASE PressEnter(r)
  <2>1. Only(r) /\ Names(r)'
    BY <1>3 DEF Only, Names, Reading, PressEnter
  <2>2. Once(r) => Once(r)'
    BY <1>3 DEF Once, Committed, Sent, Reading, PressEnter
  <2>3. Blank(r) /\ HasReceipt(r) => Blank(r)' /\ KeepsDraft(r)
    BY <1>3 DEF Blank, Fresh, KeepsDraft, Destroys, WasSent, PressEnter
  <2>4. OwnRead(r) => OwnRead(r)'
    BY <1>3 DEF OwnRead, PressEnter
  <2> QED  BY <2>1, <2>2, <2>3, <2>4 DEF Good
<1>4. CASE ObserveRoute(r)
  <2>1. Only(r) /\ Names(r)'
    BY <1>4 DEF Only, Names, Reading, ObserveRoute
  <2>2. Once(r) => Once(r)'
    BY <1>4 DEF Once, Committed, Sent, Reading, ObserveRoute
  <2>3. Blank(r) /\ HasReceipt(r) => Blank(r)' /\ KeepsDraft(r)
    BY <1>4 DEF Blank, Fresh, KeepsDraft, Destroys, WasSent, ObserveRoute
  <2>4. OwnRead(r) => OwnRead(r)'
    BY <1>4 DEF OwnRead, ObserveRoute
  <2> QED  BY <2>1, <2>2, <2>3, <2>4 DEF Good
<1>5. CASE ProvePrompt(r)
  <2>1. Only(r) /\ Names(r)'
    BY <1>5 DEF Only, Names, Reading, ProvePrompt, ShowsPrompt
  <2>2. Once(r) => Once(r)'
    BY <1>5 DEF Once, Committed, Sent, Reading, ProvePrompt
  <2>3. Blank(r) /\ HasReceipt(r) => Blank(r)' /\ KeepsDraft(r)
    BY <1>5 DEF Blank, Fresh, KeepsDraft, Destroys, WasSent, ProvePrompt
  <2>4. OwnRead(r) => OwnRead(r)'
    BY <1>5 DEF OwnRead, ProvePrompt
  <2> QED  BY <2>1, <2>2, <2>3, <2>4 DEF Good
<1>6. CASE NotAcknowledged(r)
  <2>1. Only(r) /\ Names(r)'
    BY <1>6 DEF Only, Names, Reading, NotAcknowledged, IdentityUnproven,
       ReturnIncomplete
  <2>2. Once(r) => Once(r)'
    BY <1>6 DEF Once, Committed, Sent, Reading, NotAcknowledged,
       IdentityUnproven, ReturnIncomplete
  <2>3. Blank(r) /\ HasReceipt(r) => Blank(r)' /\ KeepsDraft(r)
    BY <1>6 DEF Blank, Fresh, KeepsDraft, Destroys, WasSent, NotAcknowledged, IdentityUnproven,
       ReturnIncomplete
  <2>4. OwnRead(r) => OwnRead(r)'
    BY <1>6 DEF OwnRead, NotAcknowledged, IdentityUnproven, ReturnIncomplete
  <2> QED  BY <2>1, <2>2, <2>3, <2>4 DEF Good
<1>7. CASE ReadIdentity(r)
  <2>1. Only(r) /\ Names(r)'
    BY <1>7 DEF Only, Names, Reading, ReadIdentity, IdentityUnproven,
       ReturnIncomplete
  <2>2. Once(r) => Once(r)'
    <3>0. ask[r].pc = "acknowledge" /\ UNCHANGED page
      BY <1>7 DEF ReadIdentity
    <3>1. CASE ask' = [ask EXCEPT ![r].pc = "persist", ![r].detail = TRUE]
      BY <3>0, <3>1 DEF Once, Committed, Sent, Reading
    <3>2. CASE ReturnIncomplete(r, AskFailure("failed", ask[r].dispatch, None))
      BY <3>0, <3>2 DEF Once, Committed, Sent, Reading, ReturnIncomplete
    <3>3. CASE IdentityUnproven(r)
      BY <3>0, <3>3 DEF Once, Committed, Sent, Reading, IdentityUnproven,
         ReturnIncomplete
    <3>4. QED
      BY <1>7, <3>1, <3>2, <3>3 DEF ReadIdentity
  <2>3. Blank(r) /\ HasReceipt(r) => Blank(r)' /\ KeepsDraft(r)
    BY <1>7 DEF Blank, Fresh, KeepsDraft, Destroys, WasSent, ReadIdentity, IdentityUnproven,
       ReturnIncomplete
  <2>4. OwnRead(r) => OwnRead(r)'
    BY <1>7 DEF OwnRead, ReadIdentity, IdentityUnproven, ReturnIncomplete
  <2> QED  BY <2>1, <2>2, <2>3, <2>4 DEF Good
<1>8. CASE Acknowledge(r)
  <2>1. Only(r) /\ Names(r)'
    BY <1>8 DEF Only, Names, Reading, Acknowledge, Return
  <2>2. Once(r) => Once(r)'
    BY <1>8 DEF Once, Committed, Sent, Reading, Acknowledge, Return
  <2>3. Blank(r) /\ HasReceipt(r) => Blank(r)' /\ KeepsDraft(r)
    BY <1>8 DEF Blank, Fresh, KeepsDraft, Destroys, WasSent, Acknowledge, Return
  <2>4. OwnRead(r) => OwnRead(r)'
    BY <1>8 DEF OwnRead, Acknowledge, Return
  <2> QED  BY <2>1, <2>2, <2>3, <2>4 DEF Good
<1>9. CASE ResearchSubmitted(r)
  <2>1. Only(r) /\ Names(r)'
    BY <1>9 DEF Only, Names, Reading, ResearchSubmitted, Return
  <2>2. Once(r) => Once(r)'
    BY <1>9 DEF Once, Committed, Sent, Reading, ResearchSubmitted, Return
  <2>3. Blank(r) /\ HasReceipt(r) => Blank(r)' /\ KeepsDraft(r)
    BY <1>9 DEF Blank, Fresh, KeepsDraft, Destroys, WasSent, ResearchSubmitted, Return
  <2>4. OwnRead(r) => OwnRead(r)'
    BY <1>9 DEF OwnRead, ResearchSubmitted, Return
  <2> QED  BY <2>1, <2>2, <2>3, <2>4 DEF Good
<1>10. CASE WaitRendered(r)
  <2>1. Only(r) /\ Names(r)'
    BY <1>10 DEF Only, Names, Reading, WaitRendered, ReadAnswer, Read
  <2>2. Once(r) => Once(r)'
    BY <1>10 DEF Once, Committed, Sent, Reading, WaitRendered, ReadAnswer,
       Read
  <2>3. Blank(r) /\ HasReceipt(r) => Blank(r)' /\ KeepsDraft(r)
    BY <1>10 DEF Blank, Fresh, KeepsDraft, Destroys, WasSent, WaitRendered, ReadAnswer, Read
  <2>4. OwnRead(r) => OwnRead(r)'
    BY <1>10 DEF OwnRead, WaitRendered, ReadAnswer, Read, ShowsPrompt, Prompt,
       Names, Reading
  <2> QED  BY <2>1, <2>2, <2>3, <2>4 DEF Good
<1>11. CASE AnswerIncomplete(r)
  <2>1. Only(r) /\ Names(r)'
    BY <1>11 DEF Only, Names, Reading, AnswerIncomplete, ReturnIncomplete
  <2>2. Once(r) => Once(r)'
    BY <1>11 DEF Once, Committed, Sent, Reading, AnswerIncomplete,
       ReturnIncomplete
  <2>3. Blank(r) /\ HasReceipt(r) => Blank(r)' /\ KeepsDraft(r)
    BY <1>11 DEF Blank, Fresh, KeepsDraft, Destroys, WasSent, AnswerIncomplete, ReturnIncomplete
  <2>4. OwnRead(r) => OwnRead(r)'
    BY <1>11 DEF OwnRead, AnswerIncomplete, ReturnIncomplete
  <2> QED  BY <2>1, <2>2, <2>3, <2>4 DEF Good
<1>12. CASE FetchDetail(r)
  <2>1. Only(r) /\ Names(r)'
    BY <1>12 DEF Only, Names, Reading, FetchDetail, ReadAnswer, Read,
       ReturnIncomplete, Goto
  <2>2. Once(r) => Once(r)'
    BY <1>12 DEF Once, Committed, Sent, Reading, FetchDetail, ReadAnswer,
       Read, ReturnIncomplete, Goto
  <2>3. Blank(r) /\ HasReceipt(r) => Blank(r)' /\ KeepsDraft(r)
    BY <1>12 DEF Blank, Fresh, KeepsDraft, Destroys, WasSent, FetchDetail, ReadAnswer, Read,
       ReturnIncomplete, Goto
  <2>4. OwnRead(r) => OwnRead(r)'
    BY <1>12 DEF OwnRead, FetchDetail, ReadAnswer, Read, ReturnIncomplete,
       Goto, Prompt, Names, Reading, Wanted
  <2> QED  BY <2>1, <2>2, <2>3, <2>4 DEF Good
<1>13. CASE RecoverRendered(r)
  <2>1. Only(r) /\ Names(r)'
    BY <1>13 DEF Only, Names, Reading, RecoverRendered, ReadAnswer, Read,
       ReturnIncomplete, NoTab
  <2>2. Once(r) => Once(r)'
    <3> SUFFICES ASSUME Once(r) PROVE Once(r)'
      OBVIOUS
    <3>1. /\ ask[r].pc = "recover" /\ ask[r].conv \in Runs
          /\ ask[r].dispatch \in {"performed", "unknown"}
          /\ sends' = sends /\ late' = late
          /\ r \notin late =>
               /\ sends[r] = 0 \/ sends[r] = 1
               /\ sends[r] = 1 => /\ tab[r].at # "home" /\ tab[r].own = FALSE
                                  /\ tab[r].enter = FALSE
      BY <1>13 DEF Once, Names, Sent, Reading, RecoverRendered
    <3>2. /\ ask'[r].dispatch = ask[r].dispatch /\ Unsafe(ask'[r].result)
          /\ ask'[r].pc \in {"terminal", "return"}
      BY <1>13 DEF RecoverRendered, ReadAnswer, Read, ReturnIncomplete
    <3>3. tab'[r] = tab[r] \/ tab'[r] = [NoTab EXCEPT !.at = ask[r].conv]
      BY <1>13 DEF RecoverRendered
    <3>4. ask[r].conv # "home"
      BY <3>1, AskAssumption
    <3> QED
      BY <3>1, <3>2, <3>3, <3>4 DEF Once, Committed, Sent, Reading, NoTab
  <2>3. Blank(r) /\ HasReceipt(r) => Blank(r)' /\ KeepsDraft(r)
    <3>1. ask[r].conv \in Runs /\ ask[r].conv # "home"
      BY <1>13, AskAssumption DEF RecoverRendered, Names, Reading
    <3>2. tab'[r] = tab[r] \/ tab'[r].at # "home"
      BY <1>13, <3>1 DEF RecoverRendered, NoTab
    <3>3. ask'[r].pc \in {"terminal", "return"}
      BY <1>13 DEF RecoverRendered, ReadAnswer, Read, ReturnIncomplete
    <3> QED  BY <3>2, <3>3 DEF Blank, Fresh, KeepsDraft, Destroys
  <2>4. OwnRead(r) => OwnRead(r)'
    BY <1>13 DEF OwnRead, RecoverRendered, ReadAnswer, Read, ReturnIncomplete,
       Prompt, Names, Reading
  <2> QED  BY <2>1, <2>2, <2>3, <2>4 DEF Good
<1>14. CASE MarkTerminal(r)
  <2>1. Only(r) /\ Names(r)'
    BY <1>14 DEF Only, Names, Reading, MarkTerminal, Return
  <2>2. Once(r) => Once(r)'
    BY <1>14 DEF Once, Committed, Sent, Reading, MarkTerminal, Return
  <2>3. Blank(r) /\ HasReceipt(r) => Blank(r)' /\ KeepsDraft(r)
    BY <1>14 DEF Blank, Fresh, KeepsDraft, Destroys, WasSent, MarkTerminal, Return
  <2>4. OwnRead(r) => OwnRead(r)'
    BY <1>14 DEF OwnRead, MarkTerminal, Return
  <2> QED  BY <2>1, <2>2, <2>3, <2>4 DEF Good
<1>15. CASE Close(r)
  <2>1. Only(r) /\ Names(r)'
    BY <1>15 DEF Only, Names, Reading, Close
  <2>2. Once(r) => Once(r)'
    BY <1>15 DEF Once, Committed, Sent, Reading, Close
  <2>3. Blank(r) /\ HasReceipt(r) => Blank(r)' /\ KeepsDraft(r)
    BY <1>15 DEF Blank, Fresh, KeepsDraft, Destroys, WasSent, Close
  <2>4. OwnRead(r) => OwnRead(r)'
    BY <1>15 DEF OwnRead, Close
  <2> QED  BY <2>1, <2>2, <2>3, <2>4 DEF Good
<1>16. CASE Keep(r)
  <2>1. Only(r) /\ Names(r)'
    BY <1>16 DEF Only, Names, Reading, Keep, Goto
  <2>2. Once(r) => Once(r)'
    BY <1>16 DEF Once, Committed, Sent, Reading, Keep, Goto
  <2>3. Blank(r) /\ HasReceipt(r) => Blank(r)' /\ KeepsDraft(r)
    BY <1>16 DEF Blank, Fresh, KeepsDraft, Destroys, WasSent, Keep, Goto
  <2>4. OwnRead(r) => OwnRead(r)'
    BY <1>16 DEF OwnRead, Keep, Goto
  <2> QED  BY <2>1, <2>2, <2>3, <2>4 DEF Good
<1> QED
  BY <1>1, <1>2, <1>3, <1>4, <1>5, <1>6, <1>7, <1>8, <1>9, <1>10, <1>11,
       <1>12, <1>13, <1>14, <1>15, <1>16 DEF SendsAndReads

-----------------------------------------------------------------------------
\* The page.  A prompt that it submits leaves the composer empty, on a
\* conversation.
LEMMA Submitted ==
  ASSUME Records, NEW r \in Runs, Submit(r)
  PROVE  /\ DOMAIN tab' = Runs /\ DOMAIN tab'[r] = TabFields
         /\ DOMAIN sends' = Runs /\ sends'[r] = sends[r] + 1
         /\ tab'[r].at # "home" /\ tab'[r].own = FALSE /\ tab'[r].enter = FALSE
         /\ \A q \in Runs \ {r} : tab'[q] = tab[q] /\ sends'[q] = sends[q]
BY AskAssumption DEF Submit, AtHome, NoTab, Records, TabFields

\* It changes the records of no ask, and no finished answer.
PageOnly(r) ==
  /\ ask' = ask /\ DOMAIN tab' = Runs /\ DOMAIN sends' = Runs /\ DOMAIN conv' = Runs
  /\ DOMAIN tab'[r] = TabFields
  /\ \A q \in Runs \ {r} : tab'[q] = tab[q] /\ sends'[q] = sends[q]
  /\ late' = late \/ late' = late \cup {r}
  /\ \A c \in Runs : /\ DOMAIN conv'[c] = {"users", "answer"}
                     /\ conv[c].answer \in {"text", "image"} =>
                          conv'[c].answer = conv[c].answer

LEMMA PageKeeps ==
  ASSUME Records, NEW r \in Runs, PageStep(r)
  PROVE  PageOnly(r) /\ (Blank(r) => Blank(r)' /\ KeepsDraft(r))
<1> USE DEF Records, TabFields
<1>1. ASSUME Submit(r), tab[r].own \/ tab[r].enter,
             late' = late \/ late' = late \cup {r}
      PROVE  PageOnly(r) /\ (Blank(r) => Blank(r)' /\ KeepsDraft(r))
  <2>1. /\ ask' = ask
        /\ \A c \in Runs : /\ DOMAIN conv'[c] = {"users", "answer"}
                           /\ conv'[c].answer = conv[c].answer
        /\ DOMAIN conv' = Runs
    BY <1>1 DEF Submit
  <2>2. PageOnly(r)
    BY <1>1, <2>1, Submitted DEF PageOnly
  <2>3. Blank(r) => Blank(r)' /\ KeepsDraft(r)
    BY <1>1, <2>1, Submitted DEF Blank, Fresh, KeepsDraft, Destroys
  <2> QED  BY <2>2, <2>3
<1>2. CASE PageSubmits(r)
  BY <1>1, <1>2 DEF PageSubmits
<1>3. CASE EnterSubmits(r)
  BY <1>1, <1>3 DEF EnterSubmits
<1>4. CASE EnterSwallowed(r)
  BY <1>4 DEF EnterSwallowed, PageOnly, Blank, Fresh, KeepsDraft,
     Destroys
<1>5. CASE DraftReturns(r)
  <2>1. /\ tab[r].at = "home" /\ tab[r].text = None /\ DOMAIN tab' = Runs
        /\ DOMAIN tab'[r] = TabFields /\ tab'[r].own = tab[r].own
        /\ tab'[r].enter = tab[r].enter /\ tab'[r].at = tab[r].at
        /\ tab'[r].unseen = (ask[r].pc \notin {"ready", "blank"})
        /\ \A q \in Runs \ {r} : tab'[q] = tab[q]
    BY <1>5 DEF DraftReturns, AtHome
  <2>2. ask' = ask /\ conv' = conv /\ sends' = sends /\ late' = late
    BY <1>5 DEF DraftReturns
  <2>3. PageOnly(r)
    BY <2>1, <2>2 DEF PageOnly
  <2>4. Blank(r) => Blank(r)' /\ KeepsDraft(r)
    BY <2>1, <2>2 DEF Blank, Fresh, KeepsDraft, Destroys
  <2> QED  BY <2>3, <2>4
<1>6. CASE Wander(r)
  BY <1>6, AskAssumption DEF Wander, NoTab, PageOnly, Blank, Fresh, KeepsDraft,
     Destroys
<1>7. CASE ProviderAnswers(r)
  <2>1. /\ ask' = ask /\ tab' = tab /\ sends' = sends /\ late' = late
        /\ DOMAIN conv' = Runs
    BY <1>7 DEF ProviderAnswers
  <2>2. \A c \in Runs : /\ DOMAIN conv'[c] = {"users", "answer"}
                        /\ conv[c].answer \in {"text", "image"} =>
                             conv'[c].answer = conv[c].answer
    BY <1>7 DEF ProviderAnswers
  <2> QED
    BY <2>1, <2>2 DEF PageOnly, Blank, Fresh, KeepsDraft, Destroys
<1> QED  BY <1>2, <1>3, <1>4, <1>5, <1>6, <1>7 DEF PageStep

LEMMA PageOnce ==
  ASSUME Records, NEW r \in Runs, Once(r), PageStep(r)
  PROVE  Once(r)'
<1> USE DEF Records, TabFields
<1>1. ASSUME tab[r].own \/ tab[r].enter, Submit(r), r \in late => r \in late',
             r \notin late' => Committed(r) \/ ask[r].pc \in {"inserted", "insert_failed"}
      PROVE  Once(r)'
  <2>1. /\ ask' = ask
        /\ r \notin late => sends[r] = 0
        /\ ask[r].pc \in Sent => ask[r].dispatch \in {"performed", "unknown"}
        /\ ask[r].pc = "terminal" => Unsafe(ask[r].result)
        /\ ask[r].dispatch # "not_performed" => Committed(r)
    BY <1>1 DEF Once, Submit
  <2>2. /\ sends'[r] = sends[r] + 1
        /\ tab'[r].at # "home" /\ tab'[r].own = FALSE /\ tab'[r].enter = FALSE
    BY <1>1, Submitted
  <2>3. r \notin late' => sends'[r] = 1
    BY <1>1, <2>1, <2>2
  <2> QED
    BY <1>1, <2>1, <2>2, <2>3 DEF Once, Committed
<1>2. CASE PageSubmits(r)
  <2>1. r \notin late' => Committed(r) \/ ask[r].pc \in {"inserted", "insert_failed"}
    BY <1>2 DEF PageSubmits, StillLooks, Once
  <2> QED
    BY <1>1, <1>2, <2>1 DEF PageSubmits
<1>3. CASE EnterSubmits(r)
  <2>1. Committed(r)
    BY <1>3 DEF EnterSubmits, Once
  <2> QED
    BY <1>1, <1>3, <2>1 DEF EnterSubmits
<1>4. CASE EnterSwallowed(r)
  BY <1>4 DEF EnterSwallowed, Once, Committed
<1>5. CASE DraftReturns(r)
  BY <1>5 DEF DraftReturns, Once, Committed
<1>6. CASE Wander(r)
  BY <1>6, AskAssumption DEF Wander, NoTab, Once, Committed
<1>7. CASE ProviderAnswers(r)
  BY <1>7 DEF ProviderAnswers, Once, Committed
<1> QED  BY <1>2, <1>3, <1>4, <1>5, <1>6, <1>7 DEF PageStep

-----------------------------------------------------------------------------
\* The caller.
Begins(r, p) ==
  /\ MayAsk(p) /\ UNCHANGED page /\ ask[r].pc = "idle"
  /\ DOMAIN ask' = Runs /\ \A q \in Runs \ {r} : ask'[q] = ask[q]
  /\ DOMAIN ask'[r] = AskFields /\ DOMAIN ask'[r].result = ResultFields
  /\ ask'[r].prompt = p /\ ask'[r].pc \in {"acquire", "done"}
  /\ ask'[r].result.code # "terminal" /\ HasReceipt(r)'
  /\ ask'[r].dispatch \in {"not_performed", ask[r].dispatch}

LEMMA StartBegins ==
  ASSUME Records, NEW r \in Runs, NEW p \in Prompts, NEW k \in Kinds,
         NEW q \in Runs \cup {None}, Start(r, p, k, q)
  PROVE  Begins(r, p)
<1>1. /\ MayAsk(p) /\ UNCHANGED page /\ ask[r].pc = "idle"
      /\ DOMAIN ask' = Runs /\ \A x \in Runs \ {r} : ask'[x] = ask[x]
      /\ DOMAIN ask'[r] = AskFields /\ DOMAIN ask'[r].result = ResultFields
      /\ ask'[r].prompt = p /\ ask'[r].pc = "acquire" /\ ask'[r].receipt = q
      /\ ask'[r].result.code = "" /\ ask'[r].dispatch = "not_performed"
  BY DEF Start, Records, Idle, NoResult, AskFields, ResultFields
<1>2. ASSUME q # None
      PROVE  q \in Runs /\ q # r /\ ask[q].pc = "done" /\ ask[q].dispatch = "performed"
  BY <1>1, <1>2 DEF Start, Eligible
<1> QED
  BY <1>1, <1>2 DEF Begins, HasReceipt

LEMMA RejectBegins ==
  ASSUME Records, NEW r \in Runs, NEW p \in Prompts, NEW q \in Runs,
         RejectReceipt(r, p, q), HasReceipt(r)
  PROVE  Begins(r, p)
<1>1. /\ MayAsk(p) /\ UNCHANGED page /\ ask[r].pc = "idle"
      /\ DOMAIN ask' = Runs /\ \A x \in Runs \ {r} : ask'[x] = ask[x]
      /\ DOMAIN ask'[r] = AskFields /\ DOMAIN ask'[r].result = ResultFields
      /\ ask'[r].prompt = p /\ ask'[r].pc = "done"
      /\ ask'[r].receipt = ask[r].receipt /\ ask'[r].result.code = "failed"
      /\ ask'[r].dispatch = ask[r].dispatch
  BY FailureResult DEF RejectReceipt, Records, AskFields
<1> QED
  BY <1>1 DEF Begins, HasReceipt

-----------------------------------------------------------------------------
\* Of all asks, in every setting.
KeepInv ==
  /\ Records
  /\ \A r \in Runs : Names(r) /\ Blank(r) /\ HasReceipt(r) /\ Asked(r) /\ OwnRead(r)

LEMMA KeepStep ==
  ASSUME KeepInv, [Next]_vars
  PROVE  KeepInv' /\ \A r \in Runs : KeepsDraft(r)
<1> USE DEF KeepInv
<1>1. ASSUME NEW r \in Runs, Good(r)
      PROVE  KeepInv' /\ \A q \in Runs : KeepsDraft(q)
  <2>1. Only(r) /\ Names(r)' /\ Blank(r)' /\ KeepsDraft(r) /\ OwnRead(r)'
    BY <1>1 DEF Good
  <2>2. Records' /\ \A q \in Runs : ask'[q].prompt = ask[q].prompt
    BY <2>1 DEF Only, Records
  <2>3. ASSUME NEW q \in Runs
        PROVE  (Names(q) /\ Blank(q) /\ Asked(q))' /\ KeepsDraft(q)
    BY <2>1, <2>2 DEF Only, Names, Blank, Asked, KeepsDraft, Destroys
  <2>4. ASSUME NEW q \in Runs
        PROVE  HasReceipt(q)'
    BY <2>1 DEF Only, HasReceipt
  <2>5. ASSUME NEW q \in Runs
        PROVE  OwnRead(q)'
    BY <2>1, <2>2 DEF Only, OwnRead
  <2> QED  BY <2>2, <2>3, <2>4, <2>5
<1>2. ASSUME NEW r \in Runs, NEW p \in Prompts, Begins(r, p)
      PROVE  KeepInv' /\ \A q \in Runs : KeepsDraft(q)
  <2>1. Records' /\ tab' = tab /\ conv' = conv
    BY <1>2 DEF Begins, Records, page
  <2>2. ASSUME NEW q \in Runs
        PROVE  (Names(q) /\ Blank(q) /\ Asked(q))' /\ KeepsDraft(q)
    BY <1>2, <2>1, AskAssumption
       DEF Begins, Names, Reading, Blank, Fresh, Asked, KeepsDraft, Destroys
  <2>3. ASSUME NEW q \in Runs
        PROVE  HasReceipt(q)'
    BY <1>2 DEF Begins, HasReceipt
  <2>4. ASSUME NEW q \in Runs
        PROVE  OwnRead(q)'
    BY <1>2, <2>1 DEF Begins, OwnRead, Asked
  <2> QED  BY <2>1, <2>2, <2>3, <2>4
<1>3. ASSUME NEW r \in Runs, PageStep(r)
      PROVE  KeepInv' /\ \A q \in Runs : KeepsDraft(q)
  <2>1. PageOnly(r) /\ Blank(r)' /\ KeepsDraft(r)
    BY <1>3, PageKeeps
  <2>2. Records'
    BY <2>1 DEF PageOnly, Records
  <2>3. ASSUME NEW q \in Runs
        PROVE  (Names(q) /\ Blank(q) /\ HasReceipt(q) /\ Asked(q))' /\ KeepsDraft(q)
    BY <2>1 DEF PageOnly, Names, Blank, HasReceipt, Asked, KeepsDraft,
           Destroys
  <2>4. ASSUME NEW q \in Runs
        PROVE  OwnRead(q)'
    BY <2>1 DEF PageOnly, OwnRead
  <2> QED  BY <2>2, <2>3, <2>4
<1>4. CASE UNCHANGED vars
  BY <1>4 DEF vars, Records, Names, Blank, HasReceipt, Asked, OwnRead, KeepsDraft,
     Destroys
<1>5. ASSUME NEW r \in Runs, Prepares(r) \/ SendsAndReads(r)
      PROVE  KeepInv' /\ \A q \in Runs : KeepsDraft(q)
  BY <1>1, <1>5, PreparesGood, SendsAndReadsGood
<1> QED
  BY <1>2, <1>3, <1>4, <1>5, StartBegins, RejectBegins DEF Next

LEMMA KeepInitially ==
  ASSUME Init
  PROVE  KeepInv
<1>1. Records
  BY DEF Init, Records, Idle, NoTab, NoResult, AskFields, TabFields, ResultFields
<1>2. ASSUME NEW r \in Runs
      PROVE  Names(r) /\ Blank(r) /\ HasReceipt(r) /\ Asked(r) /\ OwnRead(r)
  BY DEF Init, Names, Reading, Blank, Fresh, HasReceipt, Asked, OwnRead, Idle,
         NoTab, NoResult
<1> QED  BY <1>1, <1>2 DEF KeepInv

\* A terminal result holds the finished answer of a conversation that began
\* with the ask's own prompt, for any number of asks of any prompts, however
\* their tabs wander (AnswerIsOwn; ask.go:1192 and 1363).
THEOREM OwnAnswer == Spec => []AnswerIsOwn
<1>1. Init => KeepInv
  BY KeepInitially
<1>2. KeepInv /\ [Next]_vars => KeepInv'
  BY KeepStep
<1>3. KeepInv => AnswerIsOwn
  BY DEF KeepInv, OwnRead, AnswerIsOwn, Prompt
<1> QED  BY <1>1, <1>2, <1>3, PTL DEF Spec

\* A text on a fresh page that an ask has not typed, and that was there when it
\* looked, stays, unless it is the prompt of a prior ask whose Enter was
\* performed (SeenDraftsKept; ask.go:516, owned_draft.go:18).
THEOREM KeepsDrafts == Spec => SeenDraftsKept
<1>1. Init => KeepInv
  BY KeepInitially
<1>2. KeepInv /\ [Next]_vars => KeepInv'
  BY KeepStep
<1>3. KeepInv /\ [Next]_vars =>
        [\A r \in Runs :
           Destroys(r) /\ ~tab[r].unseen => WasSent(tab[r].text)]_vars
  BY KeepStep DEF KeepsDraft
<1> QED  BY <1>1, <1>2, <1>3, PTL DEF Spec, SeenDraftsKept

-----------------------------------------------------------------------------
\* How often a prompt is submitted.
SendInv == KeepInv /\ OneAtWork /\ \A r \in Runs : Once(r)

LEMMA SendStep ==
  ASSUME SendInv, [Next]_vars
  PROVE  OneAtWork' /\ \A r \in Runs : Once(r)'
<1>1. Records /\ OneAtWork /\ \A r \in Runs : Names(r) /\ Once(r) /\ HasReceipt(r)
  BY DEF SendInv, KeepInv
<1> USE <1>1
<1>2. ASSUME NEW r \in Runs, Good(r)
      PROVE  OneAtWork' /\ \A q \in Runs : Once(q)'
  <2>1. Only(r) /\ Once(r)'
    BY <1>2 DEF Good
  <2>2. OneAtWork'
    BY <2>1 DEF Only, OneAtWork, GivesLeave, Prompt
  <2>3. ASSUME NEW q \in Runs
        PROVE  Once(q)'
    BY <2>1 DEF Only, Once, Committed
  <2> QED  BY <2>2, <2>3
<1>3. ASSUME NEW r \in Runs, NEW p \in Prompts, Begins(r, p)
      PROVE  OneAtWork' /\ \A q \in Runs : Once(q)'
  <2>1. OneAtWork'
    BY <1>3 DEF Begins, OneAtWork, GivesLeave, Prompt, MayAsk
  <2>2. ASSUME NEW q \in Runs
        PROVE  Once(q)'
    <3>1. /\ tab' = tab /\ sends' = sends /\ late' = late
          /\ q # r => ask'[q] = ask[q]
      BY <1>3 DEF Begins, page
    <3>2. CASE q # r
      BY <3>1, <3>2 DEF Once, Committed
    <3>3. CASE q = r
      <4>1. /\ ~Committed(r) /\ tab[r].enter # TRUE
            /\ ask[r].dispatch = "not_performed"
            /\ ask'[r].dispatch = "not_performed" /\ ask'[r].pc \in {"acquire", "done"}
        BY <1>3 DEF Begins, Once, Committed, Sent, Reading
      <4>2. Once(r)
        OBVIOUS
      <4> QED
        BY <1>3, <3>1, <3>3, <4>1, <4>2
           DEF Begins, Once, Committed, Sent, Reading
    <3> QED  BY <3>2, <3>3
  <2> QED  BY <2>1, <2>2
<1>4. ASSUME NEW r \in Runs, PageStep(r)
      PROVE  OneAtWork' /\ \A q \in Runs : Once(q)'
  <2>1. PageOnly(r) /\ Once(r)'
    BY <1>4, PageKeeps, PageOnce
  <2>2. OneAtWork'
    BY <2>1 DEF PageOnly, OneAtWork, GivesLeave, Prompt
  <2>3. ASSUME NEW q \in Runs
        PROVE  Once(q)'
    <3>1. CASE q = r
      BY <2>1, <3>1
    <3>2. CASE q # r
      <4>1. /\ ask' = ask /\ tab'[q] = tab[q] /\ sends'[q] = sends[q]
            /\ q \in late <=> q \in late'
        BY <2>1, <3>2 DEF PageOnly
      <4> QED  BY <4>1 DEF Once, Committed
    <3> QED  BY <3>1, <3>2
  <2> QED  BY <2>2, <2>3
<1>5. CASE UNCHANGED vars
  BY <1>5 DEF vars, OneAtWork, GivesLeave, Prompt, Once, Committed
<1>6. ASSUME NEW r \in Runs, Prepares(r) \/ SendsAndReads(r)
      PROVE  OneAtWork' /\ \A q \in Runs : Once(q)'
  BY <1>2, <1>6, PreparesGood, SendsAndReadsGood
<1> QED
  BY <1>3, <1>4, <1>5, <1>6, StartBegins, RejectBegins DEF Next

LEMMA SendInitially ==
  ASSUME Init
  PROVE  SendInv
<1>1. OneAtWork
  BY DEF Init, OneAtWork, Prompt, Idle
<1>2. ASSUME NEW r \in Runs
      PROVE  Once(r)
  BY DEF Init, Once, Committed, Sent, Reading, Idle, NoTab
<1> QED  BY <1>1, <1>2, KeepInitially DEF SendInv

\* However often a caller repeats an ask whose result calls that safe, the
\* provider gets the prompt at most once, but for what a page submits by itself
\* after the ask has seen the prompt typed (SeenNeverDoubles; ask.go:1910).
THEOREM NeverDoubles == Spec => []SeenNeverDoubles
<1>1. Init => SendInv
  BY SendInitially
<1>2. SendInv /\ [Next]_vars => SendInv'
  BY KeepStep, SendStep DEF SendInv
<1>3. SendInv => SeenNeverDoubles
  <2> SUFFICES ASSUME SendInv, NEW p \in Prompts,
                      NEW q \in Runs \ late, NEW r \in Runs \ late,
                      Prompt(q) = p, sends[q] > 0, Prompt(r) = p, sends[r] > 0
               PROVE  q = r /\ sends[r] = 1
    BY DEF SeenNeverDoubles
  <2>1. ASSUME NEW x \in Runs \ late, sends[x] > 0
        PROVE  sends[x] = 1 /\ ~GivesLeave(x)
    BY <2>1 DEF SendInv, Once, Committed, Sent, Reading, Unsafe, GivesLeave
  <2> QED  BY <2>1, AskAssumption DEF SendInv, OneAtWork
<1> QED  BY <1>1, <1>2, <1>3, PTL DEF Spec

-----------------------------------------------------------------------------
\* The types.  First the results.
LEMMA ResultFailure ==
  ASSUME NEW code \in Codes, NEW action \in Actions \cup {"nil"},
         NEW c \in Conversations, NEW safer \in BOOLEAN, NEW safe \in BOOLEAN
  PROVE  [NoResult EXCEPT !.code = code, !.action = action, !.conv = c,
                          !.actionSafe = safer, !.safe = safe] \in Results
<1>1. NoResult \in Results
  BY DEF NoResult, Results, Codes, Actions, Conversations
<1> HIDE DEF NoResult
<1> QED BY <1>1 DEF Results

LEMMA FailureTyped ==
  ASSUME NEW code \in Codes, NEW action \in Actions \cup {"nil"},
         NEW c \in Conversations
  PROVE  AskFailure(code, action, c) \in Results
<1> DEFINE safer == action = "not_performed"
           safe == action \in {"nil", "not_performed"}
<1>1. safer \in BOOLEAN /\ safe \in BOOLEAN
  OBVIOUS
<1>2. AskFailure(code, action, c) =
        [NoResult EXCEPT !.code = code, !.action = action, !.conv = c,
                         !.actionSafe = safer, !.safe = safe]
  BY DEF AskFailure
<1> HIDE DEF safer, safe
<1>3. [NoResult EXCEPT !.code = code, !.action = action, !.conv = c,
                       !.actionSafe = safer, !.safe = safe] \in Results
  BY <1>1, ResultFailure
<1> QED BY <1>2, <1>3 DEF safer, safe

LEMMA RestTyped ==
  /\ \A code \in Codes : AskFailureWithoutActionRetry(code) \in Results
  /\ \A c \in Conversations : PreparationUnknown(c) \in Results
  /\ \A state \in Codes, c \in Conversations, read \in Answers \cup {None} :
       AskSuccess(state, c, read) \in Results
  /\ \A result \in Results : /\ CleanupFailed(result) \in Results
                             /\ [result EXCEPT !.closed = TRUE] \in Results
<1>1. NoResult \in Results /\ "preparation_submission_unknown" \in Codes
      /\ "cleanup_failed" \in Codes /\ "performed" \in Actions
      /\ "not_performed" \in Actions /\ None \in Conversations
  BY DEF NoResult, Results, Codes, Actions, Conversations
<1>2. ASSUME NEW code \in Codes
      PROVE  AskFailureWithoutActionRetry(code) \in Results
  <2>1. AskFailure(code, "nil", None) \in Results
    BY <1>1, FailureTyped
  <2> QED BY <2>1 DEF AskFailureWithoutActionRetry, Results
<1>3. ASSUME NEW c \in Conversations
      PROVE  PreparationUnknown(c) \in Results
  <2> DEFINE a == AskFailureWithoutActionRetry("preparation_submission_unknown")
  <2>1. a \in Results
    BY <1>1, <1>2
  <2> HIDE DEF a
  <2>2. [a EXCEPT !.action = "not_performed", !.actionSafe = FALSE, !.conv = c] \in Results
    BY <1>1, <2>1 DEF Results
  <2> QED BY <2>2 DEF PreparationUnknown, a
<1>4. ASSUME NEW state \in Codes, NEW c \in Conversations,
             NEW read \in Answers \cup {None}
      PROVE  AskSuccess(state, c, read) \in Results
  BY <1>1 DEF AskSuccess, Results
<1>5. ASSUME NEW result \in Results
      PROVE  /\ CleanupFailed(result) \in Results
             /\ [result EXCEPT !.closed = TRUE] \in Results
  <2> DEFINE s == result.action = "nil" \/ result.actionSafe
  <2>1. s \in BOOLEAN
    OBVIOUS
  <2> HIDE DEF s
  <2>2. [result EXCEPT !.ok = FALSE, !.code = "cleanup_failed", !.safe = s] \in Results
    BY <1>1, <2>1 DEF Results
  <2>3. [result EXCEPT !.closed = TRUE] \in Results
    BY DEF Results
  <2> QED BY <2>2, <2>3 DEF CleanupFailed, s
<1> QED BY <1>2, <1>3, <1>4, <1>5

TypedInv == KeepInv /\ TypeOK

\* The phases of an ask's journal.
Phases == {"attached", "prepared", "performed", "unknown", "acknowledged",
           "terminal", "incomplete"}

\* The labels and codes the steps name.
LEMMA Labels ==
  /\ "idle" \in Places /\ "acquire" \in Places /\ "load" \in Places
  /\ "ready" \in Places /\ "clear" \in Places /\ "blank" \in Places
  /\ "select" \in Places /\ "bind" \in Places /\ "attach" \in Places
  /\ "prepare" \in Places /\ "insert" \in Places /\ "inserted" \in Places
  /\ "insert_failed" \in Places /\ "verify" \in Places
  /\ "final_guard" \in Places /\ "dispatch" \in Places /\ "enter" \in Places
  /\ "acknowledge" \in Places /\ "persist" \in Places /\ "research" \in Places
  /\ "answer" \in Places /\ "recover" \in Places /\ "terminal" \in Places
  /\ "return" \in Places /\ "done" \in Places
BY DEF Places

LEMMA CodesAre ==
  /\ "failed" \in Codes /\ "restored_draft" \in Codes
  /\ "cleanup_unproved" \in Codes /\ "identity_unproven" \in Codes
  /\ "terminal" \in Codes /\ "incomplete" \in Codes
BY DEF Codes

\* A place, and what goes with it.
LEMMA PutPlace ==
  ASSUME NEW f \in [Runs -> Asks], NEW r \in Runs, NEW pc \in Places
  PROVE  [f EXCEPT ![r].pc = pc] \in [Runs -> Asks]
BY DEF Asks

\* One field after the other.
LEMMA PutField ==
  ASSUME NEW a \in Asks
  PROVE  /\ \A v \in Places : [a EXCEPT !.pc = v] \in Asks
         /\ \A v \in Prompts : [a EXCEPT !.prompt = v] \in Asks
         /\ \A v \in BOOLEAN : [a EXCEPT !.bound = v] \in Asks
         /\ \A v \in Phases : [a EXCEPT !.phase = v] \in Asks
         /\ \A v \in Actions : [a EXCEPT !.dispatch = v] \in Asks
         /\ \A v \in Conversations : [a EXCEPT !.conv = v] \in Asks
         /\ \A v \in Conversations : [a EXCEPT !.seen = v] \in Asks
         /\ \A v \in BOOLEAN : [a EXCEPT !.user = v] \in Asks
         /\ \A v \in BOOLEAN : [a EXCEPT !.detail = v] \in Asks
         /\ \A v \in Results : [a EXCEPT !.result = v] \in Asks
<1>1. \A v \in Places : [a EXCEPT !.pc = v] \in Asks
  BY DEF Asks
<1>2. \A v \in Prompts : [a EXCEPT !.prompt = v] \in Asks
  BY DEF Asks
<1>3. \A v \in BOOLEAN : [a EXCEPT !.bound = v] \in Asks
  BY DEF Asks
<1>4. \A v \in Phases : [a EXCEPT !.phase = v] \in Asks
  BY DEF Asks, Phases
<1>5. \A v \in Actions : [a EXCEPT !.dispatch = v] \in Asks
  BY DEF Asks
<1>6. \A v \in Conversations : [a EXCEPT !.conv = v] \in Asks
  BY DEF Asks
<1>7. \A v \in Conversations : [a EXCEPT !.seen = v] \in Asks
  BY DEF Asks
<1>8. \A v \in BOOLEAN : [a EXCEPT !.user = v] \in Asks
  BY DEF Asks
<1>9. \A v \in BOOLEAN : [a EXCEPT !.detail = v] \in Asks
  BY DEF Asks
<1>10. \A v \in Results : [a EXCEPT !.result = v] \in Asks
  BY DEF Asks
<1>11. QED
  BY <1>1, <1>2, <1>3, <1>4, <1>5, <1>6, <1>7, <1>8, <1>9, <1>10

LEMMA PutResult ==
  ASSUME NEW f \in [Runs -> Asks], NEW r \in Runs, NEW pc \in Places,
         NEW result \in Results
  PROVE  [f EXCEPT ![r].pc = pc, ![r].result = result] \in [Runs -> Asks]
<1> DEFINE a == [f[r] EXCEPT !.pc = pc]
<1> DEFINE b == [a EXCEPT !.result = result]
<1>1. a \in Asks
  BY PutField
<1> HIDE DEF a
<1>2. b \in Asks
  BY <1>1, PutField
<1>3. QED
  BY <1>2 DEF a

LEMMA PutPhase ==
  ASSUME NEW f \in [Runs -> Asks], NEW r \in Runs, NEW pc \in Places,
         NEW phase \in Phases
  PROVE  [f EXCEPT ![r].pc = pc, ![r].phase = phase] \in [Runs -> Asks]
<1> DEFINE a == [f[r] EXCEPT !.pc = pc]
<1> DEFINE b == [a EXCEPT !.phase = phase]
<1>1. a \in Asks
  BY PutField
<1> HIDE DEF a
<1>2. b \in Asks
  BY <1>1, PutField
<1>3. QED
  BY <1>2 DEF a

LEMMA PutEnd ==
  ASSUME NEW f \in [Runs -> Asks], NEW r \in Runs, NEW pc \in Places,
         NEW result \in Results, NEW phase \in Phases
  PROVE  /\ [f EXCEPT ![r].pc = pc, ![r].result = result, ![r].phase = phase]
              \in [Runs -> Asks]
         /\ [f EXCEPT ![r].pc = pc, ![r].phase = phase, ![r].result = result]
              \in [Runs -> Asks]
<1> DEFINE a == [f[r] EXCEPT !.pc = pc]
<1> DEFINE b == [a EXCEPT !.result = result]
<1> DEFINE c == [a EXCEPT !.phase = phase]
<1>1. a \in Asks
  BY PutField
<1> HIDE DEF a
<1>2. b \in Asks /\ c \in Asks
  BY <1>1, PutField
<1> HIDE DEF b, c
<1>3. [b EXCEPT !.phase = phase] \in Asks /\ [c EXCEPT !.result = result] \in Asks
  BY <1>2, PutField
<1>4. [f EXCEPT ![r].pc = pc, ![r].result = result, ![r].phase = phase]
        \in [Runs -> Asks]
  BY <1>3 DEF a, b
<1>5. [f EXCEPT ![r].pc = pc, ![r].phase = phase, ![r].result = result]
        \in [Runs -> Asks]
  BY <1>3 DEF a, c
<1>6. QED
  BY <1>4, <1>5

LEMMA PutBound ==
  ASSUME NEW f \in [Runs -> Asks], NEW r \in Runs, NEW pc \in Places
  PROVE  [f EXCEPT ![r].bound = TRUE, ![r].pc = pc] \in [Runs -> Asks]
<1> DEFINE a == [f[r] EXCEPT !.bound = TRUE]
<1> DEFINE b == [a EXCEPT !.pc = pc]
<1>1. a \in Asks
  BY PutField
<1> HIDE DEF a
<1>2. b \in Asks
  BY <1>1, PutField
<1>3. QED
  BY <1>2 DEF a

LEMMA PutUser ==
  ASSUME NEW f \in [Runs -> Asks], NEW r \in Runs,
         NEW seen \in Conversations, NEW user \in BOOLEAN
  PROVE  [f EXCEPT ![r].seen = seen, ![r].user = user] \in [Runs -> Asks]
<1> DEFINE a == [f[r] EXCEPT !.seen = seen]
<1> DEFINE b == [a EXCEPT !.user = user]
<1>1. a \in Asks
  BY PutField
<1> HIDE DEF a
<1>2. b \in Asks
  BY <1>1, PutField
<1>3. QED
  BY <1>2 DEF a

LEMMA PutShown ==
  ASSUME NEW f \in [Runs -> Asks], NEW r \in Runs, NEW pc \in Places,
         NEW seen \in Conversations
  PROVE  [f EXCEPT ![r].pc = pc, ![r].seen = seen] \in [Runs -> Asks]
<1> DEFINE a == [f[r] EXCEPT !.pc = pc]
<1> DEFINE b == [a EXCEPT !.seen = seen]
<1>1. a \in Asks
  BY PutField
<1> HIDE DEF a
<1>2. b \in Asks
  BY <1>1, PutField
<1>3. QED
  BY <1>2 DEF a

LEMMA PutDetail ==
  ASSUME NEW f \in [Runs -> Asks], NEW r \in Runs, NEW pc \in Places
  PROVE  [f EXCEPT ![r].pc = pc, ![r].detail = TRUE] \in [Runs -> Asks]
<1> DEFINE a == [f[r] EXCEPT !.pc = pc]
<1> DEFINE b == [a EXCEPT !.detail = TRUE]
<1>1. a \in Asks
  BY PutField
<1> HIDE DEF a
<1>2. b \in Asks
  BY <1>1, PutField
<1>3. QED
  BY <1>2 DEF a

LEMMA ShownTyped ==
  ASSUME NEW c \in Runs \cup {Foreign}
  PROVE  [NoTab EXCEPT !.at = c] \in Tabs
BY DEF NoTab, Tabs

LEMMA PutNamed ==
  ASSUME NEW f \in [Runs -> Asks], NEW r \in Runs, NEW pc \in Places,
         NEW c \in Conversations, NEW phase \in Phases, NEW dispatch \in Actions
  PROVE  [f EXCEPT ![r].conv = c, ![r].phase = phase, ![r].dispatch = dispatch,
                   ![r].pc = pc] \in [Runs -> Asks]
<1> DEFINE a == [f[r] EXCEPT !.conv = c]
<1> DEFINE b == [a EXCEPT !.phase = phase]
<1> DEFINE d == [b EXCEPT !.dispatch = dispatch]
<1> DEFINE e == [d EXCEPT !.pc = pc]
<1>1. a \in Asks
  BY PutField
<1> HIDE DEF a
<1>2. b \in Asks
  BY <1>1, PutField
<1> HIDE DEF b
<1>3. d \in Asks
  BY <1>2, PutField
<1> HIDE DEF d
<1>4. e \in Asks
  BY <1>3, PutField
<1>5. QED
  BY <1>4 DEF a, b, d

LEMMA PutBegun ==
  ASSUME NEW f \in [Runs -> Asks], NEW r \in Runs, NEW pc \in Places,
         NEW p \in Prompts, NEW result \in Results
  PROVE  [f EXCEPT ![r].pc = pc, ![r].prompt = p, ![r].result = result]
           \in [Runs -> Asks]
<1> DEFINE a == [f[r] EXCEPT !.pc = pc]
<1> DEFINE b == [a EXCEPT !.prompt = p]
<1> DEFINE c == [b EXCEPT !.result = result]
<1>1. a \in Asks
  BY PutField
<1> HIDE DEF a
<1>2. b \in Asks
  BY <1>1, PutField
<1> HIDE DEF b
<1>3. c \in Asks
  BY <1>2, PutField
<1>4. QED
  BY <1>3 DEF a, b

LEMMA PutPerformed ==
  ASSUME NEW f \in [Runs -> Asks], NEW r \in Runs, NEW pc \in Places,
         NEW phase \in Phases, NEW dispatch \in Actions
  PROVE  [f EXCEPT ![r].pc = pc, ![r].phase = phase, ![r].dispatch = dispatch]
              \in [Runs -> Asks]
<1> DEFINE a == [f[r] EXCEPT !.pc = pc]
<1> DEFINE b == [a EXCEPT !.phase = phase]
<1> DEFINE c == [b EXCEPT !.dispatch = dispatch]
<1>1. a \in Asks
  BY PutField
<1> HIDE DEF a
<1>2. b \in Asks
  BY <1>1, PutField
<1> HIDE DEF b
<1>3. c \in Asks
  BY <1>2, PutField
<1>4. QED
  BY <1>3 DEF a, b

\* The ends of a step: to another place, or with a result.
LEMMA GoesTyped ==
  ASSUME ask \in [Runs -> Asks], NEW r \in Runs, NEW pc \in Places, Goto(r, pc)
  PROVE  ask' \in [Runs -> Asks]
BY PutPlace DEF Goto

LEMMA ReturnTyped ==
  ASSUME ask \in [Runs -> Asks], NEW r \in Runs, NEW result \in Results,
         Return(r, result)
  PROVE  ask' \in [Runs -> Asks]
<1>1. "return" \in Places
  BY Labels
<1>2. [ask EXCEPT ![r].pc = "return", ![r].result = result] \in [Runs -> Asks]
  BY <1>1, PutResult
<1>3. QED
  BY <1>2 DEF Return

LEMMA IncompleteTyped ==
  ASSUME ask \in [Runs -> Asks], NEW r \in Runs, NEW result \in Results,
         ReturnIncomplete(r, result)
  PROVE  ask' \in [Runs -> Asks]
<1>1. PICK phase \in Incomplete(ask[r].phase) :
        ask' = [ask EXCEPT ![r].pc = "return", ![r].result = result,
                           ![r].phase = phase]
  BY DEF ReturnIncomplete
<1>2. phase \in Phases
  BY DEF Incomplete, Asks, Phases
<1>3. "return" \in Places
  BY Labels
<1>4. [ask EXCEPT ![r].pc = "return", ![r].result = result, ![r].phase = phase]
        \in [Runs -> Asks]
  BY <1>2, <1>3, PutEnd
<1>5. QED
  BY <1>1, <1>4

LEMMA FailTyped ==
  ASSUME ask \in [Runs -> Asks], NEW r \in Runs,
         NEW action \in Actions \cup {"nil"}, Fail(r, action)
  PROVE  ask' \in [Runs -> Asks]
<1>1. "failed" \in Codes /\ None \in Conversations
  BY CodesAre DEF Conversations
<1>2. AskFailure("failed", action, None) \in Results
  BY <1>1, FailureTyped
<1>3. QED
  BY <1>2, ReturnTyped DEF Fail

LEMMA ReadTyped ==
  ASSUME ask \in [Runs -> Asks], NEW r \in Runs, Read(r) \in Results, ReadAnswer(r)
  PROVE  ask' \in [Runs -> Asks]
<1>1. "terminal" \in Places
  BY Labels
<1>2. [ask EXCEPT ![r].pc = "terminal", ![r].result = Read(r)] \in [Runs -> Asks]
  BY <1>1, PutResult
<1>3. QED
  BY <1>2 DEF ReadAnswer

\* A prompt that is typed into a page leaves the page a page (InsertPrompt).
LEMMA TypedIn ==
  ASSUME NEW f \in [Runs -> Tabs], NEW r \in Runs, NEW text \in Prompts
  PROVE  [f EXCEPT ![r].text = text, ![r].own = TRUE, ![r].unseen = FALSE]
           \in [Runs -> Tabs]
<1>1. [f[r] EXCEPT !.text = text, !.own = TRUE, !.unseen = FALSE] \in Tabs
  <2>1. f[r] \in Tabs
    OBVIOUS
  <2>2. QED
    BY <2>1 DEF Tabs
<1>2. QED
  BY <1>1

\* The steps of an ask.
LEMMA TypedPrepares ==
  ASSUME TypedInv, NEW r \in Runs, Prepares(r)
  PROVE  TypeOK'
<1>1. ask \in [Runs -> Asks] /\ tab \in [Runs -> Tabs]
  BY DEF TypedInv, TypeOK
<1>2. "not_performed" \in Actions \cup {"nil"} /\ None \in Conversations
  BY DEF Actions, Conversations
<1> USE <1>1, <1>2, Labels, CodesAre
<1>3. CASE Acquire(r)
  <2>1. ask' \in [Runs -> Asks]
    BY <1>3, GoesTyped DEF Acquire
  <2>2. tab' \in [Runs -> Tabs]
    BY <1>3 DEF Acquire, Tabs
  <2>3. QED
    BY <1>3, <2>1, <2>2 DEF TypedInv, TypeOK, Acquire
<1>4. CASE AcquireFails(r)
  <2>1. AskFailure("failed", "nil", None) \in Results
    BY FailureTyped
  <2>2. [ask EXCEPT ![r].pc = "done",
                    ![r].result = AskFailure("failed", "nil", None)] \in [Runs -> Asks]
    BY <2>1, PutResult
  <2>3. ask' \in [Runs -> Asks]
    BY <1>4, <2>2 DEF AcquireFails
  <2>4. QED
    BY <1>4, <2>3 DEF TypedInv, TypeOK, AcquireFails, page
<1>5. CASE PreparePage(r)
  <2>1. ask' \in [Runs -> Asks]
    BY <1>5, GoesTyped DEF PreparePage
  <2>2. typed \subseteq Prompts
    BY DEF TypedInv, TypeOK
  <2>3. PICK draft \in {None, Foreign} \cup typed :
         tab' = [tab EXCEPT ![r].at = "home", ![r].text = draft]
    BY <1>5 DEF PreparePage
  <2>4. draft \in {None, Foreign} \cup Prompts
    BY <2>2
  <2>5. tab' \in [Runs -> Tabs]
    BY <2>3, <2>4 DEF Tabs
  <2>6. QED
    BY <1>5, <2>1, <2>2, <2>3, <2>4, <2>5 DEF TypedInv, TypeOK, PreparePage
<1>6. CASE NotReady(r)
  <2>1. ask' \in [Runs -> Asks]
    BY <1>6, FailTyped DEF NotReady
  <2>2. QED
    BY <1>6, <2>1 DEF TypedInv, TypeOK, NotReady, page
<1>7. CASE ComposerReady(r)
  <2>1. AskFailure("restored_draft", "not_performed", None) \in Results
    BY FailureTyped
  <2>2. ask' \in [Runs -> Asks]
    <3>1. CASE Goto(r, "select")
      BY <3>1, GoesTyped
    <3>2. CASE Goto(r, "clear")
      BY <3>2, GoesTyped
    <3>3. CASE Return(r, AskFailure("restored_draft", "not_performed", None))
      BY <3>3, <2>1, ReturnTyped
    <3>4. QED
      BY <1>7, <3>1, <3>2, <3>3 DEF ComposerReady
  <2>3. QED
    BY <1>7, <2>2 DEF TypedInv, TypeOK, ComposerReady, page
<1>8. CASE ClearNotStarted(r)
  <2>1. AskFailure("cleanup_unproved", "not_performed", None) \in Results
    BY FailureTyped
  <2>2. ask' \in [Runs -> Asks]
    BY <1>8, <2>1, ReturnTyped DEF ClearNotStarted
  <2>3. QED
    BY <1>8, <2>2 DEF TypedInv, TypeOK, ClearNotStarted, page
<1>9. CASE Clear(r)
  <2>1. AskFailureWithoutActionRetry("cleanup_unproved") \in Results
    BY RestTyped
  <2>2. ask' \in [Runs -> Asks]
    <3>1. CASE Goto(r, "blank")
      BY <3>1, GoesTyped
    <3>2. CASE Return(r, AskFailureWithoutActionRetry("cleanup_unproved"))
      BY <3>2, <2>1, ReturnTyped
    <3>3. QED
      BY <1>9, <3>1, <3>2 DEF Clear
  <2>3. [tab EXCEPT ![r].text = None] \in [Runs -> Tabs]
    BY DEF Tabs
  <2>4. tab' \in [Runs -> Tabs]
    BY <1>9, <2>3 DEF Clear
  <2>5. QED
    BY <1>9, <2>2, <2>3, <2>4 DEF TypedInv, TypeOK, Clear
<1>10. CASE StableBlank(r)
  <2>1. AskFailureWithoutActionRetry("cleanup_unproved") \in Results
    BY RestTyped
  <2>2. ask' \in [Runs -> Asks]
    <3>1. CASE Goto(r, "select")
      BY <3>1, GoesTyped
    <3>2. CASE Return(r, AskFailureWithoutActionRetry("cleanup_unproved"))
      BY <3>2, <2>1, ReturnTyped
    <3>3. QED
      BY <1>10, <3>1, <3>2 DEF StableBlank
  <2>3. QED
    BY <1>10, <2>2 DEF TypedInv, TypeOK, StableBlank, page
<1>11. CASE Select(r)
  <2>1. ask' \in [Runs -> Asks]
    BY <1>11, GoesTyped DEF Select
  <2>2. QED
    BY <1>11, <2>1 DEF TypedInv, TypeOK, Select, page
<1>12. CASE BindInputFingerprint(r)
  <2>1. (IF ask[r].kind = "upload" THEN "attach" ELSE "prepare") \in Places
    BY Labels
  <2>2. ask' \in [Runs -> Asks]
    <3>1. CASE ask' = [ask EXCEPT ![r].bound = TRUE,
                ![r].pc = IF ask[r].kind = "upload" THEN "attach" ELSE "prepare"]
      <4>1. [ask EXCEPT ![r].bound = TRUE,
                ![r].pc = IF ask[r].kind = "upload" THEN "attach" ELSE "prepare"]
              \in [Runs -> Asks]
        BY <2>1, PutBound
      <4>2. QED
        BY <3>1, <4>1
    <3>2. CASE Fail(r, "not_performed")
      BY <3>2, FailTyped
    <3>3. QED
      BY <1>12, <3>1, <3>2 DEF BindInputFingerprint
  <2>3. QED
    BY <1>12, <2>2 DEF TypedInv, TypeOK, BindInputFingerprint, page
<1>13. CASE AttachLocalFiles(r)
  <2>1. AskFailureWithoutActionRetry("failed") \in Results
    BY RestTyped
  <2>2. ask' \in [Runs -> Asks]
    <3>1. CASE Fail(r, "not_performed")
      BY <3>1, FailTyped
    <3>2. CASE Goto(r, "prepare")
      BY <3>2, GoesTyped
    <3>3. CASE Return(r, AskFailureWithoutActionRetry("failed"))
      BY <3>3, <2>1, ReturnTyped
    <3>4. QED
      BY <1>13, <3>1, <3>2, <3>3 DEF AttachLocalFiles
  <2>3. [tab EXCEPT ![r].files = TRUE] \in [Runs -> Tabs]
    BY DEF Tabs
  <2>4. tab' \in [Runs -> Tabs]
    BY <1>13, <2>3 DEF AttachLocalFiles
  <2>5. QED
    BY <1>13, <2>2, <2>3, <2>4 DEF TypedInv, TypeOK, AttachLocalFiles
<1>14. CASE PreparationStops(r)
  <2>1. PICK c \in {None} \cup {x \in {tab[r].at} : ShowsPrompt(r, Prompt(r))} :
         ReturnIncomplete(r, PreparationUnknown(c))
    BY <1>14 DEF PreparationStops
  <2>2. c \in Conversations
    BY DEF ShowsPrompt, Conversations
  <2>3. PreparationUnknown(c) \in Results
    BY <2>2, RestTyped
  <2>4. ask' \in [Runs -> Asks]
    BY <1>14, <2>1, <2>3, IncompleteTyped
  <2>5. QED
    BY <1>14, <2>4 DEF TypedInv, TypeOK, PreparationStops, page
<1>15. CASE ObserveBoundary(r)
  <2>1. ask' \in [Runs -> Asks]
    BY <1>15, GoesTyped DEF ObserveBoundary
  <2>2. QED
    BY <1>15, <2>1 DEF TypedInv, TypeOK, ObserveBoundary, page
<1>16. CASE InsertPrompt(r)
  <2>1. ask' \in [Runs -> Asks]
    <3>1. CASE ask' = [ask EXCEPT ![r].pc = "inserted"]
      <4>1. [ask EXCEPT ![r].pc = "inserted"]
              \in [Runs -> Asks]
        BY PutPlace
      <4>2. QED
        BY <3>1, <4>1
    <3>2. CASE ask' = [ask EXCEPT ![r].pc = "insert_failed"]
      <4>1. [ask EXCEPT ![r].pc = "insert_failed"]
              \in [Runs -> Asks]
        BY PutPlace
      <4>2. QED
        BY <3>2, <4>1
    <3>3. CASE Goto(r, "insert_failed")
      BY <3>3, GoesTyped
    <3>4. QED
      BY <1>16, <3>1, <3>2, <3>3 DEF InsertPrompt
  <2>2. Prompt(r) \in Prompts
    BY <1>16 DEF InsertPrompt, Asks, TypedInv, KeepInv, Asked, Prompt
  <2>3. tab' \in [Runs -> Tabs] /\ typed' \subseteq Prompts
    <3> DEFINE typing == [tab EXCEPT ![r].text = Prompt(r), ![r].own = TRUE,
                                     ![r].unseen = FALSE]
    <3>1. typing \in [Runs -> Tabs]
      BY <2>2, TypedIn
    <3>2. typed \subseteq Prompts
      BY DEF TypedInv, TypeOK
    <3>3. \/ tab' = typing /\ typed' = typed \cup {Prompt(r)}
          \/ tab' = tab /\ typed' = typed
      BY <1>16 DEF InsertPrompt
    <3> HIDE DEF typing
    <3>4. QED
      BY <2>2, <3>1, <3>2, <3>3
  <2>4. QED
    BY <1>16, <2>1, <2>2, <2>3 DEF TypedInv, TypeOK, InsertPrompt
<1>17. CASE VerifyInserted(r)
  <2>1. ask' \in [Runs -> Asks]
    BY <1>17, GoesTyped DEF VerifyInserted
  <2>2. QED
    BY <1>17, <2>1 DEF TypedInv, TypeOK, VerifyInserted, page
<1>18. CASE Verify(r)
  <2>1. ask' \in [Runs -> Asks]
    <3>1. CASE Goto(r, "final_guard")
      BY <3>1, GoesTyped
    <3>2. CASE Goto(r, "prepare")
      BY <3>2, GoesTyped
    <3>3. CASE Fail(r, "not_performed")
      BY <3>3, FailTyped
    <3>4. QED
      BY <1>18, <3>1, <3>2, <3>3 DEF Verify
  <2>2. QED
    BY <1>18, <2>1 DEF TypedInv, TypeOK, Verify, page
<1>19. CASE MarkPrepared(r)
  <2>1. "prepared" \in Phases
    BY DEF Phases
  <2>2. ask' \in [Runs -> Asks]
    <3>1. CASE ask' = [ask EXCEPT ![r].pc = "dispatch", ![r].phase = "prepared"]
      <4>1. [ask EXCEPT ![r].pc = "dispatch", ![r].phase = "prepared"]
              \in [Runs -> Asks]
        BY <2>1, PutPhase
      <4>2. QED
        BY <3>1, <4>1
    <3>2. CASE Fail(r, "not_performed")
      BY <3>2, FailTyped
    <3>3. QED
      BY <1>19, <3>1, <3>2 DEF MarkPrepared
  <2>3. QED
    BY <1>19, <2>2 DEF TypedInv, TypeOK, MarkPrepared, page
<1>20. QED
  BY <1>3, <1>4, <1>5, <1>6, <1>7, <1>8, <1>9, <1>10, <1>11, <1>12, <1>13, <1>14,
     <1>15, <1>16, <1>17, <1>18, <1>19 DEF Prepares

LEMMA ObserveTyped ==
  ASSUME TypedInv, NEW r \in Runs, ObserveRoute(r)
  PROVE  TypeOK'
<1> DEFINE user == \/ ask[r].user \/ tab[r].at = Foreign
                   \/ conv[tab[r].at].users = 1
<1>1. ask \in [Runs -> Asks]
  BY DEF TypedInv, TypeOK
<1>2. tab[r].at \in Conversations
  BY DEF ObserveRoute, InConversation, Conversations
<1>3. user \in BOOLEAN
  <2>1. ask[r].user \in BOOLEAN
    BY <1>1 DEF Asks
  <2>2. QED
    BY <2>1
<1>4. ask' = [ask EXCEPT ![r].seen = tab[r].at, ![r].user = user]
  BY <1>1 DEF ObserveRoute, Asks
<1> HIDE DEF user
<1>5. [ask EXCEPT ![r].seen = tab[r].at, ![r].user = user] \in [Runs -> Asks]
  BY <1>1, <1>2, <1>3, PutUser
<1>6. ask' \in [Runs -> Asks]
  BY <1>4, <1>5
<1>7. QED
  BY <1>6 DEF ObserveRoute, TypedInv, TypeOK, page

LEMMA TypedSends ==
  ASSUME TypedInv, NEW r \in Runs, SendsAndReads(r)
  PROVE  TypeOK'
<1>1. ask \in [Runs -> Asks] /\ tab \in [Runs -> Tabs]
  BY DEF TypedInv, TypeOK
<1>2. "not_performed" \in Actions \cup {"nil"} /\ None \in Conversations
  BY DEF Actions, Conversations
<1> USE <1>1, <1>2, Labels, CodesAre
<1>3. CASE VerifyBeforeSend(r)
  <2>1. ask' \in [Runs -> Asks]
    BY <1>3, GoesTyped DEF VerifyBeforeSend
  <2>2. QED
    BY <1>3, <2>1 DEF TypedInv, TypeOK, VerifyBeforeSend, page
<1>4. CASE SendNotPerformed(r)
  <2>1. AskFailure("failed", "not_performed", None) \in Results
    BY FailureTyped
  <2>2. ask' \in [Runs -> Asks]
    BY <1>4, <2>1, IncompleteTyped DEF SendNotPerformed
  <2>3. QED
    BY <1>4, <2>2 DEF TypedInv, TypeOK, SendNotPerformed, page
<1>5. CASE PressEnter(r)
  <2>1. {"performed", "unknown"} \subseteq Phases \cap Actions
    BY DEF Phases, Actions
  <2>2. ask' \in [Runs -> Asks]
    <3>1. CASE ask' = [ask EXCEPT ![r].pc = "acknowledge", ![r].phase = "performed",
                  ![r].dispatch = "performed"]
      <4>1. [ask EXCEPT ![r].pc = "acknowledge", ![r].phase = "performed",
                  ![r].dispatch = "performed"]
              \in [Runs -> Asks]
        BY <2>1, PutPerformed
      <4>2. QED
        BY <3>1, <4>1
    <3>2. CASE ask' = [ask EXCEPT ![r].pc = "acknowledge", ![r].phase = "unknown",
                  ![r].dispatch = "unknown"]
      <4>1. [ask EXCEPT ![r].pc = "acknowledge", ![r].phase = "unknown",
                  ![r].dispatch = "unknown"]
              \in [Runs -> Asks]
        BY <2>1, PutPerformed
      <4>2. QED
        BY <3>2, <4>1
    <3>3. QED
      BY <1>5, <3>1, <3>2 DEF PressEnter
  <2>3. [tab EXCEPT ![r].enter = TRUE] \in [Runs -> Tabs]
    BY DEF Tabs
  <2>4. tab' \in [Runs -> Tabs]
    BY <1>5, <2>3 DEF PressEnter
  <2>5. QED
    BY <1>5, <2>2, <2>3, <2>4 DEF TypedInv, TypeOK, PressEnter
<1>6. CASE ProvePrompt(r)
  <2>1. tab[r].at \in Conversations
    BY <1>6 DEF ProvePrompt, ShowsPrompt, Conversations
  <2>2. [ask EXCEPT ![r].pc = "persist", ![r].seen = tab[r].at] \in [Runs -> Asks]
    BY <2>1, PutShown
  <2>3. ask' \in [Runs -> Asks]
    BY <1>6, <2>2 DEF ProvePrompt
  <2>4. QED
    BY <1>6, <2>3 DEF TypedInv, TypeOK, ProvePrompt, page
<1>7. CASE NotAcknowledged(r)
  <2>1. ask[r].dispatch \in Actions
    BY DEF Asks
  <2>2. AskFailure("identity_unproven", ask[r].dispatch, None) \in Results
    BY <2>1, FailureTyped
  <2>3. ask' \in [Runs -> Asks]
    BY <1>7, <2>2, IncompleteTyped DEF NotAcknowledged, IdentityUnproven
  <2>4. QED
    BY <1>7, <2>3 DEF TypedInv, TypeOK, NotAcknowledged, page
<1>8. CASE ReadIdentity(r)
  <2>1. ask[r].dispatch \in Actions
    BY DEF Asks
  <2>2. AskFailure("identity_unproven", ask[r].dispatch, None) \in Results
    BY <2>1, FailureTyped
  <2>3. AskFailure("failed", ask[r].dispatch, None) \in Results
    BY <2>1, FailureTyped
  <2>4. ask' \in [Runs -> Asks]
    <3>1. CASE ReturnIncomplete(r, AskFailure("failed", ask[r].dispatch, None))
      BY <3>1, <2>3, IncompleteTyped
    <3>2. CASE ask' = [ask EXCEPT ![r].pc = "persist", ![r].detail = TRUE]
      <4>1. [ask EXCEPT ![r].pc = "persist", ![r].detail = TRUE]
              \in [Runs -> Asks]
        BY PutDetail
      <4>2. QED
        BY <3>2, <4>1
    <3>3. CASE ReturnIncomplete(r, AskFailure("identity_unproven", ask[r].dispatch, None))
      BY <3>3, <2>2, IncompleteTyped
    <3>4. QED
      BY <1>8, <3>1, <3>2, <3>3 DEF ReadIdentity, IdentityUnproven
  <2>5. QED
    BY <1>8, <2>4 DEF TypedInv, TypeOK, ReadIdentity, page
<1>9. CASE Acknowledge(r)
  <2>1. ask[r].conv \in Conversations /\ ask[r].seen \in Conversations
    BY DEF Asks
  <2>2. ask[r].dispatch \in Actions /\ "performed" \in Actions /\ "acknowledged" \in Phases
    BY DEF Asks, Actions, Phases
  <2>3. AskFailure("failed", ask[r].dispatch, ask[r].seen) \in Results
    BY <2>1, <2>2, FailureTyped
  <2>4. (IF ask[r].kind = "research" THEN "research" ELSE "answer") \in Places
    BY Labels
  <2>5. ask' \in [Runs -> Asks]
    <3>1. CASE ask' = [ask EXCEPT ![r].conv = ask[r].seen, ![r].phase = "acknowledged",
                ![r].dispatch = "performed",
                ![r].pc = IF ask[r].kind = "research" THEN "research" ELSE "answer"]
      <4>1. [ask EXCEPT ![r].conv = ask[r].seen, ![r].phase = "acknowledged",
                ![r].dispatch = "performed",
                ![r].pc = IF ask[r].kind = "research" THEN "research" ELSE "answer"]
              \in [Runs -> Asks]
        BY <2>1, <2>2, <2>4, PutNamed
      <4>2. QED
        BY <3>1, <4>1
    <3>2. CASE Return(r, AskFailure("failed", ask[r].dispatch, ask[r].seen))
      BY <3>2, <2>3, ReturnTyped
    <3>3. QED
      BY <1>9, <3>1, <3>2 DEF Acknowledge
  <2>6. QED
    BY <1>9, <2>5 DEF TypedInv, TypeOK, Acknowledge, page
<1>10. CASE ResearchSubmitted(r)
  <2>1. ask[r].conv \in Conversations /\ ask[r].seen \in Conversations
    BY DEF Asks
  <2>2. AskFailure("failed", "performed", ask[r].conv) \in Results
    BY <2>1, FailureTyped DEF Actions
  <2>3. AskSuccess("incomplete", ask[r].conv, None) \in Results
    BY <2>1, RestTyped
  <2>4. "incomplete" \in Phases
    BY DEF Phases
  <2>5. ask' \in [Runs -> Asks]
    <3>1. CASE ask' = [ask EXCEPT ![r].pc = "return", ![r].phase = "incomplete",
                ![r].result = AskSuccess("incomplete", ask[r].conv, None)]
      <4>1. [ask EXCEPT ![r].pc = "return", ![r].phase = "incomplete",
                ![r].result = AskSuccess("incomplete", ask[r].conv, None)]
              \in [Runs -> Asks]
        BY <2>3, <2>4, PutEnd
      <4>2. QED
        BY <3>1, <4>1
    <3>2. CASE Return(r, AskFailure("failed", "performed", ask[r].conv))
      BY <3>2, <2>2, ReturnTyped
    <3>3. QED
      BY <1>10, <3>1, <3>2 DEF ResearchSubmitted
  <2>6. QED
    BY <1>10, <2>5 DEF TypedInv, TypeOK, ResearchSubmitted, page
<1>11. CASE WaitRendered(r)
  <2>1. ask[r].conv \in Conversations /\ ask[r].seen \in Conversations
    BY DEF Asks
  <2>2. Read(r) \in Results
    BY <1>11, <2>1, RestTyped DEF WaitRendered, Read, TypedInv, KeepInv, Names,
       Reading, TypeOK
  <2>3. ask' \in [Runs -> Asks]
    BY <1>11, <2>2, ReadTyped DEF WaitRendered
  <2>4. QED
    BY <1>11, <2>3 DEF TypedInv, TypeOK, WaitRendered, page
<1>12. CASE AnswerIncomplete(r)
  <2>1. ask[r].conv \in Conversations /\ ask[r].seen \in Conversations
    BY DEF Asks
  <2>2. AskSuccess("incomplete", ask[r].conv, None) \in Results
    BY <2>1, RestTyped
  <2>3. ask' \in [Runs -> Asks]
    BY <1>12, <2>2, IncompleteTyped DEF AnswerIncomplete
  <2>4. QED
    BY <1>12, <2>3 DEF TypedInv, TypeOK, AnswerIncomplete, page
<1>13. CASE FetchDetail(r)
  <2>1. ask[r].conv \in Conversations /\ ask[r].seen \in Conversations
    BY DEF Asks
  <2>2. Read(r) \in Results
    BY <1>13, <2>1, RestTyped DEF FetchDetail, Read, TypedInv, KeepInv, Names,
       Reading, TypeOK
  <2>3. AskFailure("failed", "performed", ask[r].conv) \in Results
    BY <2>1, FailureTyped DEF Actions
  <2>4. AskSuccess("incomplete", ask[r].conv, None) \in Results
    BY <2>1, RestTyped
  <2>5. ask' \in [Runs -> Asks]
    <3>1. CASE ReadAnswer(r)
      BY <3>1, <2>2, ReadTyped
    <3>2. CASE ReturnIncomplete(r, AskSuccess("incomplete", ask[r].conv, None))
      BY <3>2, <2>4, IncompleteTyped
    <3>3. CASE ReturnIncomplete(r, AskFailure("failed", "performed", ask[r].conv))
      BY <3>3, <2>3, IncompleteTyped
    <3>4. CASE Goto(r, "recover")
      BY <3>4, GoesTyped
    <3>5. QED
      BY <1>13, <3>1, <3>2, <3>3, <3>4 DEF FetchDetail
  <2>6. QED
    BY <1>13, <2>5 DEF TypedInv, TypeOK, FetchDetail, page
<1>14. CASE RecoverRendered(r)
  <2>1. ask[r].conv \in Conversations /\ ask[r].seen \in Conversations
    BY DEF Asks
  <2>2. Read(r) \in Results
    BY <1>14, <2>1, RestTyped DEF RecoverRendered, Read, TypedInv, KeepInv,
       Names, Reading, TypeOK
  <2>3. AskFailure("failed", "performed", ask[r].conv) \in Results
    BY <2>1, FailureTyped DEF Actions
  <2>4. ask' \in [Runs -> Asks]
    <3>1. CASE ReadAnswer(r)
      BY <3>1, <2>2, ReadTyped
    <3>2. CASE ReturnIncomplete(r, AskFailure("failed", "performed", ask[r].conv))
      BY <3>2, <2>3, IncompleteTyped
    <3>3. QED
      BY <1>14, <3>1, <3>2 DEF RecoverRendered
  <2>5. ask[r].conv \in Runs
    BY <1>14 DEF RecoverRendered, TypedInv, KeepInv, Names, Reading
  <2>6. [NoTab EXCEPT !.at = ask[r].conv] \in Tabs
    BY <2>5, ShownTyped
  <2>7. [tab EXCEPT ![r] = [NoTab EXCEPT !.at = ask[r].conv]] \in [Runs -> Tabs]
    BY <2>6
  <2>8. tab' \in [Runs -> Tabs]
    BY <1>14, <2>7 DEF RecoverRendered
  <2>9. QED
    BY <1>14, <2>4, <2>5, <2>6, <2>7, <2>8 DEF TypedInv, TypeOK, RecoverRendered
<1>15. CASE MarkTerminal(r)
  <2>1. ask[r].conv \in Conversations /\ ask[r].seen \in Conversations
    BY DEF Asks
  <2>2. AskFailure("failed", "performed", ask[r].conv) \in Results
    BY <2>1, FailureTyped DEF Actions
  <2>3. "terminal" \in Phases
    BY DEF Phases
  <2>4. ask' \in [Runs -> Asks]
    <3>1. CASE ask' = [ask EXCEPT ![r].pc = "return", ![r].phase = "terminal"]
      <4>1. [ask EXCEPT ![r].pc = "return", ![r].phase = "terminal"]
              \in [Runs -> Asks]
        BY <2>3, PutPhase
      <4>2. QED
        BY <3>1, <4>1
    <3>2. CASE Return(r, AskFailure("failed", "performed", ask[r].conv))
      BY <3>2, <2>2, ReturnTyped
    <3>3. QED
      BY <1>15, <3>1, <3>2 DEF MarkTerminal
  <2>5. QED
    BY <1>15, <2>4 DEF TypedInv, TypeOK, MarkTerminal, page
<1>16. CASE Close(r)
  <2>1. ask[r].result \in Results
    BY DEF Asks
  <2>2. CleanupFailed(ask[r].result) \in Results
        /\ [ask[r].result EXCEPT !.closed = TRUE] \in Results
    BY <2>1, RestTyped
  <2>3. [ask EXCEPT ![r].pc = "done", ![r].result.closed = TRUE] =
          [ask EXCEPT ![r].pc = "done",
                      ![r].result = [ask[r].result EXCEPT !.closed = TRUE]]
    BY DEF Asks
  <2>4. [ask EXCEPT ![r].pc = "done",
                    ![r].result = [ask[r].result EXCEPT !.closed = TRUE]]
            \in [Runs -> Asks]
    BY <2>2, PutResult
  <2>5. [ask EXCEPT ![r].pc = "done", ![r].result = CleanupFailed(@)] =
          [ask EXCEPT ![r].pc = "done", ![r].result = CleanupFailed(ask[r].result)]
    BY DEF Asks
  <2>6. [ask EXCEPT ![r].pc = "done", ![r].result = CleanupFailed(ask[r].result)]
            \in [Runs -> Asks]
    BY <2>2, PutResult
  <2>7. ask' \in [Runs -> Asks]
    BY <1>16, <2>3, <2>4, <2>5, <2>6 DEF Close
  <2>8. [tab EXCEPT ![r].at = "closed"] \in [Runs -> Tabs]
    BY DEF Tabs
  <2>9. tab' \in [Runs -> Tabs]
    BY <1>16, <2>8 DEF Close
  <2>10. QED
    BY <1>16, <2>7, <2>8, <2>9 DEF TypedInv, TypeOK, Close, ReleaseInput
<1>17. CASE Keep(r)
  <2>1. ask' \in [Runs -> Asks]
    BY <1>17, GoesTyped DEF Keep
  <2>2. QED
    BY <1>17, <2>1 DEF TypedInv, TypeOK, Keep, page, ReleaseInput
<1>18. CASE ObserveRoute(r)
  BY <1>18, ObserveTyped
<1>19. QED
  BY <1>3, <1>4, <1>5, <1>6, <1>7, <1>8, <1>9, <1>10, <1>11, <1>12, <1>13, <1>14,
     <1>15, <1>16, <1>17, <1>18 DEF SendsAndReads

\* The page, and the caller.
LEMMA TypedSubmit ==
  ASSUME TypedInv, NEW r \in Runs, Submit(r)
  PROVE  late' \subseteq Runs => TypeOK'
<1> DEFINE c == IF AtHome(r) THEN r ELSE tab[r].at
<1>1. /\ ask \in [Runs -> Asks] /\ tab \in [Runs -> Tabs] /\ sends \in [Runs -> Nat]
      /\ conv \in [Runs -> [users : Nat, answer : Answers]]
  BY DEF TypedInv, TypeOK
<1>2. c \in {"none", "blank", "home", "closed", Foreign} \cup Runs
  BY <1>1 DEF Tabs
<1>3. /\ tab' = [tab EXCEPT ![r] = [NoTab EXCEPT !.at = c]]
      /\ sends' = [sends EXCEPT ![r] = @ + 1]
      /\ conv' = IF c \in Runs THEN [conv EXCEPT ![c].users = @ + 1] ELSE conv
      /\ UNCHANGED <<ask, input, typed>>
  BY DEF Submit
<1> HIDE DEF c
<1>4. [NoTab EXCEPT !.at = c] \in Tabs
  BY <1>2 DEF NoTab, Tabs
<1>5. tab' \in [Runs -> Tabs]
  BY <1>1, <1>3, <1>4
<1>6. sends' \in [Runs -> Nat]
  BY <1>1, <1>3
<1>7. conv' \in [Runs -> [users : Nat, answer : Answers]]
  BY <1>1, <1>3
<1>8. QED
  BY <1>3, <1>5, <1>6, <1>7 DEF TypedInv, TypeOK

LEMMA TypedPage ==
  ASSUME TypedInv, NEW r \in Runs, PageStep(r)
  PROVE  TypeOK'
<1>1. /\ ask \in [Runs -> Asks] /\ tab \in [Runs -> Tabs]
      /\ conv \in [Runs -> [users : Nat, answer : Answers]]
  BY DEF TypedInv, TypeOK
<1>2. CASE PageSubmits(r) \/ EnterSubmits(r)
  <2>1. late \subseteq Runs
    BY DEF TypedInv, TypeOK
  <2>2. late' \subseteq Runs
    BY <1>2, <2>1 DEF PageSubmits, EnterSubmits
  <2>3. QED
    BY <1>2, <2>2, TypedSubmit DEF PageSubmits, EnterSubmits
<1>3. CASE EnterSwallowed(r)
  <2>1. tab' \in [Runs -> Tabs]
    BY <1>1, <1>3 DEF EnterSwallowed, Tabs
  <2>2. QED
    BY <1>3, <2>1 DEF EnterSwallowed, TypedInv, TypeOK
<1>4. CASE DraftReturns(r)
  <2>1. PICK draft \in {Foreign} \cup typed :
          tab' = [tab EXCEPT ![r].text = draft,
                             ![r].unseen = ask[r].pc \notin {"ready", "blank"}]
    BY <1>4 DEF DraftReturns
  <2>2. draft \in {None, Foreign} \cup Prompts
    BY DEF TypedInv, TypeOK
  <2>3. /\ tab[r] \in Tabs
        /\ [tab[r] EXCEPT !.text = draft,
                          !.unseen = ask[r].pc \notin {"ready", "blank"}] \in Tabs
    <3> HIDE DEF TypeOK
    <3>1. tab[r] \in Tabs
      BY <1>1
    <3>2. (ask[r].pc \notin {"ready", "blank"}) \in BOOLEAN
      OBVIOUS
    <3> QED  BY <2>2, <3>1, <3>2 DEF Tabs
  <2>4. tab' \in [Runs -> Tabs]
    BY <1>1, <2>1, <2>3
  <2>5. QED
    BY <1>4, <2>4 DEF DraftReturns, TypedInv, TypeOK
<1>5. CASE Wander(r)
  <2>1. PICK c \in {Foreign} \cup {x \in Runs : x # r /\ conv[x].users > 0} :
          tab' = [tab EXCEPT ![r] = [NoTab EXCEPT !.at = c]]
    BY <1>5 DEF Wander
  <2>2. [NoTab EXCEPT !.at = c] \in Tabs
    BY ShownTyped
  <2>3. tab' \in [Runs -> Tabs]
    BY <1>1, <2>1, <2>2
  <2>4. QED
    BY <1>5, <2>3 DEF Wander, TypedInv, TypeOK
<1>6. CASE ProviderAnswers(r)
  <2>1. conv' \in [Runs -> [users : Nat, answer : Answers]]
    BY <1>1, <1>6 DEF ProviderAnswers, Answers
  <2>2. QED
    BY <1>6, <2>1 DEF ProviderAnswers, TypedInv, TypeOK
<1>7. QED
  BY <1>2, <1>3, <1>4, <1>5, <1>6 DEF PageStep

LEMMA TypedBegins ==
  ASSUME TypedInv, NEW r \in Runs, NEW p \in Prompts,
         \/ \E k \in Kinds, q \in Runs \cup {None} : Start(r, p, k, q)
         \/ \E q \in Runs : RejectReceipt(r, p, q)
  PROVE  TypeOK'
<1>1. ask \in [Runs -> Asks]
  BY DEF TypedInv, TypeOK
<1>2. ASSUME NEW k \in Kinds, NEW q \in Runs \cup {None}, Start(r, p, k, q)
      PROVE  TypeOK'
  <2>1. Idle \in Asks
    <3>1. NoResult \in Results
      BY DEF NoResult, Results, Codes, Actions, Conversations
    <3>2. QED
      BY <3>1, Labels DEF Idle, Asks, Actions, Conversations
  <2>2. k \in {"text", "upload", "image", "research"}
    BY AskAssumption
  <2>3. [Idle EXCEPT !.pc = "acquire", !.prompt = p, !.kind = k, !.receipt = q]
          \in Asks
    <3> HIDE DEF Idle
    <3> QED
      BY <2>1, <2>2, Labels DEF Asks
  <2>4. ask' \in [Runs -> Asks]
    BY <1>1, <1>2, <2>3 DEF Start
  <2>5. QED
    BY <1>2, <2>4 DEF Start, TypedInv, TypeOK, page
<1>3. ASSUME NEW q \in Runs, RejectReceipt(r, p, q)
      PROVE  TypeOK'
  <2>1. AskFailure("failed", "not_performed", None) \in Results
    BY CodesAre, FailureTyped DEF Actions, Conversations
  <2>2. [ask EXCEPT ![r].pc = "done", ![r].prompt = p,
               ![r].result = AskFailure("failed", "not_performed", None)]
          \in [Runs -> Asks]
    BY <1>1, <2>1, Labels, PutBegun
  <2>3. ask' \in [Runs -> Asks]
    BY <1>3, <2>2 DEF RejectReceipt
  <2>4. QED
    BY <1>3, <2>3 DEF RejectReceipt, TypedInv, TypeOK, page
<1>4. QED
  BY <1>2, <1>3

LEMMA TypedInitially ==
  ASSUME Init
  PROVE  TypedInv
<1>1. NoResult \in Results
  BY DEF NoResult, Results, Codes, Actions, Conversations
<1>2. Idle \in Asks
  BY <1>1, Labels DEF Idle, Asks, Actions, Conversations
<1>3. NoTab \in Tabs
  BY DEF NoTab, Tabs
<1>4. TypeOK
  BY <1>2, <1>3 DEF Init, TypeOK, Answers
<1>5. QED
  BY <1>4, KeepInitially DEF TypedInv

LEMMA TypedStep ==
  ASSUME TypedInv, [Next]_vars
  PROVE  TypedInv'
<1>1. KeepInv'
  BY KeepStep DEF TypedInv
<1>2. TypeOK'
  <2>1. CASE UNCHANGED vars
    BY <2>1 DEF vars, TypedInv, TypeOK
  <2>2. ASSUME NEW r \in Runs, Prepares(r) \/ SendsAndReads(r) \/ PageStep(r)
        PROVE  TypeOK'
    BY <2>2, TypedPrepares, TypedSends, TypedPage
  <2>3. QED
    BY <2>1, <2>2, TypedBegins DEF Next
<1>3. QED
  BY <1>1, <1>2 DEF TypedInv

\* Every ask, tab and conversation keeps its type, whatever the pages do
\* (TypeOK): among it, a draft that shows up is a person's text or a prompt.
THEOREM Typed == Spec => []TypeOK
<1>1. Init => TypedInv
  BY TypedInitially
<1>2. TypedInv /\ [Next]_vars => TypedInv'
  BY TypedStep
<1>3. TypedInv => TypeOK
  BY DEF TypedInv
<1>4. QED
  BY <1>1, <1>2, <1>3, PTL DEF Spec

-----------------------------------------------------------------------------
\* What a closed tab leaves.
\* The asks that have bound their input, from there up to their answer.
After == {"attach", "prepare", "insert", "inserted", "insert_failed", "verify",
          "final_guard", "dispatch", "enter"} \cup Sent

\* A conversation an ask sees, or has named, has a message; the one that its
\* own tab made has it from a submission.
Made(c) == c \in Runs => conv[c].users > 0

Shown(r) ==
  /\ Made(tab[r].at) /\ Made(ask[r].seen) /\ Made(ask[r].conv)
  /\ conv[r].users > 0 => sends[r] > 0

\* Before its input is bound an ask has put nothing on its page.
Untouched(r) ==
  /\ ask[r].pc = "idle" => ask[r].bound = FALSE
  /\ ask[r].pc \in After => ask[r].bound = TRUE
  /\ ask[r].bound = FALSE =>
       /\ tab[r].own = FALSE /\ tab[r].files = FALSE /\ tab[r].enter = FALSE
       /\ sends[r] = 0

\* The typed prompt is gone from a tab that has left the fresh page, and once an
\* ask has seen its conversation, its tab has left that page.
Empty(r) == tab[r].own = FALSE /\ tab[r].files = FALSE /\ tab[r].text = None
Moved(r) == tab[r].at # "home" /\ Empty(r)

Left(r) ==
  /\ ask[r].pc \in {"verify", "final_guard", "dispatch", "enter", "acknowledge"} =>
       tab[r].at = "home" \/ Empty(r)
  /\ ask[r].user => ask[r].pc \in Sent \cup {"return", "done"}
  /\ ask[r].pc = "acknowledge" /\ ask[r].user => Moved(r)
  /\ ask[r].pc \in {"persist"} \cup Reading => Moved(r)
  /\ ask[r].pc = "return" /\ ask[r].result.code = "terminal" => Moved(r)

\* What was sent from the tab is the conversation that journal and result name,
\* or that is an earlier one of the same prompt.
Named(r) ==
  LET c == ask[r].conv IN
  /\ c \in Runs /\ ask[r].result.conv = c /\ Prompt(c) = Prompt(r)
  /\ c = r \/ c \in late

Recoverable(r) ==
  tab[r].at = "closed" =>
    /\ ask[r].pc = "done" /\ tab[r].own = FALSE /\ tab[r].files = FALSE
    /\ tab[r].enter => tab[r].text = None
    /\ sends[r] > 0 => Named(r)

CloseInv ==
  /\ TypedInv /\ OneAtWork
  /\ \A r \in Runs : /\ Once(r) /\ Shown(r) /\ Untouched(r) /\ Left(r)
                     /\ Recoverable(r)

\* What a step of an ask that does not close its tab may do.
Tame(r) ==
  /\ ask'[r].bound = ask[r].bound \/ ask'[r].bound = TRUE
  /\ ask'[r].pc \in After => ask'[r].bound = TRUE
  /\ ask'[r].seen \in {ask[r].seen, tab[r].at}
  /\ ask'[r].conv = ask[r].conv \/ ask'[r].conv = ask[r].seen
  /\ tab'[r].at = tab[r].at \/ tab'[r].at \in {"blank", "home", ask[r].conv}
  /\ tab'[r].own = tab[r].own \/ tab'[r].own = FALSE \/ ask[r].bound = TRUE
  /\ \/ tab'[r].files = tab[r].files \/ tab'[r].files = FALSE
     \/ ask[r].pc = "attach"
  /\ tab'[r].enter = tab[r].enter \/ tab'[r].enter = FALSE \/ ask[r].bound = TRUE

\* Every step but that one is such a step, and such a step leaves no tab closed.
LEMMA TamePrepares ==
  ASSUME Records, NEW r \in Runs, Untouched(r), Prepares(r)
  PROVE  Tame(r)
<1>1. /\ DOMAIN ask = Runs /\ DOMAIN tab = Runs
      /\ DOMAIN ask[r] = AskFields /\ DOMAIN tab[r] = TabFields
      /\ ask[r].pc \in After => ask[r].bound = TRUE
  BY DEF Records, Untouched
<1> USE <1>1 DEF Tame, After, Sent, Reading, AskFields, TabFields, page
<1>2. CASE Acquire(r)
  BY <1>2 DEF Acquire, Goto
<1>3. CASE AcquireFails(r)
  BY <1>3 DEF AcquireFails
<1>4. CASE PreparePage(r)
  BY <1>4 DEF PreparePage, Goto
<1>5. CASE NotReady(r)
  BY <1>5 DEF NotReady, Fail, Return
<1>6. CASE ComposerReady(r)
  BY <1>6 DEF ComposerReady, Goto, Return
<1>7. CASE ClearNotStarted(r)
  BY <1>7 DEF ClearNotStarted, Return
<1>8. CASE Clear(r)
  BY <1>8 DEF Clear, Goto, Return
<1>9. CASE StableBlank(r)
  BY <1>9 DEF StableBlank, Goto, Return
<1>10. CASE Select(r)
  BY <1>10 DEF Select, Goto
<1>11. CASE BindInputFingerprint(r)
  BY <1>11 DEF BindInputFingerprint, Fail, Return
<1>12. CASE AttachLocalFiles(r)
  BY <1>12 DEF AttachLocalFiles, Goto, Fail, Return
<1>13. CASE PreparationStops(r)
  BY <1>13 DEF PreparationStops, ReturnIncomplete
<1>14. CASE ObserveBoundary(r)
  BY <1>14 DEF ObserveBoundary, Goto
<1>15. CASE InsertPrompt(r)
  BY <1>15 DEF InsertPrompt, Goto
<1>16. CASE VerifyInserted(r)
  BY <1>16 DEF VerifyInserted, Goto
<1>17. CASE Verify(r)
  BY <1>17 DEF Verify, Goto, Fail, Return
<1>18. CASE MarkPrepared(r)
  BY <1>18 DEF MarkPrepared, Fail, Return
<1>19. QED
  BY <1>2, <1>3, <1>4, <1>5, <1>6, <1>7, <1>8, <1>9, <1>10, <1>11, <1>12, <1>13,
     <1>14, <1>15, <1>16, <1>17, <1>18 DEF Prepares

LEMMA TameSends ==
  ASSUME Records, NEW r \in Runs, Untouched(r), SendsAndReads(r), ~Close(r)
  PROVE  Tame(r)
<1>1. /\ DOMAIN ask = Runs /\ DOMAIN tab = Runs
      /\ DOMAIN ask[r] = AskFields /\ DOMAIN tab[r] = TabFields
      /\ ask[r].pc \in After => ask[r].bound = TRUE
  BY DEF Records, Untouched
<1> USE <1>1 DEF Tame, After, Sent, Reading, AskFields, TabFields, page
<1>2. CASE VerifyBeforeSend(r)
  BY <1>2 DEF VerifyBeforeSend, Goto
<1>3. CASE SendNotPerformed(r)
  BY <1>3 DEF SendNotPerformed, ReturnIncomplete
<1>4. CASE PressEnter(r)
  BY <1>4 DEF PressEnter
<1>5. CASE ObserveRoute(r)
  BY <1>5 DEF ObserveRoute
<1>6. CASE ProvePrompt(r)
  BY <1>6 DEF ProvePrompt
<1>7. CASE NotAcknowledged(r)
  BY <1>7 DEF NotAcknowledged, IdentityUnproven, ReturnIncomplete
<1>8. CASE ReadIdentity(r)
  BY <1>8 DEF ReadIdentity, IdentityUnproven, ReturnIncomplete
<1>9. CASE Acknowledge(r)
  BY <1>9 DEF Acknowledge, Return
<1>10. CASE ResearchSubmitted(r)
  BY <1>10 DEF ResearchSubmitted, Return
<1>11. CASE WaitRendered(r)
  BY <1>11 DEF WaitRendered, ReadAnswer
<1>12. CASE AnswerIncomplete(r)
  BY <1>12 DEF AnswerIncomplete, ReturnIncomplete
<1>13. CASE FetchDetail(r)
  BY <1>13 DEF FetchDetail, Goto, ReadAnswer, ReturnIncomplete
<1>14. CASE RecoverRendered(r)
  BY <1>14 DEF RecoverRendered, ReadAnswer, ReturnIncomplete, NoTab
<1>15. CASE MarkTerminal(r)
  BY <1>15 DEF MarkTerminal, Return
<1>16. CASE Keep(r)
  BY <1>16 DEF Keep, Goto
<1>17. QED
  BY <1>2, <1>3, <1>4, <1>5, <1>6, <1>7, <1>8, <1>9, <1>10, <1>11, <1>12, <1>13,
     <1>14, <1>15, <1>16 DEF SendsAndReads

\* No such step loses sight of a tab that has left the fresh page.
LEMMA LeftPrepares ==
  ASSUME Records, NEW r \in Runs, Left(r), OwnRead(r), Prepares(r)
  PROVE  Left(r)'
<1>1. /\ DOMAIN ask = Runs /\ DOMAIN tab = Runs
      /\ DOMAIN ask[r] = AskFields /\ DOMAIN tab[r] = TabFields
      /\ ask[r].user => ask[r].pc \in Sent \cup {"return", "done"}
  BY DEF Records, Left
<1> USE <1>1, FailureResult, UnknownResult
        DEF Left, Moved, Empty, Sent, Reading, AskFields, TabFields, page
<1>2. CASE Acquire(r)
  BY <1>2 DEF Acquire, Goto
<1>3. CASE AcquireFails(r)
  BY <1>3 DEF AcquireFails
<1>4. CASE PreparePage(r)
  BY <1>4 DEF PreparePage, Goto
<1>5. CASE NotReady(r)
  BY <1>5 DEF NotReady, Fail, Return
<1>6. CASE ComposerReady(r)
  BY <1>6 DEF ComposerReady, Goto, Return
<1>7. CASE ClearNotStarted(r)
  BY <1>7 DEF ClearNotStarted, Return
<1>8. CASE Clear(r)
  BY <1>8 DEF Clear, Goto, Return
<1>9. CASE StableBlank(r)
  BY <1>9 DEF StableBlank, Goto, Return
<1>10. CASE Select(r)
  BY <1>10 DEF Select, Goto
<1>11. CASE BindInputFingerprint(r)
  BY <1>11 DEF BindInputFingerprint, Fail, Return
<1>12. CASE AttachLocalFiles(r)
  BY <1>12 DEF AttachLocalFiles, Goto, Fail, Return
<1>13. CASE PreparationStops(r)
  BY <1>13 DEF PreparationStops, ReturnIncomplete
<1>14. CASE ObserveBoundary(r)
  BY <1>14 DEF ObserveBoundary, Goto
<1>15. CASE InsertPrompt(r)
  BY <1>15 DEF InsertPrompt, Goto
<1>16. CASE VerifyInserted(r)
  BY <1>16 DEF VerifyInserted, BaselineUnchanged, AtHome, Goto
<1>17. CASE Verify(r)
  BY <1>17 DEF Verify, Goto, Fail, Return
<1>18. CASE MarkPrepared(r)
  BY <1>18 DEF MarkPrepared, Fail, Return
<1>19. QED
  BY <1>2, <1>3, <1>4, <1>5, <1>6, <1>7, <1>8, <1>9, <1>10, <1>11, <1>12, <1>13,
     <1>14, <1>15, <1>16, <1>17, <1>18 DEF Prepares

LEMMA LeftSends ==
  ASSUME Records, NEW r \in Runs, Names(r), Left(r), OwnRead(r), SendsAndReads(r)
  PROVE  Left(r)'
<1>1. /\ DOMAIN ask = Runs /\ DOMAIN tab = Runs
      /\ DOMAIN ask[r] = AskFields /\ DOMAIN tab[r] = TabFields
      /\ ask[r].user => ask[r].pc \in Sent \cup {"return", "done"}
  BY DEF Records, Left
<1> USE <1>1, FailureResult, SuccessResult
        DEF Left, Moved, Empty, Sent, Reading, AskFields, TabFields, page
<1>2. CASE VerifyBeforeSend(r)
  BY <1>2 DEF VerifyBeforeSend, Goto
<1>3. CASE SendNotPerformed(r)
  BY <1>3 DEF SendNotPerformed, ReturnIncomplete
<1>4. CASE PressEnter(r)
  BY <1>4 DEF PressEnter
<1>5. CASE ObserveRoute(r)
  <2>1. tab[r].at # "home"
    BY <1>5, AskAssumption DEF ObserveRoute, InConversation
  <2>2. QED
    BY <1>5, <2>1 DEF ObserveRoute
<1>6. CASE ProvePrompt(r)
  <2>1. tab[r].at # "home"
    BY <1>6, AskAssumption DEF ProvePrompt, ShowsPrompt
  <2>2. QED
    BY <1>6, <2>1 DEF ProvePrompt
<1>7. CASE NotAcknowledged(r)
  BY <1>7 DEF NotAcknowledged, IdentityUnproven, ReturnIncomplete
<1>8. CASE ReadIdentity(r)
  BY <1>8 DEF ReadIdentity, IdentityUnproven, ReturnIncomplete
<1>9. CASE Acknowledge(r)
  BY <1>9 DEF Acknowledge, Return
<1>10. CASE ResearchSubmitted(r)
  BY <1>10 DEF ResearchSubmitted, Return
<1>11. CASE WaitRendered(r)
  BY <1>11 DEF WaitRendered, ReadAnswer
<1>12. CASE AnswerIncomplete(r)
  BY <1>12 DEF AnswerIncomplete, ReturnIncomplete
<1>13. CASE FetchDetail(r)
  BY <1>13 DEF FetchDetail, Goto, ReadAnswer, ReturnIncomplete
<1>14. CASE RecoverRendered(r)
  <2>1. ask[r].conv # "home"
    BY <1>14, AskAssumption DEF RecoverRendered, Names
  <2>2. QED
    BY <1>14, <2>1 DEF RecoverRendered, ReadAnswer, ReturnIncomplete, NoTab
<1>15. CASE MarkTerminal(r)
  BY <1>15 DEF MarkTerminal, Return
<1>16. CASE Keep(r)
  BY <1>16 DEF Keep, Goto
<1>17. CASE Close(r)
  BY <1>17 DEF Close
<1>18. QED
  BY <1>2, <1>3, <1>4, <1>5, <1>6, <1>7, <1>8, <1>9, <1>10, <1>11, <1>12, <1>13,
     <1>14, <1>15, <1>16, <1>17 DEF SendsAndReads

LEMMA TameKeeps ==
  ASSUME Records, NEW r \in Runs, Names(r), Once(r), Shown(r), Untouched(r),
         Recoverable(r), Only(r), Tame(r), ask[r].conv \in Conversations
  PROVE  (Shown(r) /\ Untouched(r) /\ Recoverable(r))'
<1>1. /\ conv' = conv /\ sends' = sends
      /\ ask[r].pc # "idle" /\ ask[r].pc # "done" /\ ask'[r].pc # "idle"
  BY DEF Only
<1>2. Shown(r)'
  BY <1>1, AskAssumption DEF Tame, Shown, Made
<1>3. ask[r].pc = "attach" => ask[r].bound = TRUE
  BY DEF Untouched, After
<1>4. Untouched(r)'
  BY <1>1, <1>3 DEF Tame, Untouched
<1>5. Recoverable(r)'
  <2>1. tab[r].at # "closed"
    BY <1>1 DEF Recoverable
  <2>2. tab'[r].at # "closed"
    BY <2>1, AskAssumption DEF Tame, Conversations
  <2>3. QED
    BY <2>2 DEF Recoverable
<1>6. QED
  BY <1>2, <1>4, <1>5

\* A tab that may be closed has sent nothing, or a conversation that is named.
LEMMA SafeToClose ==
  ASSUME CloseInv, NEW r \in Runs, ask[r].pc = "return", ownedTargetSafeToClose(r)
  PROVE  /\ tab[r].own = FALSE /\ tab[r].files = FALSE
         /\ tab[r].enter => tab[r].text = None
         /\ sends[r] > 0 => Named(r)
<1>1. Shown(r) /\ Untouched(r) /\ Left(r) /\ OwnRead(r) /\ Asked(r)
  BY DEF CloseInv, TypedInv, KeepInv
<1>2. CASE ~ask[r].bound /\ ask[r].dispatch = "not_performed"
  <2>1. ask[r].bound = FALSE
    BY <1>2 DEF CloseInv, TypedInv, TypeOK, Asks
  <2>2. QED
    BY <1>1, <2>1 DEF Untouched
<1>3. CASE ask[r].result.code = "terminal" /\ ask[r].result.conv = ask[r].conv
  <2> DEFINE c == ask[r].conv
  <2>1. c \in Runs /\ Prompt(c) = Prompt(r) /\ Prompt(r) # None
    BY <1>1, <1>3 DEF OwnRead, Asked, Prompt
  <2>2. conv[c].users > 0
    BY <1>1, <2>1 DEF Shown, Made
  <2>3. Once(c) /\ Shown(c)
    BY <2>1 DEF CloseInv
  <2> HIDE DEF c
  <2>4. sends[c] > 0
    BY <2>2, <2>3 DEF Shown
  <2>5. ASSUME c \notin late
        PROVE  c = r
    <3>1. sends[c] = 1
      BY <2>3, <2>4, <2>5 DEF Once
    <3>2. ~GivesLeave(c) /\ ~GivesLeave(r)
      BY <2>3, <2>5, <3>1 DEF Once, Committed, Sent, Reading, Unsafe, GivesLeave
    <3>3. QED
      BY <2>1, <3>2 DEF CloseInv, OneAtWork
  <2>6. Empty(r)
    BY <1>1, <1>3 DEF Left, Moved
  <2>7. QED
    BY <1>3, <2>1, <2>5, <2>6 DEF c, Empty, Named
<1>4. QED
  BY <1>2, <1>3 DEF ownedTargetSafeToClose

LEMMA CloseKeeps ==
  ASSUME CloseInv, NEW r \in Runs, Close(r)
  PROVE  (Shown(r) /\ Untouched(r) /\ Recoverable(r))'
<1>1. /\ DOMAIN ask = Runs /\ DOMAIN tab = Runs
      /\ DOMAIN ask[r] = AskFields /\ DOMAIN tab[r] = TabFields
      /\ DOMAIN ask[r].result = ResultFields
  BY DEF CloseInv, TypedInv, KeepInv, Records
<1>2. /\ tab[r].own = FALSE /\ tab[r].files = FALSE
      /\ tab[r].enter => tab[r].text = None
      /\ sends[r] > 0 => Named(r)
  BY SafeToClose DEF Close
<1>3. /\ conv' = conv /\ sends' = sends /\ late' = late /\ ask'[r].pc = "done"
      /\ ask'[r].bound = ask[r].bound /\ ask'[r].seen = ask[r].seen
      /\ ask'[r].conv = ask[r].conv
      /\ \A q \in Runs : ask'[q].prompt = ask[q].prompt
  BY <1>1 DEF Close, AskFields
<1>4. ask'[r].result.conv = ask[r].result.conv
  BY <1>1 DEF Close, AskFields, CleanupFailed, ResultFields
<1>5. /\ tab'[r].own = tab[r].own /\ tab'[r].files = tab[r].files
      /\ tab'[r].enter = tab[r].enter /\ tab'[r].text = tab[r].text
      /\ tab'[r].at \in {tab[r].at, "closed"}
  BY <1>1 DEF Close, TabFields
<1>6. Shown(r) /\ Untouched(r)
  BY DEF CloseInv
<1>7. Shown(r)'
  BY <1>3, <1>5, <1>6, AskAssumption DEF Shown, Made
<1>8. Untouched(r)'
  BY <1>3, <1>5, <1>6 DEF Untouched, After, Sent, Reading
<1>9. Named(r) => Named(r)'
  BY <1>3, <1>4 DEF Named, Prompt
<1>10. Recoverable(r)'
  BY <1>2, <1>3, <1>5, <1>9 DEF Recoverable
<1>11. QED
  BY <1>7, <1>8, <1>10

\* A step of the page: a tab that it moves is empty.
LEMMA LeftPage ==
  ASSUME Records, NEW r \in Runs, PageStep(r), NEW q \in Runs, Left(q)
  PROVE  Left(q)'
<1>1. ask' = ask /\ DOMAIN tab = Runs /\ DOMAIN tab[r] = TabFields
      /\ (q # r => tab'[q] = tab[q])
  BY PageKeeps DEF PageOnly, Records
<1>2. CASE q # r
  BY <1>1, <1>2 DEF Left, Moved, Empty
<1>3. ASSUME q = r, Moved(r)'
      PROVE  Left(q)'
  BY <1>1, <1>3 DEF Left, Moved
<1>4. CASE PageSubmits(r) \/ EnterSubmits(r)
  <2>1. Submit(r)
    BY <1>4 DEF PageSubmits, EnterSubmits
  <2>2. Moved(r)'
    BY <1>1, <2>1, AskAssumption DEF Submit, AtHome, NoTab, Moved, Empty
  <2>3. QED
    BY <1>2, <1>3, <2>2
<1>5. CASE EnterSwallowed(r)
  <2>1. /\ tab'[q].at = tab[q].at /\ tab'[q].own = tab[q].own
        /\ tab'[q].files = tab[q].files /\ tab'[q].text = tab[q].text
    BY <1>1, <1>5 DEF EnterSwallowed, TabFields
  <2>2. QED
    BY <1>1, <2>1 DEF Left, Moved, Empty
<1>6. CASE DraftReturns(r)
  <2>1. tab[r].at = "home" /\ tab'[r].at = tab[r].at
    BY <1>1, <1>6 DEF DraftReturns, AtHome, TabFields
  <2>2. CASE q = r
    BY <1>1, <2>1, <2>2 DEF Left, Moved
  <2>3. QED
    BY <1>2, <2>2
<1>7. CASE Wander(r)
  <2>1. Moved(r)'
    BY <1>1, <1>7, AskAssumption DEF Wander, NoTab, Moved, Empty
  <2>2. QED
    BY <1>2, <1>3, <2>1
<1>8. CASE ProviderAnswers(r)
  BY <1>1, <1>8 DEF ProviderAnswers, Left, Moved, Empty
<1>9. QED
  BY <1>4, <1>5, <1>6, <1>7, <1>8 DEF PageStep

\* Conversations gain messages, and lose none.
LEMMA PageCloses ==
  ASSUME CloseInv, NEW r \in Runs, PageStep(r), NEW q \in Runs
  PROVE  (Shown(q) /\ Untouched(q) /\ Recoverable(q))'
<1>1. /\ DOMAIN ask = Runs /\ DOMAIN tab = Runs /\ DOMAIN conv = Runs
      /\ DOMAIN sends = Runs /\ DOMAIN tab[r] = TabFields
      /\ \A c \in Runs : conv[c].users \in Nat /\ sends[c] \in Nat
      /\ \A c \in Runs : DOMAIN conv[c] = {"users", "answer"}
  <2>1. Records /\ TypeOK
    BY DEF CloseInv, TypedInv, KeepInv
  <2>2. QED
    BY <2>1 DEF Records, TypeOK
<1>2. /\ Shown(q) /\ Untouched(q) /\ Recoverable(q)
      /\ Shown(r) /\ Untouched(r) /\ Recoverable(r)
  BY DEF CloseInv
<1>0. Named(q) => Named(q)'
  <2>1. ask' = ask /\ late \subseteq late'
    BY PageKeeps DEF PageOnly, CloseInv, TypedInv, KeepInv
  <2>2. QED
    BY <2>1 DEF Named, Prompt
<1>3. ASSUME Submit(r), tab[r].own = TRUE \/ tab[r].enter = TRUE, tab[r].at # "closed"
      PROVE  (Shown(q) /\ Untouched(q) /\ Recoverable(q))'
  <2> DEFINE c == IF AtHome(r) THEN r ELSE tab[r].at
  <2>1. /\ ask' = ask /\ tab' = [tab EXCEPT ![r] = [NoTab EXCEPT !.at = c]]
        /\ sends' = [sends EXCEPT ![r] = @ + 1]
        /\ conv' = IF c \in Runs THEN [conv EXCEPT ![c].users = @ + 1] ELSE conv
    BY <1>3 DEF Submit
  <2>2. c \in Runs => c = r \/ sends[c] > 0
    <3>1. CASE c # r /\ c \in Runs
      <4>1. c = tab[r].at
        BY <3>1
      <4>2. conv[c].users > 0 /\ Shown(c)
        BY <1>2, <3>1, <4>1 DEF Shown, Made, CloseInv
      <4>3. QED
        BY <3>1, <4>2 DEF Shown
    <3>2. QED
      BY <3>1
  <2>3. c # "closed"
    BY <1>3, AskAssumption
  <2> HIDE DEF c
  <2>4. /\ sends'[r] = sends[r] + 1 /\ sends'[r] > 0 /\ sends[r] \in Nat
        /\ \A x \in Runs : x # r => sends'[x] = sends[x]
    BY <1>1, <2>1
  <2>5. /\ tab'[r].at = c /\ tab'[r].own = FALSE /\ tab'[r].files = FALSE
        /\ tab'[r].enter = FALSE /\ (q # r => tab'[q] = tab[q])
    BY <1>1, <2>1 DEF NoTab
  <2>6. \A x \in Runs : conv[x].users > 0 => conv'[x].users > 0
    BY <1>1, <2>1
  <2>7. c \in Runs => conv'[c].users > 0
    BY <1>1, <2>1
  <2>8. conv'[q].users > 0 => conv[q].users > 0 \/ q = c
    BY <1>1, <2>1
  <2>9. Shown(q)'
    <3>1. Made(ask[q].seen)' /\ Made(ask[q].conv)'
      BY <1>2, <2>1, <2>6 DEF Shown, Made
    <3>2. Made(tab[q].at)'
      BY <1>2, <2>5, <2>6, <2>7 DEF Shown, Made
    <3>3. conv'[q].users > 0 => sends'[q] > 0
      BY <1>1, <1>2, <2>2, <2>4, <2>8 DEF Shown
    <3>4. QED
      BY <2>1, <3>1, <3>2, <3>3 DEF Shown
  <2>10. Untouched(q)'
    BY <1>2, <1>3, <2>1, <2>4, <2>5 DEF Untouched
  <2>11. Recoverable(q)'
    <3>1. CASE q = r
      BY <2>3, <2>5, <3>1 DEF Recoverable
    <3>2. CASE q # r
      BY <1>0, <1>2, <2>1, <2>4, <2>5, <3>2 DEF Recoverable
    <3>3. QED
      BY <3>1, <3>2
  <2>12. QED
    BY <2>9, <2>10, <2>11
<1>4. tab[r].own \in BOOLEAN /\ tab[r].enter \in BOOLEAN
  BY DEF CloseInv, TypedInv, TypeOK, Tabs
<1>5. CASE PageSubmits(r) \/ EnterSubmits(r)
  BY <1>3, <1>4, <1>5 DEF PageSubmits, EnterSubmits
<1>6. CASE EnterSwallowed(r) \/ DraftReturns(r)
  <2>1. /\ ask' = ask /\ conv' = conv /\ sends' = sends
        /\ tab'[q].at = tab[q].at /\ tab'[q].own = tab[q].own
        /\ tab'[q].files = tab[q].files
        /\ tab'[q].enter = tab[q].enter \/ tab'[q].enter = FALSE
        /\ tab[q].at = "closed" => tab'[q].text = tab[q].text
    <3>1. CASE EnterSwallowed(r)
      BY <1>1, <3>1 DEF TabFields, EnterSwallowed
    <3>2. CASE DraftReturns(r)
      BY <1>1, <3>2 DEF TabFields, DraftReturns, AtHome
    <3>3. QED
      BY <1>6, <3>1, <3>2
  <2>2. QED
    BY <1>0, <1>2, <2>1 DEF Shown, Made, Untouched, Recoverable
<1>7. CASE Wander(r)
  <2>1. PICK c \in {Foreign} \cup {x \in Runs : x # r /\ conv[x].users > 0} :
          tab' = [tab EXCEPT ![r] = [NoTab EXCEPT !.at = c]]
    BY <1>7 DEF Wander
  <2>2. ask' = ask /\ conv' = conv /\ sends' = sends
    BY <1>7 DEF Wander
  <2>3. /\ tab'[r].at = c /\ tab'[r].own = FALSE /\ tab'[r].files = FALSE
        /\ tab'[r].enter = FALSE /\ (q # r => tab'[q] = tab[q])
    BY <1>1, <2>1 DEF NoTab
  <2>4. c # "closed" /\ (c \in Runs => conv[c].users > 0)
    BY AskAssumption
  <2>5. QED
    BY <1>0, <1>2, <2>2, <2>3, <2>4 DEF Shown, Made, Untouched, Recoverable
<1>8. CASE ProviderAnswers(r)
  <2>1. /\ ask' = ask /\ tab' = tab /\ sends' = sends
        /\ \A c \in Runs : conv'[c].users = conv[c].users
    BY <1>1, <1>8 DEF ProviderAnswers
  <2>2. QED
    BY <1>0, <1>2, <2>1 DEF Shown, Made, Untouched, Recoverable
<1>9. QED
  BY <1>5, <1>6, <1>7, <1>8 DEF PageStep

LEMMA BeginCloses ==
  ASSUME CloseInv, NEW r \in Runs, NEW p \in Prompts,
         \/ \E k \in Kinds, x \in Runs \cup {None} : Start(r, p, k, x)
         \/ \E x \in Runs : RejectReceipt(r, p, x),
         NEW q \in Runs
  PROVE  (Shown(q) /\ Untouched(q) /\ Left(q) /\ Recoverable(q))'
<1>1. DOMAIN ask = Runs /\ DOMAIN ask[r] = AskFields
  BY DEF CloseInv, TypedInv, KeepInv, Records
<1>2. /\ Shown(q) /\ Untouched(q) /\ Recoverable(q) /\ Untouched(r)
      /\ Left(q) /\ Left(r) /\ \A x \in Runs : Asked(x)
  BY DEF CloseInv, TypedInv, KeepInv
<1>3. /\ tab' = tab /\ conv' = conv /\ sends' = sends /\ late' = late
      /\ ask[r].pc = "idle" /\ \A x \in Runs \ {r} : ask'[x] = ask[x]
      /\ ask'[r].user = FALSE
      /\ q # r => ask'[q] = ask[q]
      /\ ask'[r].pc \in {"acquire", "done"}
      /\ ask'[r].bound = FALSE
      /\ ask'[r].seen \in {ask[r].seen, None}
      /\ ask'[r].conv \in {ask[r].conv, None}
  <2>1. CASE \E k \in Kinds, x \in Runs \cup {None} : Start(r, p, k, x)
    <3>1. PICK k \in Kinds, x \in Runs \cup {None} : Start(r, p, k, x)
      BY <2>1
    <3>2. QED
      BY <1>1, <3>1 DEF Start, Idle, page
  <2>2. CASE \E x \in Runs : RejectReceipt(r, p, x)
    BY <1>1, <1>2, <2>2 DEF RejectReceipt, Untouched, Left, Sent, Reading, AskFields,
       page
  <2>3. QED
    BY <2>1, <2>2
<1>4. Shown(q)'
  BY <1>2, <1>3, AskAssumption DEF Shown, Made
<1>5. Untouched(q)'
  BY <1>2, <1>3 DEF Untouched, After, Sent, Reading
<1>6. Recoverable(q)'
  <2>1. CASE q = r
    BY <1>2, <1>3, <2>1 DEF Recoverable
  <2>2. CASE q # r
    <3>1. ask[q].pc = "done" /\ Named(q) => Named(q)'
      BY <1>2, <1>3, <2>2 DEF Named, Prompt, Asked
    <3>2. QED
      BY <1>2, <1>3, <2>2, <3>1 DEF Recoverable
  <2>3. QED
    BY <2>1, <2>2
<1>7. Left(q)'
  BY <1>2, <1>3 DEF Left, Moved, Empty, Sent, Reading
<1>8. QED
  BY <1>4, <1>5, <1>6, <1>7

LEMMA CloseStep ==
  ASSUME CloseInv, [Next]_vars, NEW q \in Runs
  PROVE  (Shown(q) /\ Untouched(q) /\ Left(q) /\ Recoverable(q))'
<1>1. /\ Records /\ \A r \in Runs : Names(r) /\ OwnRead(r)
      /\ \A r \in Runs : ask[r].conv \in Conversations
  BY DEF CloseInv, TypedInv, KeepInv, TypeOK, Asks
<1>2. \A r \in Runs : Once(r) /\ Shown(r) /\ Untouched(r) /\ Left(r) /\ Recoverable(r)
  BY DEF CloseInv
<1>3. ASSUME NEW r \in Runs, Prepares(r) \/ SendsAndReads(r)
      PROVE  (Shown(q) /\ Untouched(q) /\ Left(q) /\ Recoverable(q))'
  <2>1. Only(r)
    BY <1>1, <1>3, PreparesGood, SendsAndReadsGood DEF Good
  <2>2. Left(r)'
    BY <1>1, <1>2, <1>3, LeftPrepares, LeftSends
  <2>3. CASE q = r /\ Close(r)
    BY <2>2, <2>3, CloseKeeps
  <2>4. CASE q = r /\ ~Close(r)
    <3>1. Tame(r)
      BY <1>1, <1>2, <1>3, <2>4, TamePrepares, TameSends
    <3>2. QED
      BY <1>1, <1>2, <2>1, <2>2, <2>4, <3>1, TameKeeps
  <2>5. CASE q # r
    <3>1. /\ ask'[q] = ask[q] /\ tab'[q] = tab[q] /\ conv' = conv /\ sends' = sends
          /\ late' = late /\ \A x \in Runs : ask'[x].prompt = ask[x].prompt
      BY <2>1, <2>5 DEF Only
    <3>2. Named(q) => Named(q)'
      BY <3>1 DEF Named, Prompt
    <3>3. Left(q)'
      BY <1>2, <3>1 DEF Left, Moved, Empty
    <3>4. QED
      BY <1>2, <3>1, <3>2, <3>3 DEF Shown, Made, Untouched, Recoverable
  <2>6. QED
    BY <2>3, <2>4, <2>5
<1>4. CASE UNCHANGED vars
  BY <1>2, <1>4 DEF vars, Shown, Made, Untouched, Left, Moved, Empty, Recoverable,
     Named, Prompt
<1>5. QED
  BY <1>1, <1>2, <1>3, <1>4, PageCloses, LeftPage, BeginCloses DEF Next

\* A tab that an ask has closed held nothing that cannot be had again
\* (ClosedIsRecoverable; base.go:167 ownedTargetSafeToClose): whatever was sent
\* from it is the conversation that result and journal name, because of two
\* asks of one prompt only one can have sent it, unless the page sent the other
\* behind its back: then they name that one.
THEOREM ClosesRecoverable == Spec => []ClosedIsRecoverable
<1>1. ASSUME Init
      PROVE  CloseInv
  <2>1. ASSUME NEW r \in Runs
        PROVE  Shown(r) /\ Untouched(r) /\ Left(r) /\ Recoverable(r)
    BY <1>1, AskAssumption
       DEF Init, Shown, Made, Untouched, After, Sent, Reading, Left, Recoverable,
           Idle, NoTab
  <2>2. QED
    BY <1>1, <2>1, SendInitially, TypedInitially DEF CloseInv, SendInv
<1>2. ASSUME CloseInv, [Next]_vars
      PROVE  CloseInv'
  <2>1. SendInv
    BY <1>2 DEF CloseInv, SendInv, TypedInv
  <2>2. OneAtWork' /\ \A r \in Runs : Once(r)'
    BY <1>2, <2>1, SendStep
  <2>3. TypedInv'
    BY <1>2, TypedStep DEF CloseInv
  <2>4. \A r \in Runs : (Shown(r) /\ Untouched(r) /\ Left(r) /\ Recoverable(r))'
    BY <1>2, CloseStep
  <2>5. QED
    BY <2>2, <2>3, <2>4 DEF CloseInv
<1>3. ASSUME CloseInv
      PROVE  ClosedIsRecoverable
  BY <1>3 DEF CloseInv, Recoverable, Named, ClosedIsRecoverable
<1>4. QED
  BY <1>1, <1>2, <1>3, PTL DEF Spec
=============================================================================

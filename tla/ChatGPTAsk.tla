----------------------------- MODULE ChatGPTAsk -----------------------------
(***************************************************************************)
(* internal/webagent/chatgpt: `cdp workflow agent chatgpt ask`.  An ask    *)
(* takes the input lock and a tab of its own, types its prompt into a      *)
(* fresh composer, presses Enter once, proves which conversation that made *)
(* and reads the answer there; then it closes the tab, or keeps it.        *)
(*                                                                         *)
(* Between any two looks at its page an ask has no hold on it: the page    *)
(* restores drafts at any time, it may submit a prompt by itself, while it *)
(* is typed or later, swallow an Enter or act on it late, and move to      *)
(* another conversation.  The journal is that of Browserflow, reduced to   *)
(* the fields the ask decides on.                                          *)
(***************************************************************************)
EXTENDS Naturals

CONSTANTS
  Runs,            \* asks; a conversation is named by the ask whose tab made it
  Prompts,
  Kinds,           \* "text", "upload" (with files), "image", "research"
  None,
  Foreign          \* a text, or a conversation, that no ask wrote

VARIABLES
  ask,     \* each ask: where it is, its journal record, and its result
  input,   \* who holds the input lock
  tab,     \* the tab of each ask
  conv,    \* the conversations made: user messages, and the answer to the first
  typed,   \* the prompts a composer has held: the page may restore them
  sends,   \* how often the prompt was submitted from the tab of each ask
  late     \* history: the asks whose prompt the page submitted by itself after
           \* the ask had seen it in the composer and before it pressed Enter

vars == <<ask, input, tab, conv, typed, sends, late>>
page == <<tab, conv, typed, sends, late>>

NoResult == [ok |-> FALSE, code |-> "", action |-> "nil", actionSafe |-> FALSE,
             safe |-> TRUE, conv |-> None, read |-> None, closed |-> FALSE]

Codes == {"", "failed", "restored_draft", "cleanup_unproved",
          "preparation_submission_unknown", "identity_unproven", "terminal",
          "incomplete", "cleanup_failed"}

NoTab == [at |-> "none", text |-> None, own |-> FALSE, files |-> FALSE,
          enter |-> FALSE, unseen |-> FALSE]

Idle == [pc |-> "idle", prompt |-> None, kind |-> "text", receipt |-> None,
         bound |-> FALSE, phase |-> "attached", dispatch |-> "not_performed",
         conv |-> None, seen |-> None, user |-> FALSE, detail |-> FALSE,
         result |-> NoResult]

ASSUME AskAssumption ==
  /\ Kinds \subseteq {"text", "upload", "image", "research"}
  /\ None \notin Runs \cup Prompts \cup {Foreign}
  /\ Foreign \notin Runs \cup Prompts
  /\ {"none", "blank", "home", "closed"} \cap (Runs \cup {Foreign, None}) = {}

Init ==
  /\ ask = [r \in Runs |-> Idle] /\ input = None
  /\ tab = [r \in Runs |-> NoTab]
  /\ conv = [r \in Runs |-> [users |-> 0, answer |-> "none"]]
  /\ typed = {} /\ sends = [r \in Runs |-> 0] /\ late = {}

-----------------------------------------------------------------------------
\* What an ask can see of its page.
Prompt(r) == ask[r].prompt
AtHome(r) == tab[r].at = "home"
InConversation(r) == tab[r].at \in {c \in Runs : conv[c].users > 0} \cup {Foreign}

\* The conversation shown has one user message, the first prompt of an ask.
ShowsPrompt(r, p) ==
  /\ tab[r].at \in Runs /\ conv[tab[r].at].users = 1
  /\ Prompt(tab[r].at) = p

\* preparationBaselineUnchanged: the fresh route, which shows no messages.
BaselineUnchanged(r) == AtHome(r)

\* Results.  askFailure: a retry is safe if the action was not performed.
AskFailure(code, action, c) ==
  [NoResult EXCEPT !.code = code, !.action = action, !.conv = c,
                   !.actionSafe = action = "not_performed",
                   !.safe = action \in {"nil", "not_performed"}]

AskFailureWithoutActionRetry(code) ==
  [AskFailure(code, "nil", None) EXCEPT !.safe = FALSE]

PreparationUnknown(c) ==
  [AskFailureWithoutActionRetry("preparation_submission_unknown") EXCEPT
     !.action = "not_performed", !.actionSafe = FALSE, !.conv = c]

AskSuccess(state, c, read) ==
  [NoResult EXCEPT !.ok = TRUE, !.code = state, !.action = "performed",
                   !.safe = FALSE, !.conv = c, !.read = read]

-----------------------------------------------------------------------------
\* Steps of an ask.
Goto(r, label) == ask' = [ask EXCEPT ![r].pc = label]

Return(r, result) ==
  ask' = [ask EXCEPT ![r].pc = "return", ![r].result = result]

\* MarkIncomplete, whose failure is ignored, and the return after it.
Incomplete(phase) ==
  IF phase \in {"prepared", "performed", "unknown", "acknowledged"}
  THEN {phase, "incomplete"} ELSE {phase}

ReturnIncomplete(r, result) ==
  \E phase \in Incomplete(ask[r].phase) :
    ask' = [ask EXCEPT ![r].pc = "return", ![r].result = result,
                       ![r].phase = phase]

Fail(r, action) == Return(r, AskFailure("failed", action, None))

\* ownedDraftFingerprintFromReceipt: the result and the journal of a prior ask
\* that performed one Send, and was closed, or whose submission is unproven.
Eligible(q) ==
  /\ ask[q].pc = "done" /\ ask[q].kind # "research"
  /\ ask[q].dispatch = "performed" /\ ask[q].result.action = "performed"
  /\ \/ ask[q].result.code = "terminal" /\ ask[q].result.closed
     \/ ask[q].result.code = "identity_unproven" /\ ask[q].phase = "incomplete"

\* A caller asks a prompt again only after results that call that safe.
MayAsk(p) ==
  \A q \in Runs : Prompt(q) = p => ask[q].pc = "done" /\ ask[q].result.safe

Start(r, p, k, receipt) ==
  /\ ask[r].pc = "idle" /\ MayAsk(p)
  /\ receipt # None => Eligible(receipt)
  /\ ask' = [ask EXCEPT ![r] = [Idle EXCEPT !.pc = "acquire", !.prompt = p,
                                            !.kind = k, !.receipt = receipt]]
  /\ UNCHANGED <<input, page>>

\* The receipt does not prove what it should: nothing is opened.
RejectReceipt(r, p, q) ==
  /\ ask[r].pc = "idle" /\ MayAsk(p) /\ ask[q].pc = "done" /\ ~Eligible(q)
  /\ ask' = [ask EXCEPT ![r].pc = "done", ![r].prompt = p,
               ![r].result = AskFailure("failed", "not_performed", None)]
  /\ UNCHANGED <<input, page>>

\* runOwned
Acquire(r) ==
  /\ ask[r].pc = "acquire" /\ input = None
  /\ input' = r /\ tab' = [tab EXCEPT ![r].at = "blank"]
  /\ Goto(r, "load")
  /\ UNCHANGED <<conv, typed, sends, late>>

AcquireFails(r) ==
  /\ ask[r].pc = "acquire"
  /\ ask' = [ask EXCEPT ![r].pc = "done",
               ![r].result = AskFailure("failed", "nil", None)]
  /\ UNCHANGED <<input, page>>

\* preparePage, and the loads of the readiness check after it: the fresh
\* composer may show a draft of the profile.
PreparePage(r) ==
  /\ ask[r].pc = "load"
  /\ \E draft \in {None, Foreign} \cup typed :
       tab' = [tab EXCEPT ![r].at = "home", ![r].text = draft]
  /\ Goto(r, "ready")
  /\ UNCHANGED <<input, conv, typed, sends, late>>

NotReady(r) ==
  /\ ask[r].pc \in {"load", "ready", "select"}
  /\ Fail(r, "not_performed")
  /\ UNCHANGED <<input, page>>

DraftIsReceipts(r) ==
  ask[r].receipt # None /\ tab[r].text = Prompt(ask[r].receipt)

\* Variant: a route that is fresh is taken for a composer that is.
ComposerReadyByRoute(r) ==
  /\ ask[r].pc = "ready" /\ AtHome(r)
  /\ Goto(r, "select")
  /\ UNCHANGED <<input, page>>

ComposerReady(r) ==
  /\ ask[r].pc = "ready" /\ AtHome(r)
  /\ IF tab[r].text = None THEN Goto(r, "select")
     ELSE IF DraftIsReceipts(r) THEN Goto(r, "clear")
     ELSE Return(r, AskFailure("restored_draft", "not_performed", None))
  /\ UNCHANGED <<input, page>>

\* clearExactOwnedRestoredDraft: the identity and the focus are proved in one
\* look, then the keys are pressed; a key that fails may have deleted the text.
ClearNotStarted(r) ==
  /\ ask[r].pc = "clear"
  /\ Return(r, AskFailure("cleanup_unproved", "not_performed", None))
  /\ UNCHANGED <<input, page>>

Clear(r) ==
  /\ ask[r].pc = "clear" /\ AtHome(r) /\ DraftIsReceipts(r)
  /\ \/ /\ tab' = [tab EXCEPT ![r].text = None]
        /\ Goto(r, "blank")
     \/ /\ tab' \in {tab, [tab EXCEPT ![r].text = None]}
        /\ Return(r, AskFailureWithoutActionRetry("cleanup_unproved"))
  /\ UNCHANGED <<input, conv, typed, sends, late>>

\* The composer has to stay blank.
StableBlank(r) ==
  /\ ask[r].pc = "blank"
  /\ \/ AtHome(r) /\ tab[r].text = None /\ Goto(r, "select")
     \/ Return(r, AskFailureWithoutActionRetry("cleanup_unproved"))
  /\ UNCHANGED <<input, page>>

Select(r) ==
  /\ ask[r].pc = "select" /\ AtHome(r)
  /\ Goto(r, "bind")
  /\ UNCHANGED <<input, page>>

BindInputFingerprint(r) ==
  /\ ask[r].pc = "bind"
  /\ \/ ask' = [ask EXCEPT ![r].bound = TRUE,
                  ![r].pc = IF ask[r].kind = "upload" THEN "attach" ELSE "prepare"]
     \/ Fail(r, "not_performed")
  /\ UNCHANGED <<input, page>>

\* attachLocalFilesOnce: not assigned, or rejected; assigned and observed;
\* assigned, perhaps, and not observed.
AttachLocalFiles(r) ==
  /\ ask[r].pc = "attach"
  /\ \/ Fail(r, "not_performed") /\ UNCHANGED tab
     \/ Goto(r, "prepare") /\ tab' = [tab EXCEPT ![r].files = TRUE]
     \/ /\ Return(r, AskFailureWithoutActionRetry("failed"))
        /\ tab' \in {tab, [tab EXCEPT ![r].files = TRUE]}
  /\ UNCHANGED <<input, conv, typed, sends, late>>

-----------------------------------------------------------------------------
\* prepareVerifiedPromptWithExpectation.  Every look may fail, and a look that
\* fails or shows another route or message ends the preparation: the prompt may
\* be submitted.  The conversation is named if it shows the prompt.
PreparationStops(r) ==
  /\ ask[r].pc \in {"prepare", "inserted", "insert_failed", "verify"}
  /\ \E c \in {None} \cup {x \in {tab[r].at} : ShowsPrompt(r, Prompt(r))} :
       ReturnIncomplete(r, PreparationUnknown(c))
  /\ UNCHANGED <<input, page>>

ObserveBoundary(r) ==
  /\ ask[r].pc = "prepare" /\ BaselineUnchanged(r)
  /\ Goto(r, "insert")
  /\ UNCHANGED <<input, page>>

\* prepareExactPromptWithTool replaces whatever the composer holds.
InsertPrompt(r) ==
  /\ ask[r].pc = "insert"
  /\ \/ /\ tab' = [tab EXCEPT ![r].text = Prompt(r), ![r].own = TRUE,
                            ![r].unseen = FALSE]
        /\ typed' = typed \cup {Prompt(r)}
        /\ ask' \in {[ask EXCEPT ![r].pc = "inserted"],
                     [ask EXCEPT ![r].pc = "insert_failed"]}
     \/ Goto(r, "insert_failed") /\ UNCHANGED <<tab, typed>>
  /\ UNCHANGED <<input, conv, sends, late>>

\* Variant: after the typing only the selection is verified, and a composer
\* that has changed is typed into again, or given up.
VerifyInsertedLater(r) ==
  /\ ask[r].pc = "inserted"
  /\ Goto(r, "verify")
  /\ UNCHANGED <<input, page>>

VerifyInserted(r) ==
  /\ ask[r].pc = "inserted" /\ BaselineUnchanged(r) /\ tab[r].text = Prompt(r)
  /\ Goto(r, "verify")
  /\ UNCHANGED <<input, page>>

\* The selection, the files and the Send control: ready, not yet, or too late.
Verify(r) ==
  /\ ask[r].pc = "verify"
  /\ \/ BaselineUnchanged(r) /\ tab[r].text = Prompt(r) /\ Goto(r, "final_guard")
     \/ Goto(r, "prepare")
     \/ Fail(r, "not_performed")
  /\ UNCHANGED <<input, page>>

\* prepareSelectionGuardAtSend, and MarkPrepared.
MarkPrepared(r) ==
  /\ ask[r].pc = "final_guard"
  /\ \/ ask' = [ask EXCEPT ![r].pc = "dispatch", ![r].phase = "prepared"]
     \/ Fail(r, "not_performed")
  /\ UNCHANGED <<input, page>>

\* Lease.Dispatch saves the pending action, then verifyBeforeSend looks at the
\* page, and the editor is focused; up to there the Send is not performed.
VerifyBeforeSend(r) ==
  /\ ask[r].pc = "dispatch"
  /\ BaselineUnchanged(r) /\ tab[r].text = Prompt(r)
  /\ ask[r].kind = "upload" => tab[r].files
  /\ Goto(r, "enter")
  /\ UNCHANGED <<input, page>>

SendNotPerformed(r) ==
  /\ ask[r].pc \in {"dispatch", "enter"}
  /\ ReturnIncomplete(r, AskFailure("failed", "not_performed", None))
  /\ input' = None
  /\ UNCHANGED page

\* PressEnterOnSelector, and ReleaseInput.
PressEnter(r) ==
  /\ ask[r].pc = "enter"
  /\ \/ /\ ask' = [ask EXCEPT ![r].pc = "acknowledge", ![r].phase = "performed",
                              ![r].dispatch = "performed"]
        /\ tab' = [tab EXCEPT ![r].enter = TRUE]
     \/ /\ ask' = [ask EXCEPT ![r].pc = "acknowledge", ![r].phase = "unknown",
                              ![r].dispatch = "unknown"]
        /\ tab' \in {tab, [tab EXCEPT ![r].enter = TRUE]}
  /\ input' = None
  /\ UNCHANGED <<conv, typed, sends, late>>

-----------------------------------------------------------------------------
\* The acknowledgement: which conversation did the Send make?
\* Variant: a route that is still the fresh one is taken for a conversation.
ObserveRouteAnywhere(r) ==
  /\ ask[r].pc = "acknowledge" /\ ask[r].seen \in {None, tab[r].at}
  /\ ask' = [ask EXCEPT ![r].seen = tab[r].at]
  /\ UNCHANGED <<input, page>>

\* A look that shows a conversation, always the same one.
ObserveRoute(r) ==
  /\ ask[r].pc = "acknowledge" /\ InConversation(r)
  /\ ask[r].seen \in {None, tab[r].at}
  /\ ask' = [ask EXCEPT ![r].seen = tab[r].at,
       ![r].user = @ \/ tab[r].at = Foreign \/ conv[tab[r].at].users = 1]
  /\ UNCHANGED <<input, page>>

\* It shows the prompt, too.
ProvePrompt(r) ==
  /\ ask[r].pc = "acknowledge" /\ ShowsPrompt(r, Prompt(r))
  /\ ask[r].seen \in {None, tab[r].at}
  /\ ask' = [ask EXCEPT ![r].pc = "persist", ![r].seen = tab[r].at]
  /\ UNCHANGED <<input, page>>

IdentityUnproven(r) ==
  ReturnIncomplete(r, AskFailure("identity_unproven", ask[r].dispatch, None))

\* The looks are over: no conversation, another one, or one that shows no
\* single message.
NotAcknowledged(r) ==
  /\ ask[r].pc = "acknowledge"
  /\ ~ask[r].user \/ tab[r].at # ask[r].seen
  /\ IdentityUnproven(r)
  /\ UNCHANGED <<input, page>>

\* The conversation has one message, which the page shows in another form:
\* its detail is read, once.
ReadIdentity(r) ==
  /\ ask[r].pc = "acknowledge" /\ ask[r].user
  /\ \/ ReturnIncomplete(r, AskFailure("failed", ask[r].dispatch, None))
     \/ IF ask[r].seen \in Runs /\ Prompt(ask[r].seen) = Prompt(r)
        THEN ask' = [ask EXCEPT ![r].pc = "persist", ![r].detail = TRUE]
        ELSE IdentityUnproven(r)
  /\ UNCHANGED <<input, page>>

Acknowledge(r) ==
  /\ ask[r].pc = "persist"
  /\ \/ ask' = [ask EXCEPT ![r].conv = ask[r].seen, ![r].phase = "acknowledged",
          ![r].dispatch = "performed",
          ![r].pc = IF ask[r].kind = "research" THEN "research" ELSE "answer"]
     \/ Return(r, AskFailure("failed", ask[r].dispatch, ask[r].seen))
  /\ UNCHANGED <<input, page>>

\* Research ends here, once that is saved.
ResearchSubmitted(r) ==
  /\ ask[r].pc = "research"
  /\ \/ ask' = [ask EXCEPT ![r].pc = "return", ![r].phase = "incomplete",
                  ![r].result = AskSuccess("incomplete", ask[r].conv, None)]
     \/ Return(r, AskFailure("failed", "performed", ask[r].conv))
  /\ UNCHANGED <<input, page>>

-----------------------------------------------------------------------------
\* The answer.
Wanted(r) == IF ask[r].kind = "image" THEN {"image"} ELSE {"text", "image"}

Read(r) ==
  AskSuccess("terminal", ask[r].conv, conv[ask[r].conv].answer)

ReadAnswer(r) == ask' = [ask EXCEPT ![r].pc = "terminal", ![r].result = Read(r)]

\* Variant: any text the conversation shows is the answer.
WaitRenderedText(r) ==
  /\ ask[r].pc = "answer" /\ tab[r].at = ask[r].conv /\ tab[r].at \in Runs
  /\ conv[ask[r].conv].answer # "none"
  /\ ReadAnswer(r)
  /\ UNCHANGED <<input, page>>

\* waitRenderedAnswer: the page shows the prompt and its finished answer.
WaitRendered(r) ==
  /\ ask[r].pc = "answer"
  /\ tab[r].at = ask[r].conv /\ ShowsPrompt(r, Prompt(r))
  /\ conv[ask[r].conv].answer = IF ask[r].kind = "image" THEN "image" ELSE "text"
  /\ ReadAnswer(r)
  /\ UNCHANGED <<input, page>>

\* An image is pending, the answer gate failed, or the one detail was read.
AnswerIncomplete(r) ==
  /\ ask[r].pc = "answer"
  /\ ReturnIncomplete(r, AskSuccess("incomplete", ask[r].conv, None))
  /\ UNCHANGED <<input, page>>

FetchDetail(r) ==
  /\ ask[r].pc = "answer" /\ ~ask[r].detail
  /\ \/ /\ conv[ask[r].conv].answer \in Wanted(r)
        /\ Prompt(ask[r].conv) = Prompt(r)
        /\ ReadAnswer(r)
     \/ /\ Prompt(ask[r].conv) = Prompt(r)
        /\ conv[ask[r].conv].answer \notin Wanted(r)
        /\ ReturnIncomplete(r, AskSuccess("incomplete", ask[r].conv, None))
     \/ ReturnIncomplete(r, AskFailure("failed", "performed", ask[r].conv))
     \/ Goto(r, "recover")
  /\ UNCHANGED <<input, page>>

\* recoverRenderedDetail: the tab goes to the conversation.
RecoverRendered(r) ==
  /\ ask[r].pc = "recover"
  /\ tab' \in {tab, [tab EXCEPT ![r] = [NoTab EXCEPT !.at = ask[r].conv]]}
  /\ \/ /\ tab'[r].at = ask[r].conv
        /\ conv[ask[r].conv].answer = "text" /\ Prompt(ask[r].conv) = Prompt(r)
        /\ ReadAnswer(r)
     \/ ReturnIncomplete(r, AskFailure("failed", "performed", ask[r].conv))
  /\ UNCHANGED <<input, conv, typed, sends, late>>

MarkTerminal(r) ==
  /\ ask[r].pc = "terminal"
  /\ \/ ask' = [ask EXCEPT ![r].pc = "return", ![r].phase = "terminal"]
     \/ Return(r, AskFailure("failed", "performed", ask[r].conv))
  /\ UNCHANGED <<input, page>>

-----------------------------------------------------------------------------
\* The deferred end of runOwned.
\* Variant: an ask whose Enter was not pressed has nothing to lose.
SafeWithoutSend(r) ==
  \/ ask[r].dispatch = "not_performed"
  \/ ask[r].result.code = "terminal" /\ ask[r].kind # "image"

ownedTargetSafeToClose(r) ==
  LET result == ask[r].result IN
  /\ result.code \notin {"restored_draft", "cleanup_unproved"}
  /\ \/ ~ask[r].bound /\ ask[r].dispatch = "not_performed"
     \/ /\ result.ok /\ result.code = "terminal" /\ ask[r].phase = "terminal"
        /\ ask[r].dispatch = "performed" /\ result.action = "performed"
        /\ ask[r].conv # None /\ result.conv = ask[r].conv
        /\ ask[r].kind # "image" /\ result.read = "text"

ReleaseInput(r) == input' = IF input = r THEN None ELSE input

\* replaceFailure
CleanupFailed(result) ==
  [result EXCEPT !.ok = FALSE, !.code = "cleanup_failed",
                 !.safe = result.action = "nil" \/ result.actionSafe]

Close(r) ==
  /\ ask[r].pc = "return" /\ ownedTargetSafeToClose(r)
  /\ ReleaseInput(r)
  /\ \/ /\ ask' = [ask EXCEPT ![r].pc = "done", ![r].result.closed = TRUE]
        /\ tab' = [tab EXCEPT ![r].at = "closed"]
     \/ /\ ask' = [ask EXCEPT ![r].pc = "done", ![r].result = CleanupFailed(@)]
        /\ tab' \in {tab, [tab EXCEPT ![r].at = "closed"]}
  /\ UNCHANGED <<conv, typed, sends, late>>

Keep(r) ==
  /\ ask[r].pc = "return" /\ ~ownedTargetSafeToClose(r)
  /\ ReleaseInput(r) /\ Goto(r, "done")
  /\ UNCHANGED page

-----------------------------------------------------------------------------
\* The page, and the provider behind it.
\* The composer's text becomes a message of the conversation shown, or of a
\* new one.
Submit(r) ==
  LET c == IF AtHome(r) THEN r ELSE tab[r].at IN
  /\ tab' = [tab EXCEPT ![r] = [NoTab EXCEPT !.at = c]]
  /\ sends' = [sends EXCEPT ![r] = @ + 1]
  /\ conv' = IF c \in Runs THEN [conv EXCEPT ![c].users = @ + 1] ELSE conv
  /\ UNCHANGED <<ask, input, typed>>

\* By itself, while the prompt is typed or at any time after.  The ask can
\* still see it in its look after the typing, and from its Enter on it looks
\* for a conversation.
StillLooks(r) ==
  ask[r].pc \in {"inserted", "insert_failed"} \/ ask[r].dispatch # "not_performed"

PageSubmits(r) ==
  /\ tab[r].own /\ tab[r].at # "closed"
  /\ Submit(r)
  /\ late' = IF StillLooks(r) THEN late ELSE late \cup {r}

EnterSubmits(r) ==
  /\ tab[r].enter /\ tab[r].at # "closed" /\ tab[r].text # None
  /\ Submit(r) /\ UNCHANGED late

EnterSwallowed(r) ==
  /\ tab[r].enter
  /\ tab' = [tab EXCEPT ![r].enter = FALSE]
  /\ UNCHANGED <<ask, input, conv, typed, sends, late>>

\* An empty composer shows a draft: one that was cleared and comes back, one
\* of another ask, or a person's.  It is unseen if the ask has already found
\* the composer blank.
DraftReturns(r) ==
  /\ AtHome(r) /\ tab[r].text = None /\ ask[r].pc \notin {"return", "done"}
  /\ \E draft \in {Foreign} \cup typed :
       tab' = [tab EXCEPT ![r].text = draft,
                          ![r].unseen = ask[r].pc \notin {"ready", "blank"}]
  /\ UNCHANGED <<ask, input, conv, typed, sends, late>>

\* The tab shows another conversation.
Wander(r) ==
  /\ ask[r].pc \notin {"return", "done"} /\ tab[r].at \in {"home", r}
  /\ \E c \in {Foreign} \cup {x \in Runs : x # r /\ conv[x].users > 0} :
       tab' = [tab EXCEPT ![r] = [NoTab EXCEPT !.at = c]]
  /\ UNCHANGED <<ask, input, conv, typed, sends, late>>

ProviderAnswers(c) ==
  /\ conv[c].users > 0
  /\ \/ conv[c].answer = "none" /\ conv' = [conv EXCEPT ![c].answer = "partial"]
     \/ conv[c].answer = "partial" /\ conv' = [conv EXCEPT ![c].answer = "text"]
     \/ /\ conv[c].answer = "partial" /\ ask[c].kind = "image"
        /\ conv' = [conv EXCEPT ![c].answer = "image"]
  /\ UNCHANGED <<ask, input, tab, typed, sends, late>>

-----------------------------------------------------------------------------
Prepares(r) ==
  \/ Acquire(r) \/ AcquireFails(r) \/ PreparePage(r) \/ NotReady(r)
  \/ ComposerReady(r) \/ ClearNotStarted(r) \/ Clear(r) \/ StableBlank(r)
  \/ Select(r) \/ BindInputFingerprint(r) \/ AttachLocalFiles(r)
  \/ PreparationStops(r) \/ ObserveBoundary(r) \/ InsertPrompt(r)
  \/ VerifyInserted(r) \/ Verify(r) \/ MarkPrepared(r)

SendsAndReads(r) ==
  \/ VerifyBeforeSend(r) \/ SendNotPerformed(r) \/ PressEnter(r)
  \/ ObserveRoute(r) \/ ProvePrompt(r) \/ NotAcknowledged(r) \/ ReadIdentity(r)
  \/ Acknowledge(r) \/ ResearchSubmitted(r) \/ WaitRendered(r)
  \/ AnswerIncomplete(r) \/ FetchDetail(r) \/ RecoverRendered(r)
  \/ MarkTerminal(r) \/ Close(r) \/ Keep(r)

PageStep(r) ==
  \/ PageSubmits(r) \/ EnterSubmits(r) \/ EnterSwallowed(r) \/ DraftReturns(r)
  \/ Wander(r) \/ ProviderAnswers(r)

Next ==
  \/ \E r \in Runs, p \in Prompts :
       \/ \E k \in Kinds, q \in Runs \cup {None} : Start(r, p, k, q)
       \/ \E q \in Runs : RejectReceipt(r, p, q)
  \/ \E r \in Runs : Prepares(r) \/ SendsAndReads(r) \/ PageStep(r)

Spec == Init /\ [][Next]_vars

-----------------------------------------------------------------------------
\* Type correctness of the asks, their tabs and the conversations.
Places == {"idle", "acquire", "load", "ready", "clear", "blank", "select",
           "bind", "attach", "prepare", "insert", "inserted", "insert_failed",
           "verify", "final_guard", "dispatch", "enter", "acknowledge",
           "persist", "research", "answer", "recover", "terminal", "return",
           "done"}
Actions == {"not_performed", "performed", "unknown"}
Answers == {"none", "partial", "text", "image"}
Conversations == Runs \cup {Foreign, None}

Results ==
  [ok : BOOLEAN, code : Codes, action : Actions \cup {"nil"},
   actionSafe : BOOLEAN, safe : BOOLEAN, conv : Conversations,
   read : Answers \cup {None}, closed : BOOLEAN]

Asks ==
  [pc : Places, prompt : Prompts \cup {None},
   kind : {"text", "upload", "image", "research"}, receipt : Runs \cup {None},
   bound : BOOLEAN,
   phase : {"attached", "prepared", "performed", "unknown", "acknowledged",
            "terminal", "incomplete"},
   dispatch : Actions, conv : Conversations, seen : Conversations,
   user : BOOLEAN, detail : BOOLEAN, result : Results]

Tabs ==
  [at : {"none", "blank", "home", "closed", Foreign} \cup Runs,
   text : {None, Foreign} \cup Prompts, own : BOOLEAN, files : BOOLEAN,
   enter : BOOLEAN, unseen : BOOLEAN]

TypeOK ==
  /\ ask \in [Runs -> Asks] /\ input \in Runs \cup {None}
  /\ tab \in [Runs -> Tabs] /\ conv \in [Runs -> [users : Nat, answer : Answers]]
  /\ typed \subseteq Prompts /\ sends \in [Runs -> Nat] /\ late \subseteq Runs

\* However often a caller asks a prompt again when the result calls that safe,
\* only one of the asks submits it (promptPreparationBoundaryError: it "must
\* never be converted into permission to refill or retry the request").  A page
\* that submits after the look that follows the typing breaks it.
RetryNeverDoubles ==
  \A q, r \in Runs :
    (Prompt(q) = Prompt(r) /\ sends[q] > 0 /\ sends[r] > 0) => q = r

\* It holds of all submissions but those: whatever the page submits while it is
\* typed into, and whatever an Enter submits, however late, the prompt was not
\* and will not be submitted again, by the same ask or by a retry that a result
\* calls safe.
SeenNeverDoubles ==
  \A p \in Prompts :
    LET sent == {r \in Runs \ late : Prompt(r) = p /\ sends[r] > 0}
    IN \A q, r \in sent : q = r /\ sends[r] = 1

\* A text of a fresh page that the ask has not typed itself is replaced.
Destroys(r) ==
  /\ tab[r].at = "home" /\ tab[r].text # None /\ ~tab[r].own
  /\ tab'[r].at = "home" /\ tab'[r].text # tab[r].text

\* The text is the prompt of a prior ask whose Enter was performed.
WasSent(text) == \E q \in Runs : Prompt(q) = text /\ ask[q].dispatch = "performed"

\* A text on a fresh page that the ask has not typed itself stays, unless a
\* prior ask has sent it (Ask: "replacing this text would destroy it"; the
\* receipt "never authorizes deletion of a different browser draft").  A draft
\* that appears after the look that found the composer blank breaks it.
DraftsKept == [][\A r \in Runs : Destroys(r) => WasSent(tab[r].text)]_vars

\* It holds of every draft that is there when the ask looks for one, at the
\* load or back again while it waits for a blank composer.
SeenDraftsKept ==
  [][\A r \in Runs :
       Destroys(r) /\ ~tab[r].unseen => WasSent(tab[r].text)]_vars

\* A terminal result holds the finished answer of a conversation that began
\* with the ask's own prompt, and the journal names that conversation, too.
AnswerIsOwn ==
  \A r \in Runs :
    LET result == ask[r].result IN
    (ask[r].pc = "done" /\ result.code = "terminal") =>
      /\ result.conv \in Runs /\ result.conv = ask[r].conv
      /\ Prompt(result.conv) = Prompt(r)
      /\ result.read \in {"text", "image"}
      /\ result.read = conv[result.conv].answer

\* A tab the ask has closed held nothing that cannot be had again: no text or
\* file of its own, no Enter still to act on a text, and what was submitted from
\* it is a conversation that journal and result name, or, when the page has
\* submitted an earlier ask of the prompt behind that ask's back, the earlier
\* conversation of the same prompt (ownedTargetSafeToClose).
ClosedIsRecoverable ==
  \A r \in Runs :
    tab[r].at = "closed" =>
      /\ ~tab[r].own /\ ~tab[r].files /\ (tab[r].enter => tab[r].text = None)
      /\ sends[r] > 0 =>
           LET c == ask[r].conv IN
           /\ c \in Runs /\ ask[r].result.conv = c /\ Prompt(c) = Prompt(r)
           /\ c = r \/ c \in late
=============================================================================

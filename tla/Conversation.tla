---------------------------- MODULE Conversation ----------------------------
(***************************************************************************)
(* The engine's loop and the history it keeps (agent/engine.go): requests  *)
(* to the model with their retries, calls of tools and their results, the  *)
(* digest that replaces older items, and what a stop, a question to the    *)
(* user, a reset or a restart leaves behind.                               *)
(*                                                                         *)
(* The engine is a goroutine; a user stops or resets it between any two    *)
(* of its steps.  That at most one run uses the engine is shown in         *)
(* RunLifecycle.                                                           *)
(***************************************************************************)
EXTENDS LlmWire, FiniteSetsExt

CONSTANTS Answers,      \* what the model may answer: texts and calls of tools, in order
          Window,       \* recentContextWindow
          ScanBack,     \* how far adjustCompactionBoundary looks for the calls
          ScanUser,     \* ... and, when results are missing, for a plain message
          MaxBullets,   \* maxDigestBulletCount
          MaxIter,      \* maxMainLoopIterations
          MaxRetries,   \* retries of a request
          MaxTasks,     \* bound: messages of the user
          MaxItems      \* bound: items ever appended

ASSUME ConversationAssumption ==
    /\ {Window, ScanBack, ScanUser, MaxIter, MaxRetries, MaxTasks, MaxItems} \subseteq Nat
    /\ MaxBullets \in Nat /\ MaxBullets >= 2 /\ Answers \subseteq Seq(STRING)
    /\ \A parts \in Answers : Len(ConvertResponse(parts).calls) <= ScanBack
                             \* else a result may lose its call

VARIABLES
    history,    \* Engine.history
    digest,     \* Engine.contextDigest: numbers of items, 0 for "have been compacted"
    pc,         \* where Run is
    iter,       \* the loop's counter
    attempt,    \* retries of the request under way
    bundle,     \* the request under way
    task,       \* userTask: it has still to be put into the history
    calls,      \* calls of the current answer that have still to run
    final,      \* the request under way is the one after report_finalize
    stopped,    \* the run's context is cancelled
    waiting,    \* a question to the user is open
    n, tasks,   \* items and tasks so far
    base,       \* history: items that a reset or a restart took away
    abandoned,  \* history: calls given up by a stop, a question, an end of the run
    raced       \* history: a reset came while the engine was at work

vars == <<history, digest, pc, iter, attempt, bundle, task, calls, final, stopped, waiting,
          n, tasks, base, abandoned, raced>>

NoBundle == [digest |-> <<>>, history |-> <<>>, task |-> 0]

Init ==
    /\ history = <<>> /\ digest = <<>> /\ bundle = NoBundle
    /\ pc = "idle" /\ iter = 0 /\ attempt = 0
    /\ task = FALSE /\ calls = <<>> /\ final = FALSE /\ stopped = FALSE /\ waiting = FALSE
    /\ n = 0 /\ tasks = 0 /\ base = 0 /\ abandoned = {} /\ raced = FALSE

---------------------------------------------------------------------------
(* Compaction *)

IsCall(m)  == m.role = "assistant" /\ m.calls # <<>>
IsPlain(m) == m.role = "user" \/ (m.role = "assistant" /\ m.calls = <<>>)

\* The results that directly follow the calls of h[i + 1], counted up to their number.
ResultCount(h, i) ==
    LET upto == Min({Len(h), i + 1 + Len(h[i + 1].calls)})
        stop == {j \in (i + 2)..upto : h[j].role # "tool"}
    IN  (IF stop = {} THEN upto ELSE Min(stop) - 1) - (i + 1)

\* Mutant: the boundary is where the window ends.
PlainBoundary(h, b) == b

\* adjustCompactionBoundary; b items are to be taken away.
AdjustCompactionBoundary(h, b) ==
    LET callers == {i \in 0..(b - 1) : i + ScanBack >= b /\ IsCall(h[i + 1])}
        i       == Max(callers)
        plain   == {k \in 0..(i - 1) : k + ScanUser >= i /\ IsPlain(h[k + 1])}
    IN  IF b = 0 \/ b >= Len(h) \/ h[b + 1].role # "tool" \/ callers = {} THEN b
        ELSE IF ResultCount(h, i) < Len(h[i + 1].calls) /\ plain # {} THEN Max(plain) + 1
        ELSE i

\* Mutant: the digest there was is lost.
ForgetExisting(existing, items) == [i \in 1..Len(items) |-> items[i].n]

\* buildHistoryDigest: too many new bullets keep the first and a remark; what was there
\* stays.
BuildHistoryDigest(existing, items) ==
    LET bullets == [i \in 1..Len(items) |-> items[i].n]
    IN  existing \o (IF Len(items) > MaxBullets
                     THEN Append(SubSeq(bullets, 1, MaxBullets - 1), 0) ELSE bullets)

\* compactMessagesLocked, when the prompt was too long
Compact(h, d) ==
    LET start == Len(h) - Window
        b     == AdjustCompactionBoundary(h, start)
        next  == BuildHistoryDigest(d, SubSeq(h, 1, b))
    IN  IF Len(h) <= Window \/ Len(h) <= 1 \/ next = <<>> THEN [history |-> h, digest |-> d]
        ELSE [history |-> SubSeq(h, b + 1, Len(h)), digest |-> next]

---------------------------------------------------------------------------
(* Run *)

CallIds(m) == {<<m.n, j>> : j \in 1..Len(m.calls)}

\* Run returns; the calls that have not run are given up.
Return ==
    /\ pc' = "idle" /\ calls' = <<>> /\ final' = FALSE /\ bundle' = NoBundle /\ attempt' = 0
    /\ abandoned' = abandoned \cup {calls[k].id : k \in 1..Len(calls)}

loopVars == <<bundle, attempt, calls, final, abandoned>>

StartRun ==
    /\ pc = "idle" /\ ~waiting /\ tasks < MaxTasks /\ n < MaxItems
    /\ pc' = "top" /\ iter' = 0 /\ task' = TRUE /\ stopped' = FALSE /\ tasks' = tasks + 1
    /\ UNCHANGED <<history, digest, loopVars, waiting, n, base, raced>>

\* ProvideAskUserResult: every open question of the newest asking item gets the answer.
ProvideAskUserResult ==
    LET asking == {i \in 1..Len(history) : \E j \in 1..Len(history[i].calls) : history[i].calls[j] = "ask"}
        m      == history[Max(asking)]
        open   == Places(m.calls, {j \in 1..Len(m.calls) :
                                     /\ m.calls[j] = "ask"
                                     /\ \A i \in 1..Len(history) : history[i].of # <<m.n, j>>})
    IN  /\ pc = "idle" /\ waiting /\ n + Len(open) < MaxItems
        /\ waiting' = FALSE
        /\ IF asking = {} \/ open = <<>>
           THEN UNCHANGED <<history, n, pc, iter, task, stopped, abandoned>>
           ELSE /\ history' = history \o [k \in 1..Len(open) |-> ResultItem(n + k, <<m.n, open[k]>>)]
                /\ n' = n + Len(open)
                /\ abandoned' = abandoned \ {<<m.n, open[k]>> : k \in 1..Len(open)}
                /\ pc' = "top" /\ iter' = 0 /\ task' = FALSE /\ stopped' = FALSE
        /\ UNCHANGED <<digest, bundle, attempt, calls, final, tasks, base, raced>>

\* A request with everything the engine knows.
Request(withTask) ==
    /\ bundle' = [digest |-> digest, history |-> history, task |-> IF withTask THEN MaxItems + tasks ELSE 0]
    /\ attempt' = 0 /\ pc' = "chat"

LoopTop ==
    /\ pc = "top"
    /\ IF stopped \/ iter >= MaxIter
       THEN Return /\ iter' = iter
       ELSE Request(task) /\ iter' = iter + 1 /\ UNCHANGED <<calls, final, abandoned>>
    /\ UNCHANGED <<history, digest, task, stopped, waiting, n, tasks, base, raced>>

\* Mutant: the count of attempts starts again, a failing request is repeated for ever.
RetryForever ==
    /\ pc = "chat"
    /\ \E o \in RequestOutcomes(stopped) :
          IF o = "answer" THEN pc' = (IF final THEN "summary" ELSE "receive") /\ UNCHANGED loopVars
          ELSE IF IsRetryable(o)
          THEN attempt' = (attempt + 1) % (MaxRetries + 1) /\ UNCHANGED <<pc, bundle, calls, final, abandoned>>
          ELSE Return
    /\ UNCHANGED <<history, digest, iter, task, stopped, waiting, n, tasks, base, raced>>

\* ChatWithTools: a passing fault is tried again while retries and the time for them
\* last; any other error ends the run and leaves the history as it was.
ChatWithTools ==
    /\ pc = "chat"
    /\ \E o \in RequestOutcomes(stopped), inTime \in BOOLEAN :
          IF o = "answer" THEN pc' = (IF final THEN "summary" ELSE "receive") /\ UNCHANGED loopVars
          ELSE IF IsRetryable(o) /\ attempt < MaxRetries /\ inTime
          THEN attempt' = attempt + 1 /\ UNCHANGED <<pc, bundle, calls, final, abandoned>>
          ELSE Return
    /\ UNCHANGED <<history, digest, iter, task, stopped, waiting, n, tasks, base, raced>>

\* The task enters the history with the first answer; then it may be compacted.
Receive ==
    LET h == IF task THEN Append(history, Item(n + 1, "user")) ELSE history
    IN  /\ pc = "receive"
        /\ n' = IF task THEN n + 1 ELSE n
        /\ task' = FALSE
        /\ \E long \in BOOLEAN :
              LET c == IF long THEN Compact(h, digest) ELSE [history |-> h, digest |-> digest]
              IN  history' = c.history /\ digest' = c.digest
        /\ pc' = "reply" /\ bundle' = NoBundle
        /\ UNCHANGED <<iter, attempt, calls, final, stopped, waiting, tasks, base, abandoned, raced>>

\* Calls are noted and run, text without calls ends the run, nothing is an error.
Reply ==
    /\ pc = "reply"
    /\ \E parts \in Answers :
          LET a == ConvertResponse(parts)
          IN  IF a.calls # <<>>
              THEN /\ n + 1 + Len(a.calls) < MaxItems
                   /\ n' = n + 1 /\ history' = Append(history, CallItem(n + 1, a.calls, a.text))
                   /\ calls' = [j \in 1..Len(a.calls) |-> [id |-> <<n + 1, j>>, tool |-> a.calls[j]]]
                   /\ pc' = "tool" /\ UNCHANGED <<bundle, attempt, final, abandoned>>
              ELSE /\ n' = IF a.text THEN n + 1 ELSE n
                   /\ n' <= MaxItems
                   /\ history' = IF a.text THEN Append(history, Item(n + 1, "assistant")) ELSE history
                   /\ Return
    /\ UNCHANGED <<digest, iter, task, stopped, waiting, tasks, base, raced>>

\* A question ends the run here; another tool has run when the context is looked at.
RunTool ==
    /\ pc = "tool"
    /\ IF calls[1].tool = "ask"
       THEN Return /\ waiting' \in {~stopped, FALSE}
       ELSE /\ waiting' = waiting
            /\ IF stopped THEN Return ELSE pc' = "append" /\ UNCHANGED loopVars
    /\ UNCHANGED <<history, digest, iter, task, stopped, n, tasks, base, raced>>

\* The result is appended without another look at the context.  After a successful
\* report_finalize the calls that follow are not run.
AppendResult ==
    /\ pc = "append"
    /\ n' = n + 1 /\ history' = Append(history, ResultItem(n + 1, calls[1].id))
    /\ \/ /\ calls' = Tail(calls)
          /\ pc' = IF Len(calls) = 1 THEN "top" ELSE "tool"
          /\ UNCHANGED <<bundle, attempt, final, abandoned>>
       \/ /\ calls[1].tool = "finalize"
          /\ pc' = "chat" /\ final' = TRUE /\ attempt' = 0
          /\ bundle' = [digest |-> digest, history |-> history', task |-> 0]
          /\ calls' = <<>> /\ abandoned' = abandoned \cup {calls[k].id : k \in 2..Len(calls)}
    /\ UNCHANGED <<digest, iter, task, stopped, waiting, tasks, base, raced>>

\* finalResponseAfterFinalize: the summary is an answer of the assistant.
Summary ==
    LET h == Append(history, Item(n + 1, "assistant"))
    IN  /\ pc = "summary"
        /\ \/ /\ n < MaxItems /\ n' = n + 1
              /\ \E long \in BOOLEAN :
                    LET c == IF long THEN Compact(h, digest) ELSE [history |-> h, digest |-> digest]
                    IN  history' = c.history /\ digest' = c.digest
           \/ UNCHANGED <<n, history, digest>>
        /\ Return
        /\ UNCHANGED <<iter, task, stopped, waiting, tasks, base, raced>>

---------------------------------------------------------------------------
(* The user and the server *)

\* CancelRun
Stop ==
    /\ pc # "idle" \/ waiting
    /\ ~stopped
    /\ stopped' = TRUE /\ waiting' = FALSE
    /\ UNCHANGED <<history, digest, pc, iter, loopVars, task, n, tasks, base, raced>>

\* Session.Reset: the run is stopped and the history cleared; nobody waits for the run.
Reset ==
    /\ history # <<>>
    /\ history' = <<>> /\ digest' = <<>> /\ base' = n
    /\ stopped' = TRUE /\ waiting' = FALSE
    /\ raced' = (pc # "idle")
    /\ UNCHANGED <<pc, iter, loopVars, task, n, tasks>>

\* Nobody restores the history (RestoreHistory has no caller).
Restart ==
    /\ history # <<>>
    /\ history' = <<>> /\ digest' = <<>> /\ base' = n
    /\ pc' = "idle" /\ iter' = 0 /\ attempt' = 0 /\ bundle' = NoBundle /\ task' = FALSE
    /\ calls' = <<>> /\ final' = FALSE /\ stopped' = FALSE /\ waiting' = FALSE
    /\ raced' = FALSE
    /\ UNCHANGED <<n, tasks, abandoned>>

Step == \/ LoopTop \/ ChatWithTools \/ Receive \/ Reply \/ RunTool \/ AppendResult \/ Summary

Next == StartRun \/ ProvideAskUserResult \/ Step \/ Stop \/ Reset \/ Restart

Spec == Init /\ [][Next]_vars

\* The goroutine goes on: requests and tools have time-outs.
FairSpec == Spec /\ WF_vars(Step)

---------------------------------------------------------------------------
(* Properties *)

\* In every request a result comes right after the message with its call, before
\* anybody else speaks, and once; a call has its result unless it was given up.
\* Compaction, stops, questions and summaries may come in between
\* (adjustCompactionBoundary and the order of appends in Run).
RequestWellFormed ==
    pc = "chat" /\ ~raced =>
        LET h == bundle.history IN
        /\ \A j \in 1..Len(h) : h[j].role = "tool" =>
              /\ \E i \in 1..(j - 1) :
                    /\ h[j].of \in CallIds(h[i])
                    /\ \A k \in (i + 1)..j : h[k].role = "tool"
              /\ \A k \in 1..(j - 1) : h[k].of # h[j].of
        /\ \A i \in 1..Len(h) : \A id \in CallIds(h[i]) :
              id \in abandoned \/ \E j \in (i + 1)..Len(h) : h[j].of = id

\* Digest and history together have every item since the last reset, in order; only
\* items between the first bullets of a compaction and its remark are missing, and
\* never one of the newest (compactMessagesLocked and buildHistoryDigest).
NothingForgotten ==
    LET all == digest \o [i \in 1..Len(history) |-> history[i].n]
    IN  /\ n > base => \A k \in (base + 1)..n : n - k < Window => \E i \in 1..Len(history) : history[i].n = k
        /\ \A i \in 1..Len(all) : all[i] # 0 =>
              IF i = 1 THEN all[i] = base + 1
              ELSE all[i] = all[i - 1] + 1 \/ (all[i - 1] = 0 /\ i > 2 /\ all[i] > all[i - 2])

\* The three formats say the same, in the same order, of every request.
WireFormatsAgree ==
    pc = "chat" => LET r == BuildResponsesRequest(bundle)
                   IN  /\ Contents(BuildChatCompletionsRequest(bundle)) = r
                       /\ Contents(BuildAnthropicMessages(bundle)) = r

\* To Anthropic the user speaks first and last and the roles take turns, as its
\* interface demands, whatever was stopped, compacted or left unanswered.
AnthropicAlternates ==
    pc = "chat" /\ ~raced =>
        LET ms == BuildAnthropicMessages(bundle) IN
        /\ ms # <<>>
        /\ \A i \in 1..Len(ms) : ms[i].role = (IF i % 2 = 1 THEN "user" ELSE "assistant")
        /\ Len(ms) % 2 = 1

\* Every run ends, whatever the model answers.
RunEnds == pc # "idle" ~> pc = "idle"
=============================================================================

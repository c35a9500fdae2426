------------------------------- MODULE LlmWire -------------------------------
(***************************************************************************)
(* What the engine sends to a language model, in the three formats that    *)
(* agent/llm.go writes: OpenAI Responses, OpenAI Chat Completions and      *)
(* Anthropic Messages.                                                     *)
(*                                                                         *)
(* An item of the conversation has a number, a role, the tools it calls    *)
(* and, for a tool's result, the call it answers: the number of the        *)
(* calling item and the place of the call in it.  Texts are left out but   *)
(* for whether an assistant's item has one.  A bundle is a digest of older *)
(* items, the history and the user's task, a number or 0.                  *)
(***************************************************************************)
EXTENDS Naturals, Sequences, SequencesExt

Item(n, role)          == [n |-> n, role |-> role, text |-> TRUE, calls |-> <<>>, of |-> <<>>]
CallItem(n, calls, text) == [Item(n, "assistant") EXCEPT !.calls = calls, !.text = text]
ResultItem(n, of)      == [Item(n, "tool") EXCEPT !.of = of]

\* What a message is made of, whatever the format.
DigestAtom    == <<"user", "digest">>
TextAtom(m)   == <<m.role, m.n>>
CallAtom(m, j) == <<"call", <<m.n, j>>>>
ResultAtom(m) == <<"result", m.of>>
TaskAtom(b)   == <<"user", b.task>>

\* The places of a sequence that are in S, in order.
Places(seq, S) == FlattenSeq([i \in 1..Len(seq) |-> IF i \in S THEN <<i>> ELSE <<>>])

CallAtoms(m) == [j \in 1..Len(m.calls) |-> CallAtom(m, j)]
TextAtoms(m) == IF m.text THEN <<TextAtom(m)>> ELSE <<>>

DigestAtoms(b) == IF b.digest = <<>> THEN <<>> ELSE <<DigestAtom>>
TaskAtoms(b)   == IF b.task = 0 THEN <<>> ELSE <<TaskAtom(b)>>

\* buildResponsesRequest: a flat list of inputs.
ResponsesInputs(m) ==
    CASE m.role = "user"      -> <<TextAtom(m)>>
      [] m.role = "assistant" -> TextAtoms(m) \o CallAtoms(m)
      [] m.role = "tool"      -> <<ResultAtom(m)>>

BuildResponsesRequest(b) ==
    DigestAtoms(b)
    \o FlattenSeq([i \in 1..Len(b.history) |-> ResponsesInputs(b.history[i])])
    \o TaskAtoms(b)

\* A message, unless it would be empty.
Messages(role, content) == IF content = <<>> THEN <<>> ELSE <<[role |-> role, content |-> content]>>

\* buildChatCompletionsRequest: messages; calls are part of the assistant's.
ChatMessages(m) ==
    CASE m.role = "user"      -> <<[role |-> "user", content |-> <<TextAtom(m)>>]>>
      [] m.role = "assistant" -> Messages("assistant", TextAtoms(m) \o CallAtoms(m))
      [] m.role = "tool"      -> <<[role |-> "tool", content |-> <<ResultAtom(m)>>]>>

BuildChatCompletionsRequest(b) ==
    Messages("user", DigestAtoms(b))
    \o FlattenSeq([i \in 1..Len(b.history) |-> ChatMessages(b.history[i])])
    \o Messages("user", TaskAtoms(b))

\* flushUserContent
FlushUserContent(s) == [out |-> s.out \o Messages("user", s.user), user |-> <<>>]

\* One step of the loop of buildAnthropicMessages: what a user says and what tools
\* return is gathered until the assistant speaks.
AnthropicStep(s, m) ==
    CASE m.role = "user"      -> [out |-> s.out, user |-> Append(s.user, TextAtom(m))]
      [] m.role = "tool"      -> [out |-> s.out, user |-> Append(s.user, ResultAtom(m))]
      [] m.role = "assistant" ->
            [out  |-> FlushUserContent(s).out \o Messages("assistant", TextAtoms(m) \o CallAtoms(m)),
             user |-> <<>>]

AnthropicLoop(b) ==
    LET s[i \in 0..Len(b.history)] ==
            IF i = 0 THEN [out |-> <<>>, user |-> DigestAtoms(b)]
            ELSE AnthropicStep(s[i - 1], b.history[i])
    IN  s[Len(b.history)]

\* Mutant: what follows the last message of the assistant is not sent.
AnthropicWithoutLastFlush(b) == AnthropicLoop(b).out

\* Mutant: results are a message of their own.
AnthropicResultsApart(b) ==
    FlushUserContent(AnthropicLoop(b)).out \o Messages("user", TaskAtoms(b))

BuildAnthropicMessages(b) ==
    LET s == AnthropicLoop(b)
    IN  FlushUserContent([out |-> s.out, user |-> s.user \o TaskAtoms(b)]).out

---------------------------------------------------------------------------
(* What comes back *)

\* convertResponsesResponse, convertChatCompletionsResponse, convertAnthropicResponse: the
\* parts of an answer, in any order, become one text and the calls in their order.
ConvertResponse(parts) ==
    LET named == Places(parts, {i \in 1..Len(parts) : parts[i] # "text"})
    IN  [text |-> "text" \in ToSet(parts), calls |-> [k \in 1..Len(named) |-> parts[named[k]]]]

\* How one request may end (chatOpenAI; chatOpenAIChatCompletions and chatAnthropic have
\* a part of these).  A cancelled context ends every request.
RequestOutcomes(cancelled) ==
    IF cancelled THEN {"cancelled"}
    ELSE {"answer", "no_endpoint", "connection_lost", "rate_limited", "server_error",
          "client_error", "unreadable", "api_error", "prompt_mismatch"}

\* isRetryableLLMError
IsRetryable(outcome) == outcome \in {"connection_lost", "rate_limited", "server_error"}

\* The contents of the messages, in order.
Contents(messages) == FlattenSeq([i \in 1..Len(messages) |-> messages[i].content])
=============================================================================

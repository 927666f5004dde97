----------------------------- MODULE Transcript -----------------------------
(***************************************************************************)
(* The list of messages sent to the model, and how receipts shorten it:    *)
(* app/retrieval/context_compact.py.                                       *)
(*                                                                         *)
(* A message is [role, id, calls, body]: a tool message has the id of the  *)
(* call it answers, an assistant's the ids of its calls.  The force message*)
(* is a user's; "force" tells it by its wording as the code does.  The     *)
(* body of a tool message is a result, the way GenericTools makes them,    *)
(* with compacted and broken added: a cut leaves text that is no JSON.     *)
(* Sizes are weights.  A cut keeps a prefix, and never less than the       *)
(* reference of the first document, which its caps are far above.          *)
(***************************************************************************)
EXTENDS Lists

CONSTANTS
  DocumentWeight, NodeWeight,   \* size of a document's text, and of a node
  RawCap,                       \* the 24000 characters of a tool message
  LastRoundCap,                 \* LAST_ROUND_CHARS
  ReceiptCap,                   \* RECEIPT_CHARS
  TokenBudget                   \* acgc_token_budget

ASSUME TranscriptAssumption ==
  /\ {DocumentWeight, NodeWeight} \subseteq Nat \ {0}
  /\ {RawCap, LastRoundCap, ReceiptCap, TokenBudget} \subseteq Nat

Size(body) ==
  DocumentWeight * Len(body.documents)
    + NodeWeight * (Len(body.nodes) + Len(body.related) + Len(body.missing) + Len(body.hints))

\* A result as it is sent first: nothing of it is cut.
Whole(result) ==
  [f \in DOMAIN result \cup {"compacted", "broken"} |-> IF f \in DOMAIN result THEN result[f] ELSE FALSE]

\* estimate_tokens
EstimateTokens(messages) == FoldLeft(LAMBDA sum, m : sum + 1 + Size(m.body), 0, messages)

Cut(body, cap) ==
  IF Size(body) <= cap THEN body
  ELSE LET docs == Upto(body.documents, Larger(1, cap \div DocumentWeight))
           rest == Larger(0, cap - DocumentWeight * Len(docs))
       IN  [body EXCEPT !.documents = docs, !.nodes = Upto(@, rest \div NodeWeight),
                        !.related = <<>>, !.missing = <<>>, !.hints = <<>>, !.broken = TRUE]

\* _brief: search hits keep their documents; the documents of a read lose their hints.
BriefDroppingDocuments(body) ==      \* mutant: search hits keep no document
  IF body.kind = "search" THEN [body EXCEPT !.documents = <<>>, !.nodes = Upto(@, 8), !.related = Upto(@, 8)]
  ELSE [body EXCEPT !.documents = Upto(@, 8), !.related = Upto(@, 8), !.hints = <<>>]

Brief(body) ==
  [body EXCEPT !.documents = Upto(@, 8), !.nodes = Upto(@, 8), !.related = Upto(@, 8), !.hints = <<>>]

\* _receipt: what is no JSON any more, or a receipt already, is only cut again.
Receipt(body, cap) ==
  IF body.broken \/ body.compacted THEN Cut(body, cap) ELSE Cut([Brief(body) EXCEPT !.compacted = TRUE], cap)

\* _split: the system prompt and the question, the turns, the force message if it is last.
Prefix(messages) == IF Len(messages) > 1 /\ messages[2].role = "user" THEN 2 ELSE 1
Forces(messages) == messages[Len(messages)].role = "force" /\ Len(messages) > Prefix(messages)
BodyEnd(messages) == IF Forces(messages) THEN Len(messages) - 1 ELSE Len(messages)

\* _last_assistant_index: the newest turn with tool calls, or past the end.
LastAssistant(messages) ==
  LET turns == {i \in Prefix(messages) + 1 .. BodyEnd(messages) :
                  messages[i].role = "assistant" /\ messages[i].calls # <<>>}
  IN  IF turns = {} THEN Len(messages) + 1 ELSE Max(turns)

Shortened(messages, Limit(_)) ==
  [i \in DOMAIN messages |->
     IF messages[i].role = "tool" THEN [messages[i] EXCEPT !.body = Receipt(@, Limit(i))] ELSE messages[i]]

CompactMessages(messages) ==
  LET last == LastAssistant(messages)
      out  == Shortened(messages, LAMBDA i : IF i >= last THEN LastRoundCap ELSE ReceiptCap)
  IN  IF EstimateTokens(out) <= TokenBudget THEN out ELSE Shortened(out, LAMBDA i : ReceiptCap)

\* assert_tool_pairing: every tool message answers a call of the assistant before it, once.
Asker(messages, i) ==
  LET before == {j \in 1 .. i - 1 : messages[j].role = "assistant"} IN IF before = {} THEN 0 ELSE Max(before)

Paired(messages) ==
  \A i \in DOMAIN messages : messages[i].role = "tool" =>
    /\ Asker(messages, i) # 0
    /\ Contains(messages[Asker(messages, i)].calls, messages[i].id)
    /\ \A j \in Asker(messages, i) + 1 .. i - 1 : messages[j].id # messages[i].id
=============================================================================

--------------------------- MODULE GenericSession ---------------------------
(***************************************************************************)
(* A database is indexed and a question asked of it (build_index and       *)
(* ask_saved of app/api/generic_ui.py, read_source, run_saved_generic,     *)
(* run_agent and its tool loop): the tools of GenericTools read the        *)
(* database while others write it, the transcript is shortened before each *)
(* turn as Transcript says, and the answer cites what was read.  An        *)
(* optional sidecar is told of every step.                                 *)
(*                                                                         *)
(* Every find is a step of its own, but for those that bind related nodes, *)
(* which are made at once.  The calls of a turn run one after the other;   *)
(* batches, deadlines and the order of refusals are AgentLoop's and        *)
(* ToolScheduler's; saving and loading are IndexStore's, and what an index *)
(* is made of Grouping's and GenericBuild's.                               *)
(***************************************************************************)
EXTENDS GenericTools, Transcript

CONSTANTS
  Indexes,      \* indexes that may be saved already
  Names,        \* collections to index, sorted
  Limits,       \* documents to read of each; 0 is all
  Cards(_, _),  \* the cards of a collection for its documents, in order
  Plans(_),     \* the plans of [collection -> documents]
  Database,     \* the source when the question is asked
  Documents,    \* [collection -> documents a writer may put there]
  Questions,    \* the words of a question; {} is a blank one
  Turns,        \* sequences of tool calls the model may reply with
  CitedIds,     \* sequences of document ids it may name with its answer
  MaxTurns,     \* max_agent_turns
  MaxEdits,     \* bound: writes of the source during the ask
  Synthesis     \* BOOLEAN: another model writes the final answer

Storable(c) == ToSet(Database[c]) \cup (IF c \in DOMAIN Documents THEN Documents[c] ELSE {})

\* The documents a collection may hold, and what a find of all of it may return.
Listings(c) == UNION {SetToSeqs(S) : S \in SUBSET Storable(c)}

\* The nodes of an index, and the hops its plans lead to, are about its collections.
Coherent(i) ==
  /\ \A n \in ToSet(i.nodes) : n.coll \in i.collections /\ n._id[1] # "hop" /\ IsList(n.ids)
  /\ \A p \in ToSet(i.plans) : p.to \in i.collections

IsCall(call) ==
  /\ call.tool \in {"search_information", "retrieve_evidence", "query_documents"} /\ call.limit \in Nat
  /\ IsList(call.ids) /\ IsList(call.near) /\ IsFiniteSet(call.words)

\* Names and the ids in a collection are unique; cards, plans and replies are lists; an
\* index without a reader is one over the documents at hand.
ASSUME SessionAssumption ==
  /\ \A c \in DOMAIN Database : /\ IsList(Database[c])
                                /\ \A i, j \in DOMAIN Database[c] : Database[c][i].id = Database[c][j].id => i = j
  /\ DOMAIN Documents \subseteq DOMAIN Database /\ \A c \in DOMAIN Documents : IsFiniteSet(Documents[c])
  /\ IsList(Names) /\ Names # <<>> /\ ToSet(Names) \subseteq DOMAIN Database
  /\ \A i, j \in DOMAIN Names : Names[i] = Names[j] => i = j
  /\ \A c \in ToSet(Names) : \A docs \in Listings(c) :
       IsList(Cards(c, docs)) /\ \A n \in ToSet(Cards(c, docs)) : n.coll = c /\ n._id[1] # "hop" /\ IsList(n.ids)
  /\ \A docs \in [ToSet(Names) -> UNION {Listings(c) : c \in ToSet(Names)}] :
       (\A c \in ToSet(Names) : docs[c] \in Listings(c)) =>
         IsList(Plans(docs)) /\ \A p \in ToSet(Plans(docs)) : p.to \in ToSet(Names)
  /\ Limits \subseteq Nat /\ MaxTurns \in Nat /\ MaxEdits \in Nat
  /\ \A i \in Indexes :
       /\ "nodes" \in DOMAIN i /\ IsList(i.nodes) /\ IsList(i.plans) /\ Coherent(i)
       /\ ~ i.live => \A c \in DOMAIN Database \cap i.collections : \A d \in ToSet(Database[c]) :
                         i.scope[c].complete \/ d.id \in i.scope[c].ids
  /\ \A t \in Turns : IsList(t) /\ \A i \in DOMAIN t : IsCall(t[i])

VARIABLES
  pc,
  index,        \* the saved index, as load_generic_handlers returns it
  most,         \* the limit a request to index gives
  found,        \* read_source: what it has read; later the history of that read
  db,           \* the source database
  edits,
  question,
  validating,   \* parallel_tools = "on": calls are validated against the ledger
  sidecar,      \* the channel of run_agent's own sidecar: "none", "open", "closed"
  turns, forced, bounced,
  messages,
  ledger,
  planned,      \* the ledger when the turn was planned
  calls, at,    \* tool calls of the last reply and the one being executed
  left, got,    \* what the call has still to read, and what it has read
  gathered,     \* references of the documents of all results
  draft,        \* the submission: ids it cites, or none
  citations,
  live,         \* history: documents live at some time of the call, and all along
  results       \* history: [id, call, result] of the calls that were executed

request == <<most, question, validating>>
setting == <<index, found, request>>
source  == <<db, edits, live>>
reading == <<left, got>>
turn    == <<calls, at, planned>>
loop    == <<turns, forced, bounced>>
outcome == <<gathered, draft, citations>>
vars    == <<pc, setting, source, sidecar, loop, messages, ledger, turn, reading, outcome, results>>

NoIndex == [live |-> TRUE]
None == [submitted |-> FALSE, cited |-> <<>>]
Live == UNION {{[coll |-> c, doc |-> db[c][i]] : i \in DOMAIN db[c]} : c \in DOMAIN db}
Message(role, id, ids, body) == [role |-> role, id |-> id, calls |-> ids, body |-> body]
Said(role) == Message(role, <<>>, <<>>, Error)
AssistantMessage(ids) == Message("assistant", <<>>, ids, Error)
CallId(i) == <<turns, i>>

Init ==
  /\ pc \in {"index", "start"}
  /\ index \in Indexes \cup {NoIndex} /\ most \in (IF index = NoIndex THEN Limits ELSE {0}) /\ found = <<>>
  /\ db = Database /\ edits = 0
  /\ question \in Questions /\ validating \in BOOLEAN /\ sidecar \in {"none", "open"}
  /\ turns = 0 /\ forced = FALSE /\ bounced = FALSE
  /\ messages = <<>> /\ ledger = EmptyLedger
  /\ calls = <<>> /\ at = 1 /\ planned = EmptyLedger
  /\ left = <<>> /\ got = NothingRead
  /\ gathered = <<>> /\ draft = None /\ citations = <<>>
  /\ live = [ever |-> {}, always |-> {}] /\ results = <<>>

-----------------------------------------------------------------------------
(* /ui/index.                                                              *)

Rest == <<source, sidecar, loop, messages, ledger, turn, reading, outcome, results>>

\* saved_index_summary: an index that is there is not built again, whatever has changed.
BuildIndex ==
  /\ pc = "index"
  /\ pc' \in IF index = NoIndex THEN {"list", "refused"} ELSE {"start"}
  /\ UNCHANGED <<setting, Rest>>

\* read_source: the documents of the next collection,
ListSource ==
  /\ pc = "list"
  /\ LET c == Names[Len(found) + 1]
     IN  found' = Append(found, [coll |-> c, docs |-> IF most = 0 THEN db[c] ELSE Upto(db[c], most),
                                 then |-> db[c], complete |-> FALSE, steady |-> FALSE])
  /\ pc' = "count"
  /\ UNCHANGED <<index, request, Rest>>

CompleteIfListed(docs, total) == docs # <<>> \/ total = 0     \* mutant: a short read counts as complete

Complete(docs, total) == Len(docs) = total

\* and then how many there are.
CountSource ==
  /\ pc = "count"
  /\ LET f == Last(found)
     IN  found' = Append(Front(found), [f EXCEPT !.complete = Complete(f.docs, Len(db[f.coll])),
                                                 !.steady = (db[f.coll] = f.then)])
  /\ pc' = IF Len(found) = Len(Names) THEN "save" ELSE "list"
  /\ UNCHANGED <<index, request, Rest>>

\* build_nav_nodes: the cards of all collections, then a node for each.
NavNodes ==
  FlattenSeq([i \in DOMAIN found |-> Cards(found[i].coll, found[i].docs)])
    \o [i \in DOMAIN found |-> [_id |-> <<"col", found[i].coll>>, coll |-> found[i].coll, ids |-> <<>>,
                                words |-> {found[i].coll}]]

Ids(docs) == {docs[i].id : i \in DOMAIN docs}
EntryOf(c) == CHOOSE f \in ToSet(found) : f.coll = c

\* index_database after that, or an error of the database: nothing is saved then.
SaveIndex ==
  /\ pc = "save"
  /\ \/ /\ index' = [nodes       |-> NavNodes,
                     plans       |-> Plans([c \in ToSet(Names) |-> EntryOf(c).docs]),
                     scope       |-> [c \in ToSet(Names) |->
                                        LET f == EntryOf(c)
                                        IN  [complete |-> f.complete, ids |-> IF f.complete THEN {} ELSE Ids(f.docs)]],
                     collections |-> ToSet(Names), live |-> TRUE]
        /\ found' = [i \in DOMAIN found |-> [coll |-> found[i].coll, ids |-> Ids(found[i].docs),
                                             whole |-> found[i].docs = found[i].then, steady |-> found[i].steady]]
        /\ pc' = "start"
     \/ pc' = "refused" /\ UNCHANGED <<index, found>>
  /\ UNCHANGED <<request, Rest>>

-----------------------------------------------------------------------------
(* /ui/ask.                                                                *)

\* A blank question is refused, and so is one for a cluster that cannot be reached.
Ask ==
  /\ pc = "start"
  /\ pc' \in IF question = {} THEN {"refused"} ELSE {"load", "refused"}
  /\ UNCHANGED <<setting, source, sidecar, loop, messages, ledger, turn, reading, outcome, results>>

\* So is one without a saved index, or without the vectors the settings require.
Load ==
  /\ pc = "load"
  /\ pc' \in IF index = NoIndex THEN {"refused"} ELSE {"prompt", "refused"}
  /\ UNCHANGED <<setting, source, sidecar, loop, messages, ledger, turn, reading, outcome, results>>

\* The sidecar hears of the question before the try block: its channel stays open if it objects.
Prompt ==
  /\ pc = "prompt"
  /\ messages' = <<Said("system"), Said("user")>>
  /\ pc' \in IF sidecar = "open" THEN {"top", "raised"} ELSE {"top"}
  /\ UNCHANGED <<setting, source, sidecar, loop, ledger, turn, reading, outcome, results>>

\* Whatever run_agent's finally block meets, its own channel is closed.
CloseSidecar == IF sidecar = "open" THEN "closed" ELSE sidecar

\* A step the sidecar hears of goes to next, or raises when the sidecar objects.
Heard(next) ==
  \/ pc' = next /\ UNCHANGED sidecar
  \/ sidecar = "open" /\ pc' = "raised" /\ sidecar' = CloseSidecar

TopOfLoop ==
  /\ pc = "top"
  /\ LET now == IF turns >= MaxTurns THEN Append(messages, Said("force")) ELSE messages
     IN  messages' = IF \E i \in DOMAIN now : now[i].role = "tool" THEN CompactMessages(now) ELSE now
  /\ forced' = (turns >= MaxTurns)
  /\ pc' = "model"
  /\ UNCHANGED <<setting, source, sidecar, turns, bounced, ledger, turn, reading, outcome, results>>

\* The model asks for tools: forced ones are not run.
ReplyCalls ==
  /\ pc = "model"
  /\ \E asked \in Turns :
       /\ calls' = asked
       /\ messages' = Append(messages, AssistantMessage([i \in DOMAIN asked |-> <<turns + 1, i>>]))
  /\ at' = 1 /\ planned' = ledger /\ turns' = turns + 1
  /\ Heard(IF forced THEN "finish" ELSE "calls")
  /\ UNCHANGED <<setting, source, forced, bounced, ledger, reading, outcome, results>>

HasRead == \E i \in DOMAIN results :
  results[i].call.tool # "search_information" \/ results[i].result.documents # <<>>

\* The model answers in text; without a read it is asked for one, once.
ReplyText ==
  /\ pc = "model"
  /\ turns' = turns + 1
  /\ LET said == Append(messages, AssistantMessage(<<>>))
     IN  \/ /\ forced \/ bounced \/ HasRead
            /\ \E cited \in CitedIds : draft' = [submitted |-> TRUE, cited |-> cited]
            /\ messages' = said /\ Heard("finish") /\ UNCHANGED bounced
         \/ /\ ~ (forced \/ bounced \/ HasRead)
            /\ messages' = Append(said, Said("user")) /\ bounced' = TRUE
            /\ Heard("top") /\ UNCHANGED draft
  /\ UNCHANGED <<setting, source, forced, ledger, turn, reading, gathered, citations, results>>

AnswerWith(result) == Append(messages, Message("tool", CallId(at), <<>>, result))
Body(result) == Cut(Whole(result), RawCap)
DocumentsOf(result) == result.documents

\* The next call of the turn: one that is not valid, or that is refused, reads nothing.
Dispatch ==
  /\ pc = "calls" /\ at <= Len(calls)
  /\ LET call == calls[at]
     IN  IF validating /\ ~ Valid(call, planned)
         THEN /\ messages' = AnswerWith(Body(Error)) /\ at' = at + 1
              /\ Heard("calls") /\ UNCHANGED <<left, got, live>>
         ELSE /\ left' = IF Refused(index, call) THEN <<>> ELSE Reads(index, question, call)
              /\ got' = [NothingRead EXCEPT !.raised = Refused(index, call)]
              /\ live' = [ever |-> Live, always |-> Live]
              /\ pc' = "reading" /\ UNCHANGED <<sidecar, messages, at>>
  /\ UNCHANGED <<setting, db, edits, loop, ledger, calls, planned, outcome, results>>

Read ==
  /\ pc = "reading" /\ left # <<>> /\ ~ Full(calls[at], got)
  /\ got' = ReadOne(index, db, question, calls[at], got, Head(left))
  /\ left' = Tail(left)
  /\ UNCHANGED <<pc, setting, source, sidecar, loop, messages, ledger, turn, outcome, results>>

\* The result is done: _execute_and_record takes it in.
Record ==
  /\ pc = "reading"
  /\ left = <<>> \/ Full(calls[at], got)
  /\ LET result == Result(index, db, calls[at], got)
     IN  /\ results' = Append(results, [id |-> CallId(at), call |-> calls[at], result |-> result])
         /\ gathered' = gathered \o DocumentsOf(result)
         /\ ledger' = Absorb(ledger, result)
         /\ messages' = AnswerWith(Body(result))
  /\ at' = at + 1
  /\ Heard("calls")
  /\ left' = <<>> /\ got' = NothingRead /\ live' = [ever |-> {}, always |-> {}]
  /\ UNCHANGED <<setting, db, edits, loop, calls, planned, draft, citations>>

EndTurn ==
  /\ pc = "calls" /\ at > Len(calls)
  /\ pc' = "top"
  /\ UNCHANGED <<setting, source, sidecar, loop, messages, ledger, turn, reading, outcome, results>>

-----------------------------------------------------------------------------
(* The end of _tool_loop: what the session cites.                          *)

Dedupe(refs) == Unique(refs)
CitationsFrom(refs) == Unique(refs)

\* generate_answer cites every document it was given; both lists are merged.
Synthesized(refs) == Unique(refs)
Merge(primary, extra) == Unique(primary \o extra)

\* The documents the draft cites come first.
PreferCitedOnly(refs, cited) == Filter(refs, LAMBDA r : Contains(cited, r.id))    \* mutant

PreferCited(refs, cited) ==
  Filter(refs, LAMBDA r : Contains(cited, r.id)) \o Filter(refs, LAMBDA r : ~ Contains(cited, r.id))

Finish ==
  /\ pc = "finish"
  /\ gathered' = Dedupe(gathered)
  /\ LET own  == CitationsFrom(gathered')
         all  == IF Synthesis /\ gathered' # <<>> THEN Merge(Synthesized(gathered'), own) ELSE own
     IN  citations' = IF draft.cited = <<>> THEN all ELSE PreferCited(all, draft.cited)
  /\ pc' = "done" /\ sidecar' = CloseSidecar
  /\ UNCHANGED <<setting, source, loop, messages, ledger, turn, reading, draft, results>>

\* Others write the source while it is indexed or a call reads it; an index in memory does not see them.
EditSource ==
  /\ pc \in {"list", "count", "reading"} /\ edits < MaxEdits /\ index.live
  /\ edits' = edits + 1
  /\ \E c \in DOMAIN Documents :
       \/ \E i \in DOMAIN db[c] : db' = [db EXCEPT ![c] = RemoveAt(@, i)]
       \/ \E d \in Documents[c] :
            \/ (\A i \in DOMAIN db[c] : db[c][i].id # d.id) /\ db' = [db EXCEPT ![c] = Append(@, d)]
            \/ \E i \in DOMAIN db[c] : db[c][i].id = d.id /\ db[c][i] # d /\ db' = [db EXCEPT ![c][i] = d]
  /\ live' = IF pc = "reading" THEN [ever |-> live.ever \cup Live', always |-> live.always \cap Live'] ELSE live
  /\ UNCHANGED <<pc, setting, sidecar, loop, messages, ledger, turn, reading, outcome, results>>

Indexing == BuildIndex \/ ListSource \/ CountSource \/ SaveIndex

Step == Ask \/ Load \/ Prompt \/ TopOfLoop \/ ReplyCalls \/ ReplyText \/ Dispatch \/ Read \/ Record \/ EndTurn \/ Finish
Next == Indexing \/ Step \/ EditSource
Spec == Init /\ [][Next]_vars

-----------------------------------------------------------------------------
(* What must hold.                                                         *)

InScope(x) ==
  /\ x.coll \in index.collections
  /\ index.scope[x.coll].complete \/ x.doc.id \in index.scope[x.coll].ids

RefOf(x) == Ref(x.coll, x.doc)

\* The database compares types too: numbers with numbers, texts with texts, and with
\* ObjectIds where they are ids.
Alike(kind, coll, f) ==
  index.live => IF kind = "number" THEN Kind[coll][f] = "number"
                ELSE Kind[coll][f] = "string" \/ (f = "_id" /\ Kind[coll][f] = "objectid")
ById(x) == Alike("string", x.coll, "_id")
Gone(refs, S) == {r \in refs : \A x \in S : RefOf(x) # r}

\* The ids of a large card that the question or the query names, as many as are looked up.
NamedMembers(node, call) ==
  ToSet(Upto(Named(node.ids, question \cup call.words), Cap(call)))

\* Whether a document is one the node id stands for, by its text.
StandsFor(id, call, x) ==
  IF id[1] = "hop"
  THEN Len(id) = 4 /\ x.coll = id[2] /\ Value(x.doc, id[3]) = id[4] /\ Alike("string", id[2], id[3])
  ELSE /\ id \in NodeIds(index)
       /\ LET node  == NodeOf(index, id)
              named == NamedMembers(node, call)
          IN  /\ x.coll = node.coll
              /\ node.ids # <<>> => Contains(node.ids, x.doc.id) /\ ById(x)
              /\ Len(node.ids) > PrefetchLimit /\ named # {} => x.doc.id \in named

Satisfies(x, call) ==
  /\ x.coll = call.coll
  /\ \A c \in call.filter.clauses :
       c.op # "other" /\ \E v \in c.values : v.text = Value(x.doc, c.field) /\ Alike(v.kind, x.coll, c.field)

\* What no reader could say was missed: it was there, in scope, during the whole call.
\* A scope is of texts: a document whose id is a number is in none that is listed.
Steady(seen) == {x \in seen.always : InScope(x) /\ (index.scope[x.coll].complete \/ ById(x))}

SoundRead(call, result, seen) ==
  LET docs == ToSet(result.documents)
  IN  /\ Cardinality(docs) = Len(result.documents) /\ Len(result.documents) <= Cap(call)
      /\ Gone(docs, seen.ever) = {}
      /\ \A x \in seen.ever : RefOf(x) \in docs =>
           InScope(x) \/ (~ validating /\ call.tool = "retrieve_evidence" /\ x.coll \notin index.collections)
      /\ result.kind = "query" =>
           \A r \in docs : \E x \in seen.ever : RefOf(x) = r /\ Satisfies(x, call)

CompleteRead(call, result, seen) ==
  LET docs == ToSet(result.documents)
  IN  /\ result.kind = "read" =>
           \A id \in ToSet(Upto(call.ids, 8)) :
             LET steady == {x \in Steady(seen) : StandsFor(id, call, x)}
             IN  /\ Contains(result.missing, id) => (steady = {} /\ (validating => id[1] = "hop"))
                 /\ steady = {} \/ Len(result.documents) >= Cap(call) \/ Contains(result.hints, id)
                      \/ \E x \in seen.ever : StandsFor(id, call, x) /\ RefOf(x) \in docs
      /\ result.kind = "search" =>
           LET words == (question \cup call.words) \cap NamedId
               listed == UNION {{[coll |-> n.coll, id |-> i] : i \in ToSet(n.ids) \cap words} : n \in ToSet(index.nodes)}
           IN  \/ Cardinality(listed) > Cap(call)
               \/ \A x \in Steady(seen) : RefOf(x) \in listed /\ ById(x) => RefOf(x) \in docs
      /\ result.kind = "query" /\ (\A c \in call.filter.clauses : c.op = "eq") =>
           \/ Len(result.documents) >= Cap(call)
           \/ \A x \in Steady(seen) : Satisfies(x, call) => RefOf(x) \in docs

\* Of a collection that nobody wrote while it was read, all or what was listed then.
InsideShortRead(result) ==
  \A r \in ToSet(result.documents) : \A f \in ToSet(found) :
    f.coll = r.coll /\ f.steady => f.whole \/ r.id \in f.ids

\* A tool result is true of the database while the call ran, whatever was written
\* meanwhile: its documents were there, once each, in the part that was indexed and
\* within the cap; and a requested node, a named id or a filter whose documents were
\* there all along is answered with some of them, or with a hint.  Over an index made
\* from a short read it stays inside what that read listed.  Only with calls that are
\* not validated can a made-up hop leave the index (retrieve_evidence,
\* search_information, query_documents, MongoReader.fetch and read_source).
ReadsAccounted ==
  [][Len(results') > Len(results) =>
       LET e == Last(results')
       IN  SoundRead(e.call, e.result, live) /\ CompleteRead(e.call, e.result, live) /\ InsideShortRead(e.result)]_vars

InView(call, result, x) ==
  \/ Contains(result.documents, RefOf(x))
  \/ \E n \in ToSet(index.nodes) :
       /\ \E brief \in ToSet(result.nodes) : brief._id = n._id
       /\ n.coll = x.coll /\ Contains(n.ids, x.doc.id)
  \/ \E id \in ToSet(call.ids) : id \in NodeIds(index) /\ StandsFor(id, call, x)

\* A plan compares keys of one kind, if it leads where the hop does.
Joins(p, hop) == p.to = hop[2] /\ p.to_field = hop[3] => Alike(Kind[p.coll][p.field], p.to, p.to_field)

\* A hop that is offered is bound to a key that a document in view held, by a plan of
\* the index, and lists just the documents in scope that hold it, all of them if they
\* are fewer than eight (_related).
HopsHold ==
  [][Len(results') > Len(results) =>
       LET e == Last(results')
       IN  \A h \in ToSet(e.result.related) :
             /\ \E p \in ToSet(index.plans) : \E x \in live.ever :
                  /\ x.coll = p.coll /\ h._id = Hop(p.to, p.to_field, Value(x.doc, p.field))
                  /\ InView(e.call, e.result, x)
             /\ \A id \in ToSet(h.ids) : \E x \in live.ever :
                  x.coll = h.coll /\ x.doc.id = id /\ InScope(x) /\ Value(x.doc, h._id[3]) = h._id[4]
             /\ (\A p \in ToSet(index.plans) : Joins(p, h._id)) /\ Len(h.ids) < 8 =>
                  \A x \in Steady(live) :
                    x.coll = h.coll /\ Value(x.doc, h._id[3]) = h._id[4] => Contains(h.ids, x.doc.id)]_vars

Answers(id) == {i \in DOMAIN messages : messages[i].role = "tool" /\ messages[i].id = id}
ResultOf(id) == {results[i].result : i \in {j \in DOMAIN results : results[j].id = id}}
Bound(i) == Larger(DocumentWeight, IF i >= LastAssistant(messages) THEN LastRoundCap ELSE ReceiptCap)

\* What the model is sent, however often it was shortened: the prompt and the question,
\* one answer to each call and to nothing else, the force message at the end, each
\* answer within its cap, and the first documents of every result that had any
\* (compact_messages keeps pairing; _brief and _receipt keep the references).
TranscriptHolds ==
  pc = "model" =>
    /\ messages[1].role = "system" /\ messages[2].role = "user"
    /\ Paired(messages)
    /\ \A i \in DOMAIN messages : \A id \in ToSet(messages[i].calls) : Cardinality(Answers(id)) = 1
    /\ forced => messages[Len(messages)].role = "force"
    /\ \A i \in DOMAIN messages : messages[i].role = "tool" =>
         /\ Size(messages[i].body) <= Bound(i)
         /\ \A r \in ResultOf(messages[i].id) :
              /\ messages[i].body.documents = Upto(r.documents, Len(messages[i].body.documents))
              /\ r.documents # <<>> => messages[i].body.documents # <<>>

\* The session cites exactly the documents the tools returned, each once, in the order
\* they were read but for those the draft cites, which come first; also those the
\* transcript had dropped by then (_dedupe_docs, _merge_citations, _prefer_cited).
CitationsRead ==
  pc = "done" =>
    /\ ToSet(citations) = UNION {ToSet(results[i].result.documents) : i \in DOMAIN results}
    /\ \A i, j \in DOMAIN citations : i < j =>
         /\ citations[i] # citations[j]
         /\ Contains(draft.cited, citations[j].id) => Contains(draft.cited, citations[i].id)

TypeOK ==
  /\ pc \in {"index", "list", "count", "save", "start", "load", "refused", "prompt", "top", "model", "calls", "reading", "finish", "done", "raised"}
  /\ sidecar \in {"none", "open", "closed"} /\ forced \in BOOLEAN /\ bounced \in BOOLEAN
  /\ turns \in 0 .. MaxTurns + 1 /\ edits \in 0 .. MaxEdits
  /\ at \in 1 .. Len(calls) + 1 /\ draft.submitted \in BOOLEAN
=============================================================================

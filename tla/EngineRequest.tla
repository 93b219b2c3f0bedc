----------------------------- MODULE EngineRequest -----------------------------
(***************************************************************************)
(* A request to the LightRAG engine from its arrival at the API to what    *)
(* its reader is told and what the stores keep: a question, streamed or    *)
(* not, a view of the entity graph, or a search for entities.  The gateway *)
(* (routers/query.py, services/qa_service.py, services/lightrag_service.py)*)
(* reads the events an engine sends it, across a connection that can break *)
(* (RemoteLightRAGAdapter, lightrag_integration/runtime.py) or within its  *)
(* own process; the engine (LocalLightRAGAdapter) works in every knowledge *)
(* space of the request at once and holds a lease on an instance meanwhile.*)
(*                                                                         *)
(* The leases themselves are the subject of WorkspaceCache.  Authorisation,*)
(* the choice of an engine and what a question says are left out.          *)
(***************************************************************************)
EXTENDS EngineReads

CONSTANTS Own, Public,  \* the workspaces of the caller and of the public demo
          Documents, PublicDocs, Corpora, \* what the spaces may hold
          Windows,      \* the limits of a view, <<nodes, edges>>
          MaxParts,     \* bound: deltas of an answer
          MaxFaults     \* bound: calls that fail, connections that break

ASSUME EngineRequestAssumption ==
    /\ Own # Public /\ PublicDocs \subseteq Documents /\ Everything \notin Documents
    /\ MaxParts \in Nat /\ MaxFaults \in Nat

VARIABLES ask, corpus,    \* the request and what the spaces hold
          gate, complete, \* what the gateway does; the final event it has read
          tasks, brought, \* the work in each space, and its result
          engine,         \* the work of the request as a whole
          prompt, parts,  \* the evidence given to the model, what it generated
          cited,          \* the references of the final event
          wire, link,     \* events on the way, and the connection
          here, shown,    \* the reader waits; what it was shown
          found, told,    \* the view or the items; how the request ended
          rows, recorded, \* what is stored, and the answer in it
          faults

engineVars == <<tasks, brought, engine, prompt, parts, cited>>
gateVars == <<gate, complete, here, shown, found, told, rows, recorded>>
requestVars == <<ask, corpus, engineVars, gateVars, wire, link, faults>>

(* _public_tenants, _workspaces: the public space too where one of its
   documents is named; no space at all where no document is. *)
SpacesOf(docs) ==
    IF docs = Everything THEN <<Own>>
    ELSE IF docs = {} THEN <<>>
    ELSE IF docs \cap PublicDocs = {} THEN <<Own>> ELSE <<Own, Public>>
Spaces == SpacesOf(ask.docs)
Together == Len(Spaces) > 1
Asks(kind) == ask.kind = kind
Streamed == ask.stream \/ Together          \* the engine's events come one by one
Remote == ask.remote

RequestInit ==
    /\ ask \in [kind : {"query"}, stream : BOOLEAN, remote : BOOLEAN, long : BOOLEAN,
                docs : SUBSET Documents \cup {Everything}, session : {"given", "new"},
                doc : {Everything}, window : {CHOOSE w \in Windows : TRUE}]
            \cup [kind : {"view", "search"}, stream : {FALSE}, remote : BOOLEAN, long : {FALSE},
                docs : SUBSET Documents \cup {Everything}, session : {"none"},
                doc : Documents \cup {Everything}, window : Windows]
    /\ ask.kind = "search" => ask.doc = Everything
    /\ corpus \in Corpora
    /\ gate = "start" /\ complete = 0 - 1
    /\ tasks = [s \in {Own, Public} |-> "none"] /\ engine = "idle"
    /\ brought = [s \in {Own, Public} |-> <<>>]
    /\ prompt = <<>> /\ parts = 0 /\ cited = <<>>
    /\ wire = <<>> /\ link = "open"
    /\ here = TRUE /\ shown = 0
    /\ found = <<>> /\ told = "nothing"
    /\ rows = {} /\ recorded = 0
    /\ faults = 0

-----------------------------------------------------------------------------
(* The gateway *)

End(word) == gate' = "over" /\ told' = IF here THEN word ELSE "nothing"

(* Nothing is allowed: no engine is asked, and a question is answered with an
   empty text.  The runtime refuses the history of a long conversation where
   the plain call does not shorten it (QueryRequest.history, 422). *)
TooLong == Asks("query") /\ ask.long /\ Remote /\ ~Streamed
Start ==
    /\ gate = "start"
    /\ \/ /\ Spaces = <<>> /\ Asks("query")
          /\ gate' = "store" /\ complete' = 0
          /\ UNCHANGED <<tasks, engine, told>>
       \/ /\ Spaces = <<>> /\ ~Asks("query")
          /\ End("done") /\ UNCHANGED <<tasks, engine, complete>>
       \/ /\ Spaces # <<>> /\ TooLong
          /\ End("unavailable") /\ UNCHANGED <<tasks, engine, complete>>
       \/ /\ Spaces # <<>> /\ ~TooLong
          /\ gate' = "read" /\ engine' = "spaces"
          /\ tasks' = [s \in DOMAIN tasks |-> IF s \in ToSet(Spaces) THEN "wait" ELSE "none"]
          /\ UNCHANGED <<complete, told>>
    /\ UNCHANGED <<ask, corpus, brought, prompt, parts, cited, wire, link, here, shown, found,
                   rows, recorded, faults>>

(* stream_query and _consume_scoped_query: every event that arrives. *)
Receive ==
    /\ gate = "read" /\ wire # <<>> /\ wire' = Tail(wire)
    /\ LET e == Head(wire) IN
       \/ /\ e.event = "delta" /\ shown' = IF ask.stream THEN shown + 1 ELSE shown
          /\ UNCHANGED <<gate, told, complete>>
       \/ /\ e.event = "done" /\ complete' = e.part
          /\ UNCHANGED <<gate, told, shown>>
       \/ /\ e.event \in {"unavailable", "failed"}
          /\ End(IF Remote /\ Asks("query") THEN "unavailable" ELSE e.event)
          /\ UNCHANGED <<shown, complete>>
    /\ UNCHANGED <<ask, corpus, engineVars, link, here, found, rows, recorded, faults>>

(* The stream has ended; what was asked is complete only if its final event
   was read.  Two variants: the end is taken for the final event; it is waited
   for without an end. *)
Ended == gate = "read" /\ wire = <<>> /\ link # "open"
EndOfText ==
    /\ Ended
    /\ \/ /\ link = "closed" /\ gate' = "store" /\ UNCHANGED told
          /\ complete' = IF complete < 0 THEN shown ELSE complete
       \/ link = "lost" /\ End("unavailable") /\ UNCHANGED complete
       \/ link = "broken" /\ End("failed") /\ UNCHANGED complete
    /\ UNCHANGED <<ask, corpus, engineVars, wire, link, here, shown, found, rows, recorded, faults>>

EndPatient ==
    /\ Ended /\ (link = "closed" => complete >= 0)
    /\ IF link = "closed" /\ Asks("query") THEN gate' = "store" /\ UNCHANGED told
       ELSE End(IF link = "closed" THEN "done" ELSE IF link = "lost" THEN "unavailable" ELSE "failed")
    /\ UNCHANGED <<ask, corpus, engineVars, wire, link, here, shown, complete, found, rows,
                   recorded, faults>>

EndOfStream ==
    /\ Ended
    /\ \/ /\ link = "closed" /\ complete >= 0 /\ Asks("query")
          /\ gate' = "store" /\ UNCHANGED told
       \/ link = "closed" /\ complete >= 0 /\ ~Asks("query") /\ End("done")
       \/ link = "closed" /\ complete < 0 /\ End("unavailable")
       \/ link = "lost" /\ End("unavailable")
       \/ link = "broken" /\ End("failed")
    /\ UNCHANGED <<ask, corpus, engineVars, wire, link, here, shown, complete, found, rows,
                   recorded, faults>>

(* _persist_completed_query, row by row; the record of the usage may be lost. *)
NextRow ==
    IF ask.session = "new" /\ "session" \notin rows THEN "session"
    ELSE IF "exchange" \notin rows THEN "exchange"
    ELSE IF "history" \notin rows THEN "history" ELSE "usage"
Store ==
    /\ gate = "store"
    /\ rows' = rows \cup {NextRow}
    /\ recorded' = IF NextRow = "session" THEN recorded ELSE complete
    /\ IF NextRow = "usage" THEN End("done") ELSE UNCHANGED <<gate, told>>
    /\ UNCHANGED <<ask, corpus, engineVars, wire, link, here, shown, complete, found, faults>>
StoreFails ==
    /\ gate = "store" /\ faults < MaxFaults /\ faults' = faults + 1
    /\ End(IF NextRow = "usage" THEN "done" ELSE "failed")
    /\ UNCHANGED <<ask, corpus, engineVars, wire, link, here, shown, complete, found, rows, recorded>>

(* The reader leaves: a stream is cancelled where it waits, anything else and
   the storing of an answer goes on. *)
Leave ==
    /\ here /\ gate # "over" /\ here' = FALSE
    /\ IF ask.stream /\ gate \in {"start", "read"}
       THEN gate' = "over" /\ link' = "left"
       ELSE UNCHANGED <<gate, link>>
    /\ UNCHANGED <<ask, corpus, engineVars, wire, shown, complete, found, told, rows, recorded, faults>>

-----------------------------------------------------------------------------
(* The engine *)

Send(event, part) ==
    wire' = IF link = "open" THEN Append(wire, [event |-> event, part |-> part]) ELSE wire
Close == link' = IF link = "open" THEN "closed" ELSE link
Returned == [s \in DOMAIN tasks |-> IF tasks[s] \in {"wait", "held"} THEN "done" ELSE tasks[s]]
gateway == <<ask, corpus, gateVars>>

(* _instance_lease and the lock on an instance. *)
TakeLease(s) ==
    /\ tasks[s] = "wait" /\ tasks' = [tasks EXCEPT ![s] = "held"]
    /\ UNCHANGED <<gateway, brought, engine, prompt, parts, cited, wire, link, faults>>

(* _retrieve_query_scope, export_graph, search_entities: the result of one of
   several calls, or of the only one of a view or a search. *)
Result(s) ==
    IF Asks("query") THEN FilterContext(corpus[s].chunks, ask.docs)
    ELSE IF Asks("view")
    THEN NormalGraph(RawGraph(corpus[s].graph, ask.window[1], ask.window[2]),
                     ask.doc, ask.docs, ask.window[1], ask.window[2])
    ELSE SearchItems(corpus[s].graph, ask.docs, ask.window[1])
SpaceDone(s) ==
    /\ Together \/ ~Asks("query")
    /\ engine \in {"spaces", "over"} /\ tasks[s] = "held"
    /\ tasks' = [tasks EXCEPT ![s] = "done"]
    /\ brought' = [brought EXCEPT ![s] = Result(s)]
    /\ UNCHANGED <<gateway, engine, prompt, parts, cited, wire, link, faults>>

(* A call fails: gather tells at once, and lets the other calls run on.  Where
   a view or a search loses the connection of one call, its space works on. *)
Fails(s) ==
    /\ faults < MaxFaults /\ faults' = faults + 1
    /\ tasks[s] \in {"wait", "held"}
    /\ \/ tasks' = [tasks EXCEPT ![s] = "failed"]
       \/ Remote /\ ~Asks("query") /\ engine # "over" /\ UNCHANGED tasks
    /\ IF engine = "over" THEN UNCHANGED <<engine, wire, link>>
       ELSE /\ engine' = "over" /\ Close
            /\ \E kind \in {"unavailable", "failed"} : Send(kind, 0)
    /\ UNCHANGED <<gateway, brought, prompt, parts, cited>>

(* What all the calls of a view or a search have brought, put together. *)
AllDone == engine = "spaces" /\ \A s \in ToSet(Spaces) : tasks[s] = "done"
Join ==
    /\ AllDone /\ ~Asks("query")
    /\ found' = IF Asks("view") THEN MergeGraphs(brought, Spaces, ask.window[1], ask.window[2])
                ELSE [nodes |-> MergeItems(brought, Spaces, ask.window[1]),
                      edges |-> <<>>, truncated |-> FALSE]
    /\ engine' = "over" /\ Send("done", 0) /\ Close
    /\ UNCHANGED <<ask, corpus, tasks, brought, prompt, parts, cited, gate, complete, here, shown, told,
                   rows, recorded, faults>>

(* The evidence of one space, under the lease it was retrieved with; a model is
   asked only where there is some, or no scope to keep. *)
EvidenceOfOne ==
    /\ Asks("query") /\ engine = "spaces" /\ ~Together /\ tasks[Own] = "held"
    /\ prompt' = Result(Own)
    /\ engine' = IF prompt' = <<>> /\ ask.docs # Everything THEN "text" ELSE "generate"
    /\ UNCHANGED <<gateway, tasks, brought, parts, cited, wire, link, faults>>

(* Of several spaces: the leases are back, the model is that of the first. *)
EvidenceOfAll ==
    /\ Asks("query") /\ Together /\ AllDone
    /\ prompt' = MergeContexts(brought, Spaces)
    /\ IF prompt' = <<>> THEN engine' = "text" /\ UNCHANGED tasks
       ELSE engine' = "primary" /\ tasks' = [tasks EXCEPT ![Own] = "wait"]
    /\ UNCHANGED <<gateway, brought, parts, cited, wire, link, faults>>
Primary ==
    /\ engine = "primary" /\ tasks[Own] = "held" /\ engine' = "generate"
    /\ UNCHANGED <<gateway, brought, tasks, prompt, parts, cited, wire, link, faults>>

(* _response_chunks: deltas, as many as there are. *)
Generate ==
    /\ engine = "generate" /\ parts < MaxParts /\ parts' = parts + 1
    /\ IF Streamed THEN Send("delta", parts') ELSE UNCHANGED wire
    /\ UNCHANGED <<gateway, brought, tasks, engine, prompt, cited, link, faults>>
StopText ==
    /\ engine = "generate" /\ engine' = "text"
    /\ UNCHANGED <<gateway, brought, tasks, prompt, parts, cited, wire, link, faults>>

(* The final event, then the return of the lease and the end of the stream;
   a plain answer is sent once the lease is back. *)
SendDone ==
    /\ engine = "text" /\ Streamed /\ engine' = "release" /\ Send("done", parts)
    /\ cited' = References(prompt, ask.docs)
    /\ UNCHANGED <<gateway, brought, tasks, prompt, parts, link, faults>>
Release ==
    /\ engine = IF Streamed THEN "release" ELSE "text"
    /\ engine' = "over" /\ tasks' = Returned /\ Close
    /\ IF Streamed THEN UNCHANGED <<wire, cited>>
       ELSE Send("done", parts) /\ cited' = References(prompt, ask.docs)
    /\ UNCHANGED <<gateway, brought, prompt, parts, faults>>

(* The connection breaks: events on the way may be lost.  An engine that was
   writing a stream is cancelled, one that computes a plain answer is not. *)
Break ==
    /\ Remote /\ Asks("query") /\ gate = "read" /\ link = "open"
    /\ faults < MaxFaults /\ faults' = faults + 1
    /\ link' \in {"lost", "broken"} \cup (IF Streamed THEN {"closed"} ELSE {})
    /\ \E n \in 0..Len(wire) : wire' = Prefix(wire, n)
    /\ UNCHANGED <<ask, corpus, engineVars, gateVars>>
Cancelled ==
    /\ Streamed /\ link # "open" /\ engine \notin {"idle", "over"}
    /\ engine' = "over" /\ tasks' = Returned
    /\ UNCHANGED <<gateway, brought, prompt, parts, cited, wire, link, faults>>

Gateway == Start \/ Receive \/ EndOfStream \/ Store
Engine ==
    \/ \E s \in {Own, Public} : TakeLease(s) \/ SpaceDone(s)
    \/ Join \/ EvidenceOfOne \/ EvidenceOfAll \/ Primary
    \/ Generate \/ StopText \/ SendDone \/ Release \/ Cancelled
RequestNext ==
    Gateway \/ StoreFails \/ Leave \/ Engine \/ (\E s \in {Own, Public} : Fails(s)) \/ Break

RequestSpec == RequestInit /\ [][RequestNext]_requestVars

(* Calls of the library, the stores and the connection come back, if only with
   an error after their time; an instance is leased to everybody in turn.  The
   second is WF_requestVars(Engine) with its enabling condition written out. *)
Working == engine \notin {"idle", "over"} \/ \E s \in DOMAIN tasks : tasks[s] \in {"wait", "held"}
EngineGoesOn == <>[]Working => []<><<Engine>>_requestVars
FairRequestSpec == RequestSpec /\ WF_requestVars(Gateway) /\ EngineGoesOn

-----------------------------------------------------------------------------
(* A reader that is told of a complete answer was shown the whole of it, as it
   was generated, and it is this answer that is stored; no part of an answer
   that broke off ever is. *)
AnswerIsWhole ==
    /\ {"exchange", "history"} \cap rows # {} => recorded = parts
    /\ told = "done" /\ Asks("query") =>
           "history" \in rows /\ (ask.stream => shown = recorded)

(* When a reader has its answer no space is still at work for it, unless a call
   failed beside others or the connection broke. *)
QuietWhenTold == told # "nothing" /\ Working => faults > 0

(* Only a failing part makes a request fail, or a long conversation. *)
FailsForAReason == told \in {"unavailable", "failed"} => faults > 0 \/ TooLong

(* What the reader is told is true: the answer is there and whole, the work is
   over, and a failure has a cause. *)
ToldIsTrue == AnswerIsWhole /\ QuietWhenTold /\ FailsForAReason

(* The model is given text of the named documents only, within the limits,
   nothing twice, and no space is crowded out: another has at most one chunk
   more while a chunk of this one was left.  The answer cites each source of
   the prompt once, and no other. *)
EvidenceIsFair ==
    LET taken(s) == {i \in DOMAIN prompt : prompt[i].space = s}
        offered(s) == {<<c.doc, c.id>> : c \in {d \in ToSet(corpus[s].chunks) :
                          d.chars > 0 /\ InScope(d.doc, ask.docs)}}
        left(s) == offered(s) \ {<<prompt[i].doc, prompt[i].id>> : i \in DOMAIN prompt}
    IN  /\ \A i \in DOMAIN prompt : InScope(prompt[i].doc, ask.docs)
        /\ Together =>
               /\ Len(prompt) <= MaxChunks /\ Used(prompt) <= MaxChars
               /\ \A i, j \in DOMAIN prompt :
                      i # j => <<prompt[i].doc, prompt[i].id>> # <<prompt[j].doc, prompt[j].id>>
               /\ prompt # <<>> => \A s, t \in ToSet(Spaces) :
                      left(s) # {} => Cardinality(taken(t)) <= Cardinality(taken(s)) + 1
        /\ IsInjective(cited)
        /\ gate = "store" => {<<prompt[i].doc, prompt[i].id>> : i \in DOMAIN prompt} = ToSet(cited)

(* What a view or a search shows is in scope, within its limits, nothing twice,
   and every edge has both its ends. *)
ViewIsSound ==
    found # <<>> =>
        /\ \A row \in ToSet(found.nodes) \cup ToSet(found.edges) : AnyInScope(row.docs, ask.docs)
        /\ \A e \in ToSet(found.edges) : e.ends \subseteq {n.id : n \in ToSet(found.nodes)}
        /\ IsInjective(found.nodes) /\ IsInjective(found.edges)
        /\ Len(found.nodes) <= ask.window[1] /\ Len(found.edges) <= ask.window[2]

(* Every request ends, and no space stays leased to it, whoever failed or left. *)
Settles == <>[](gate = "over" /\ ~Working)

-----------------------------------------------------------------------------
(* A statement of a document that the code does not keep.  It is not checked: a
   run with it ends in the trace README.md tells.  A conversation of ten
   exchanges can be gone on with. *)
OnlyFaultsFail == told \in {"unavailable", "failed"} => faults > 0
=============================================================================

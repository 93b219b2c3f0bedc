------------------------------ MODULE ChatPage ------------------------------
(***************************************************************************)
(* A browser's conversation page (QAChat.tsx) and the service behind it    *)
(* (qa_service.py): questions that are asked in a session, sessions that   *)
(* are opened, and the gate by which late answers are told from current    *)
(* ones (latest-request.ts).  The page may be left and come back to while  *)
(* its requests run on; the connection of a request may break while the    *)
(* service goes on with it; the visitor may sign in, which moves what the  *)
(* visitor owned to the account (account_repository.py).                   *)
(*                                                                         *)
(* Requests are numbered in the order of their sending, and a session that *)
(* a request creates bears the number of that request; session 0, with     *)
(* message 0, is there from the start.  A selection is an engine together  *)
(* with its retrieval mode.  The messages view keeps one entry for a       *)
(* question and its answer; the text that streams in before the last event *)
(* is left out.                                                            *)
(***************************************************************************)
EXTENDS Naturals, SequencesExt

CONSTANTS
  Selections,    \* the engines with their modes
  Default,       \* what the page selects when it opens
  Visits,        \* the visits explored; one is chosen at the start
  NoSession      \* stands for the absent session

ASSUME SelectionsAssumption == Default \in Selections /\ NoSession \notin Nat

(* A visit bounds the requests sent, the generations of a gate and the     *)
(* times the page is opened, and tells whether the visitor may sign in.    *)
ASSUME VisitsAssumption ==
  Visits \subseteq [requests : Nat, generations : Nat, mounts : Nat \ {0}, signsIn : BOOLEAN]

VARIABLE visit

MaxRequests == visit.requests
MaxGeneration == visit.generations
MaxMounts == visit.mounts

Requests == 1..MaxRequests
Owners == {"visitor", "account"}
Entries == [question : 0..MaxRequests, text : {"waiting", "answered", "failed"}]

VARIABLES
  sessions,   \* the service's rows: session -> [owner, selection, messages]
  identity,   \* whom the browser's calls are made for
  prepared,   \* the identity the store has been made ready for
  shown,      \* the messages in view: they survive the page, in the store
  mount,      \* which opening of the page this is
  gate,       \* mount -> generation of its LatestRequestGate
  active,     \* activeSessionId
  selected,   \* engine and retrievalMode
  thinking,   \* isThinking
  requests    \* what was sent so far: a sequence of requests

vars == <<visit, sessions, identity, prepared, shown, mount, gate, active, selected, thinking, requests>>
page == <<mount, gate, active, selected, thinking>>

(***************************************************************************)
(* A request: its kind; the mount and generation whose token it holds; the *)
(* session and selection it was sent with; for whom; how far the service   *)
(* is (sent, asking, saved, failed), which copy of the session it works    *)
(* with, and the session its answer names; and how far the page is with    *)
(* the answer (waiting, done once the last event was dispatched, closed).  *)
(***************************************************************************)
Request(kind, session, owner) ==
  [kind |-> kind, mount |-> mount, token |-> gate[mount] + 1, session |-> session,
   selection |-> selected, owner |-> owner, service |-> "sent", copy |-> <<>>,
   answers |-> session, client |-> "waiting"]

(* Variant: a token is good as long as its page is on screen. *)
IsOfPage(r) == requests[r].mount = mount

IsCurrent(r) == requests[r].token = gate[requests[r].mount]
OnPage(r) == requests[r].mount = mount

Visible == {s \in DOMAIN sessions : sessions[s].owner = identity /\ sessions[s].messages # <<>>}

(* LatestRequestGate: begin and invalidate both advance the generation.     *)
Advance(m) ==
  /\ gate[m] < MaxGeneration
  /\ gate' = [gate EXCEPT ![m] = @ + 1]

Init ==
  /\ visit \in Visits
  /\ \E sel \in Selections :
       sessions = [s \in {0} |-> [owner |-> "visitor", selection |-> sel, messages |-> <<0>>]]
  /\ identity = "visitor" /\ prepared = "visitor"
  /\ shown = <<>>
  /\ mount = 1
  /\ gate = [m \in 1..MaxMounts |-> 0]
  /\ active = NoSession
  /\ selected = Default
  /\ thinking = FALSE
  /\ requests = <<>>

-----------------------------------------------------------------------------
(* The page *)

(* handleSend, up to the call of streamQuery. *)
HandleSend ==
  /\ ~thinking
  /\ Len(requests) < MaxRequests
  /\ requests' = Append(requests, Request("ask", active, identity))
  /\ Advance(mount)
  /\ thinking' = TRUE
  /\ shown' = Append(shown, [question |-> Len(requests) + 1, text |-> "waiting"])
  /\ UNCHANGED <<sessions, identity, mount, active, selected>>

(* handleLoadSession, up to the call of getQuerySession. *)
HandleLoadSession(s) ==
  /\ Len(requests) < MaxRequests
  /\ requests' = Append(requests, Request("load", s, identity))
  /\ Advance(mount)
  /\ active' = s
  /\ thinking' = FALSE
  /\ UNCHANGED <<sessions, identity, shown, mount, selected>>

HandleNewChat ==
  /\ Advance(mount)
  /\ selected' = Default
  /\ shown' = <<>>
  /\ active' = NoSession
  /\ thinking' = FALSE
  /\ UNCHANGED <<sessions, identity, mount, requests>>

(* What startWithSelection and the effect on the address bar share: a new  *)
(* selection starts a new conversation, if there is one.                   *)
SelectionStarts(sel) ==
  /\ Advance(mount)
  /\ selected' = sel
  /\ IF active # NoSession \/ shown # <<>>
     THEN shown' = <<>> /\ active' = NoSession /\ thinking' = FALSE
     ELSE UNCHANGED <<shown, active, thinking>>
  /\ UNCHANGED <<sessions, identity, mount, requests>>

StartWithSelection(sel) == ~thinking /\ SelectionStarts(sel)

SelectByAddress(sel) == sel # selected /\ SelectionStarts(sel)

(* The page is left and opened again, by a link that may name a selection: *)
(* its own state starts anew, and the messages are still in the store.     *)
Reopen(sel) ==
  /\ mount < MaxMounts
  /\ mount' = mount + 1
  /\ active' = NoSession
  /\ thinking' = FALSE
  /\ selected' = sel
  /\ IF sel # Default
     THEN Advance(mount + 1) /\ shown' = <<>>
     ELSE UNCHANGED <<gate, shown>>
  /\ UNCHANGED <<sessions, identity, requests>>

-----------------------------------------------------------------------------
(* The service *)

(* Variant: a session of another engine is not refused. *)
MismatchOfOwner(r, s) == s \notin DOMAIN sessions \/ sessions[s].owner # requests[r].owner

Mismatch(r, s) ==
  \/ s \notin DOMAIN sessions
  \/ sessions[s].owner # requests[r].owner
  \/ sessions[s].selection # requests[r].selection

(* The session of a question that was sent without one. *)
Created(r) == r \in DOMAIN sessions

(* run_query and stream_lightrag_query, up to the call of the engine.      *)
QueryBegins(r) ==
  /\ requests[r].kind = "ask" /\ requests[r].service = "sent"
  /\ LET s == requests[r].session IN
     requests' = IF s # NoSession /\ Mismatch(r, s)
                 THEN [requests EXCEPT ![r].service = "failed"]
                 ELSE [requests EXCEPT ![r].service = "asking",
                        ![r].copy = IF s = NoSession THEN <<>> ELSE sessions[s].messages]
  /\ UNCHANGED <<sessions, identity, shown, page>>

(* The engine fails, or a save after it, of a new session or of the answer. *)
QueryFails(r) ==
  /\ requests[r].kind = "ask" /\ requests[r].service = "asking"
  /\ requests' = [requests EXCEPT ![r].service = "failed"]
  /\ UNCHANGED <<sessions, identity, shown, page>>

(* save_chat_session writes the whole session, and not over another        *)
(* owner's row.                                                            *)
SaveChatSession(s, row) ==
  IF s \in DOMAIN sessions /\ sessions[s].owner # row.owner
  THEN sessions
  ELSE [t \in DOMAIN sessions \cup {s} |-> IF t = s THEN row ELSE sessions[t]]

(* _persist_completed_query: a question without a session creates one, saves *)
(* it empty, and saves it again with the answer.                           *)
CreateSession(r) ==
  /\ requests[r].kind = "ask" /\ requests[r].service = "asking"
  /\ requests[r].session = NoSession /\ ~Created(r)
  /\ sessions' = SaveChatSession(r, [owner |-> requests[r].owner,
                                     selection |-> requests[r].selection, messages |-> <<>>])
  /\ UNCHANGED <<identity, shown, page, requests>>

(* A session keeps the selection it was created with. *)
SelectionOf(r) ==
  IF requests[r].session = NoSession THEN requests[r].selection
  ELSE sessions[requests[r].session].selection

PersistQuery(r) ==
  /\ requests[r].kind = "ask" /\ requests[r].service = "asking"
  /\ requests[r].session = NoSession => Created(r)
  /\ LET s == IF requests[r].session = NoSession THEN r ELSE requests[r].session IN
     /\ sessions' = SaveChatSession(s, [owner |-> requests[r].owner,
                                        selection |-> SelectionOf(r),
                                        messages |-> Append(requests[r].copy, r)])
     /\ requests' = [requests EXCEPT ![r].service = "saved", ![r].answers = s]
  /\ UNCHANGED <<identity, shown, page>>

(* get_session, whose answer is a copy of the row. *)
ReadSession(r) ==
  /\ requests[r].kind = "load" /\ requests[r].service = "sent"
  /\ LET s == requests[r].session IN
     requests' = IF s \in DOMAIN sessions /\ sessions[s].owner = requests[r].owner
                 THEN [requests EXCEPT ![r].service = "saved", ![r].copy = sessions[s].messages,
                                       ![r].selection = sessions[s].selection]
                 ELSE [requests EXCEPT ![r].service = "failed"]
  /\ UNCHANGED <<sessions, identity, shown, page>>

-----------------------------------------------------------------------------
(* Answers *)

Marked(r, text) ==
  [i \in DOMAIN shown |->
     IF shown[i].question = r /\ shown[i].text # "answered"
     THEN [shown[i] EXCEPT !.text = text] ELSE shown[i]]

(* The done event of a stream. *)
AnswerDone(r) ==
  /\ requests[r].kind = "ask" /\ requests[r].client = "waiting" /\ requests[r].service = "saved"
  /\ requests' = [requests EXCEPT ![r].client = "done"]
  /\ IF IsCurrent(r)
     THEN /\ shown' = Marked(r, "answered")
          /\ active' = IF OnPage(r) THEN requests[r].answers ELSE active
     ELSE UNCHANGED <<shown, active>>
  /\ UNCHANGED <<sessions, identity, mount, gate, selected, thinking>>

(* The finally block: a state setter of a page that was left does nothing. *)
(* Variant: the finally block looks at the gate no more than the page does. *)
StopsThinkingAlways(r) == thinking' = FALSE

(* Variant: the input is unlocked by the stream's last event only. *)
StopsThinkingWhenDone(r) == thinking' = IF IsCurrent(r) /\ OnPage(r) /\ requests[r].client = "done" THEN FALSE ELSE thinking

StopsThinking(r) == thinking' = IF IsCurrent(r) /\ OnPage(r) THEN FALSE ELSE thinking

StreamEnds(r) ==
  /\ requests[r].kind = "ask" /\ requests[r].client = "done"
  /\ requests' = [requests EXCEPT ![r].client = "closed"]
  /\ StopsThinking(r)
  /\ UNCHANGED <<sessions, identity, shown, mount, gate, active, selected>>

(* The error event, or a broken connection, of which the service knows     *)
(* nothing.                                                                *)
StreamFails(r) ==
  /\ requests[r].kind = "ask" /\ requests[r].client = "waiting"
  /\ requests' = [requests EXCEPT ![r].client = "closed"]
  /\ shown' = IF IsCurrent(r) THEN Marked(r, "failed") ELSE shown
  /\ StopsThinking(r)
  /\ UNCHANGED <<sessions, identity, mount, gate, active, selected>>

Loaded(messages) == [i \in DOMAIN messages |-> [question |-> messages[i], text |-> "answered"]]

(* The rest of handleLoadSession, after the answer. *)
SessionLoaded(r) ==
  /\ requests[r].kind = "load" /\ requests[r].client = "waiting" /\ requests[r].service = "saved"
  /\ requests' = [requests EXCEPT ![r].client = "closed"]
  /\ IF IsCurrent(r)
     THEN /\ shown' = Loaded(requests[r].copy)
          /\ selected' = IF OnPage(r) THEN requests[r].selection ELSE selected
     ELSE UNCHANGED <<shown, selected>>
  /\ UNCHANGED <<sessions, identity, mount, gate, active, thinking>>

LoadFails(r) ==
  /\ requests[r].kind = "load" /\ requests[r].client = "waiting"
  /\ requests' = [requests EXCEPT ![r].client = "closed"]
  /\ UNCHANGED <<sessions, identity, shown, page>>

-----------------------------------------------------------------------------
(* Signing in (auth.tsx, store.tsx, claim_visitor_data): the store empties *)
(* the view, and the claim, which may fail, moves the visitor's rows; when *)
(* its call is over the store empties the view again and fetches anew.     *)
SignIn ==
  /\ visit.signsIn /\ identity = "visitor"
  /\ identity' = "account"
  /\ shown' = <<>>
  /\ UNCHANGED <<sessions, page, requests>>

ClaimVisitorData ==
  /\ identity = "account"
  /\ \E s \in DOMAIN sessions : sessions[s].owner = "visitor"
  /\ sessions' = [s \in DOMAIN sessions |-> [sessions[s] EXCEPT !.owner = "account"]]
  /\ UNCHANGED <<identity, shown, page, requests>>

IdentityReady ==
  /\ prepared # identity
  /\ prepared' = identity
  /\ shown' = <<>>
  /\ UNCHANGED <<sessions, identity, page, requests>>

User ==
  \/ HandleSend
  \/ HandleNewChat
  \/ \E s \in Visible : HandleLoadSession(s)
  \/ \E sel \in Selections : StartWithSelection(sel) \/ SelectByAddress(sel) \/ Reopen(sel)
  \/ SignIn
  \/ ClaimVisitorData

Service(r) ==
  QueryBegins(r) \/ QueryFails(r) \/ CreateSession(r) \/ PersistQuery(r) \/ ReadSession(r)
Answer(r) == AnswerDone(r) \/ StreamEnds(r) \/ StreamFails(r) \/ SessionLoaded(r) \/ LoadFails(r)

Next ==
  /\ \/ (User \/ \E r \in DOMAIN requests : Service(r) \/ Answer(r)) /\ UNCHANGED prepared
     \/ IdentityReady
  /\ UNCHANGED visit

(* Every connection comes to an end: with its last event or by breaking.   *)
MostRequests == CHOOSE n \in {v.requests : v \in Visits} : \A v \in Visits : v.requests =< n
Fairness == \A r \in 1..MostRequests : WF_vars(r \in DOMAIN requests /\ Answer(r) /\ UNCHANGED <<visit, prepared>>)

Spec == Init /\ [][Next]_vars
FairSpec == Spec /\ Fairness

-----------------------------------------------------------------------------
TypeOK ==
  /\ visit \in Visits
  /\ DOMAIN sessions \subseteq 0..MaxRequests
  /\ \A s \in DOMAIN sessions :
       /\ sessions[s].owner \in Owners
       /\ sessions[s].selection \in Selections
       /\ sessions[s].messages \in Seq(0..MaxRequests)
  /\ identity \in Owners /\ prepared \in Owners
  /\ shown \in Seq(Entries)
  /\ mount \in 1..MaxMounts
  /\ gate \in [1..MaxMounts -> 0..MaxGeneration]
  /\ active \in {NoSession} \cup DOMAIN sessions
  /\ selected \in Selections
  /\ thinking \in BOOLEAN
  /\ Len(requests) \in 0..MaxRequests

(* A question the page on screen still waits for and has not turned from. *)
Awaited(r) ==
  /\ requests[r].kind = "ask" /\ requests[r].client # "closed"
  /\ OnPage(r) /\ IsCurrent(r)

LoadsAreOfPage == \A r \in DOMAIN requests : requests[r].kind = "load" => OnPage(r)
Locked == thinking /\ shown # <<>> /\ LoadsAreOfPage

(* The input is locked exactly while a question is awaited, and that       *)
(* question stands at the end of the view.  The second half is said of     *)
(* views that are not empty (signing in empties a view under its question) *)
(* and that no load of an earlier opening of the page can fill.            *)
SpinnerIsTrue ==
  /\ \A r \in DOMAIN requests : Awaited(r) => thinking
  /\ Locked =>
       \E r \in DOMAIN requests : Awaited(r) /\ Last(shown).question = r

(* All questions of a session were asked with the engine and mode that the *)
(* session was created with, whatever the page had selected when they were *)
(* sent.                                                                   *)
OneSelectionPerSession ==
  \A s \in DOMAIN sessions : \A q \in Range(sessions[s].messages) \ {0} :
    requests[q].selection = sessions[s].selection

(* A saved answer is missing from its session only if another question of  *)
(* that session was being answered meanwhile (it began before the save and *)
(* its own save came later), or if the session changed hands meanwhile.    *)
LostOnlyByOverlap ==
  \A r \in DOMAIN requests :
    LET s == requests[r].answers IN
    requests[r].kind = "ask" /\ requests[r].service = "saved" /\ s \in DOMAIN sessions
      /\ ~Contains(sessions[s].messages, r)
    => \/ requests[r].owner # sessions[s].owner
       \/ \E p \in Range(sessions[s].messages) \ {0, r} :
            requests[p].answers = s /\ ~Contains(requests[p].copy, r)

(* No question stands twice in a view or in a session, though an answer    *)
(* reaches the page by two ways, its own stream and a load of the session. *)
AskedOnce ==
  /\ IsInjective([i \in DOMAIN shown |-> shown[i].question])
  /\ \A s \in DOMAIN sessions : IsInjective(sessions[s].messages)

(* What the sessions hold is what was asked in them. *)
SessionsAreTrue == TypeOK /\ OneSelectionPerSession /\ LostOnlyByOverlap /\ AskedOnce

(* Every selection advances the gate: an answered load of the page on      *)
(* screen fills the view only while its session is the one selected.       *)
LatestSelectionOfPage ==
  [][\A r \in DOMAIN requests :
       SessionLoaded(r) /\ IsCurrent(r) /\ OnPage(r) => requests[r].session = active]_vars

(* The input does not stay locked behind a question in view. *)
ThinkingEnds == Locked ~> ~Locked
-----------------------------------------------------------------------------
(* Statements of comments and documents that the code does not keep.  They are
   not checked: a run with one of them ends in the trace README.md tells. *)

(* latest-request.ts: "Every navigation/conversation transition advances   *)
(* the gate", so that an answered load fills the view only while its       *)
(* session is the one selected.                                            *)
LatestSelection ==
  [][\A r \in DOMAIN requests :
       SessionLoaded(r) /\ IsCurrent(r) => requests[r].session = active]_vars
=============================================================================

------------------------------ MODULE ChatPageProof ------------------------------
(***************************************************************************)
(* Proofs about ChatPage for any number of requests, openings of the page  *)
(* and selections: the lock of the input tells the truth, the sessions     *)
(* hold what was asked in them, and a load fills the view of its own       *)
(* session only.                                                           *)
(***************************************************************************)
EXTENDS ChatPage, TLAPS

(* The types the arguments below rest on. *)
Services == {"sent", "asking", "saved", "failed"}
Asked == [kind : {"ask", "load"}, mount : Nat, token : Nat, session : Nat \cup {NoSession},
          selection : Selections, owner : Owners, service : Services, copy : Seq(Nat),
          answers : Nat \cup {NoSession}, client : {"waiting", "done", "closed"}]
Kept == [owner : Owners, selection : Selections, messages : Seq(Nat)]
Shown == [question : Nat, text : {"waiting", "answered", "failed"}]

Sent == DOMAIN requests
Typed ==
  /\ visit \in Visits
  /\ requests \in Seq(Asked) /\ Len(requests) <= MaxRequests
  /\ \A r \in Sent : requests[r].session \in {NoSession} \cup DOMAIN sessions
  /\ \A s \in DOMAIN sessions : s \in {0} \cup Sent /\ sessions[s] \in Kept
  /\ identity \in Owners /\ prepared \in Owners
  /\ shown \in Seq(Shown) /\ \A i \in DOMAIN shown : shown[i].question \in {0} \cup Sent
  /\ mount \in 1..MaxMounts
  /\ gate \in [1..MaxMounts -> 0..MaxGeneration]
  /\ active \in {NoSession} \cup DOMAIN sessions
  /\ selected \in Selections
  /\ thinking \in BOOLEAN

-----------------------------------------------------------------------------
(* The gate.  A token is given once. *)
Tokens ==
  /\ \A r \in Sent : requests[r].mount \in 1..mount /\ requests[r].token \in 1..gate[requests[r].mount]
  /\ \A q, r \in Sent :
       requests[q].mount = requests[r].mount /\ requests[q].token = requests[r].token => q = r

(* The page on screen hears a request whose token is current.  A load that it
   hears is of the active session, and the input is unlocked. *)
Heard(r) == OnPage(r) /\ IsCurrent(r)
LoadsFillTheirOwn ==
  \A r \in Sent : requests[r].kind = "load" /\ Heard(r) => requests[r].session = active /\ ~thinking

-----------------------------------------------------------------------------
(* The sessions.  A question without a session makes one. *)
Home(r) == IF requests[r].session = NoSession THEN r ELSE requests[r].session
Saved(r) == requests[r].kind = "ask" /\ requests[r].service = "saved"
Accepted(r) == requests[r].kind = "ask" /\ requests[r].service \in {"asking", "saved"}
Begun(r) == requests[r].kind = "ask" /\ requests[r].service # "sent"

(* Messages of a session: saved questions that were asked in it, each once. *)
MessagesOf(s, messages) ==
  /\ IsInjective(messages)
  /\ \A i \in DOMAIN messages :
       messages[i] # 0 => messages[i] \in Sent /\ Saved(messages[i]) /\ Home(messages[i]) = s

Written ==
  /\ \A s \in DOMAIN sessions :
       /\ MessagesOf(s, sessions[s].messages)
       /\ s # 0 => Begun(s) /\ requests[s].session = NoSession
  /\ \A r \in Sent :
       LET s == requests[r].session IN
       IF s = NoSession THEN requests[r].kind = "ask" /\ requests[r].copy = <<>>
       ELSE MessagesOf(s, requests[r].copy)

(* A question that was accepted agrees with its session, in its selection and,
   unless the visitor has signed in meanwhile, in its owner. *)
Matching ==
  \A r \in Sent :
    /\ Saved(r) => requests[r].answers = Home(r) /\ Home(r) \in DOMAIN sessions
    /\ Accepted(r) /\ Home(r) \in DOMAIN sessions =>
         /\ requests[r].selection = sessions[Home(r)].selection
         /\ requests[r].owner = "account" => sessions[Home(r)].owner = "account"

(* No question stands twice in the view. *)
Once == IsInjective([i \in DOMAIN shown |-> shown[i].question])

(* The two inductive invariants; the second rests on the types of the first. *)
Sound == Typed /\ Written /\ Matching /\ LostOnlyByOverlap /\ Once
Told == Tokens /\ LoadsFillTheirOwn /\ SpinnerIsTrue

-----------------------------------------------------------------------------
(* A visit, and the steps by what they do to the list of requests. *)

LEMMA VisitTypes ==
    ASSUME visit \in Visits
    PROVE  /\ MaxRequests \in Nat /\ MaxGeneration \in Nat /\ MaxMounts \in Nat \ {0}
           /\ visit.signsIn \in BOOLEAN
  BY VisitsAssumption DEF MaxRequests, MaxGeneration, MaxMounts

(* A new request is sent. *)
Sends(new) == requests' = Append(requests, new)

LEMMA SendsOne ==
    ASSUME Typed, NEW new \in Asked, Sends(new)
    PROVE  /\ requests' \in Seq(Asked) /\ Len(requests') = Len(requests) + 1
           /\ Len(requests) + 1 \notin Sent /\ Sent' = Sent \cup {Len(requests) + 1}
           /\ \A q \in Sent : requests'[q] = requests[q]
           /\ requests'[Len(requests) + 1] = new
  BY DEF Typed, Sends, Sent

(* One request goes on; who sent it, where and from which session stays. *)
GoesOn(r, x) ==
    /\ Sent' = Sent /\ requests'[r] = x
    /\ \A q \in Sent : q # r => requests'[q] = requests[q]

LEMMA ChangesOne ==
    ASSUME Typed, NEW r \in Sent, NEW x \in Asked, requests' = [requests EXCEPT ![r] = x]
    PROVE  requests' \in Seq(Asked) /\ Len(requests') = Len(requests) /\ GoesOn(r, x)
<1>1. requests \in Seq(Asked) /\ Sent = 1..Len(requests)
  BY DEF Typed, Sent
<1>2. requests' \in Seq(Asked) /\ Len(requests') = Len(requests)
  BY <1>1
<1> QED
  BY <1>1, <1>2 DEF GoesOn, Sent

LEMMA SentInNat ==
    ASSUME Typed
    PROVE  /\ Sent = 1..Len(requests) /\ Len(requests) \in Nat /\ Sent \subseteq Nat /\ 0 \notin Sent
           /\ NoSession \notin Nat /\ DOMAIN sessions \subseteq Nat
           /\ \A r \in Sent : requests[r] \in Asked
  BY SelectionsAssumption DEF Typed, Sent

LEMMA InitTyped == Init => Typed
<1> SUFFICES ASSUME Init PROVE Typed
  OBVIOUS
<1>1. visit \in Visits /\ MaxRequests \in Nat /\ MaxGeneration \in Nat /\ MaxMounts \in Nat \ {0}
  BY VisitTypes DEF Init
<1>2. PICK sel \in Selections :
        sessions = [s \in {0} |-> [owner |-> "visitor", selection |-> sel, messages |-> <<0>>]]
  BY DEF Init
<1>3. DOMAIN sessions = {0} /\ sessions[0] = [owner |-> "visitor", selection |-> sel, messages |-> <<0>>]
  BY <1>2
<1>4. <<0>> \in Seq(Nat)
  OBVIOUS
<1>5. sessions[0] \in Kept
  BY <1>3, <1>4 DEF Kept, Owners
<1>6. gate \in [1..MaxMounts -> 0..MaxGeneration] /\ mount \in 1..MaxMounts
  BY <1>1 DEF Init
<1>7. requests = <<>> /\ shown = <<>> /\ active = NoSession /\ selected = Default /\ thinking = FALSE
      /\ identity = "visitor" /\ prepared = "visitor"
  BY DEF Init
<1>8. requests \in Seq(Asked) /\ Len(requests) = 0 /\ shown \in Seq(Shown) /\ DOMAIN shown = {}
  BY <1>7
<1>9. /\ \A s \in DOMAIN sessions : s \in {0} \cup Sent /\ sessions[s] \in Kept
      /\ \A i \in DOMAIN shown : shown[i].question \in {0} \cup Sent
  BY <1>3, <1>5, <1>8
<1>10. identity \in Owners /\ prepared \in Owners /\ active \in {NoSession} \cup DOMAIN sessions /\ selected \in Selections
       /\ thinking \in BOOLEAN
  BY <1>7, SelectionsAssumption DEF Owners
<1>11. Len(requests) <= MaxRequests
  BY <1>1, <1>8
<1>12. Sent = {}
  BY <1>8 DEF Sent
<1> QED
  BY <1>1, <1>6, <1>8, <1>9, <1>10, <1>11, <1>12 DEF Typed

LEMMA NewRequest ==
    ASSUME Typed, NEW kind \in {"ask", "load"}, NEW s \in {NoSession} \cup DOMAIN sessions
    PROVE  LET new == Request(kind, s, identity) IN
           /\ new \in Asked
           /\ new.kind = kind /\ new.mount = mount /\ new.token = gate[mount] + 1 /\ new.session = s
           /\ new.selection = selected /\ new.service = "sent" /\ new.copy = <<>>
           /\ new.client = "waiting"
<1>1. mount \in Nat /\ gate[mount] + 1 \in Nat
  BY VisitTypes DEF Typed
<1>2. <<>> \in Seq(Nat) /\ s \in Nat \cup {NoSession}
  BY SentInNat
<1> QED
  BY <1>1, <1>2 DEF Request, Asked, Services, Typed

LEMMA AdvanceTypes ==
    ASSUME Typed, NEW m \in 1..MaxMounts, Advance(m)
    PROVE  /\ gate' \in [1..MaxMounts -> 0..MaxGeneration] /\ gate'[m] = gate[m] + 1
           /\ \A n \in 1..MaxMounts : n # m => gate'[n] = gate[n]
<1>1. MaxGeneration \in Nat /\ gate \in [1..MaxMounts -> 0..MaxGeneration]
  BY VisitTypes DEF Typed
<1>2. gate[m] \in 0..MaxGeneration /\ gate[m] < MaxGeneration
  BY <1>1 DEF Advance
<1>3. gate[m] + 1 \in 0..MaxGeneration
  BY <1>1, <1>2
<1> QED
  BY <1>1, <1>3 DEF Advance

(* What no answer and no step of the service changes of a request. *)
SameSender(r) ==
    /\ requests'[r].kind = requests[r].kind /\ requests'[r].mount = requests[r].mount
    /\ requests'[r].token = requests[r].token /\ requests'[r].session = requests[r].session
    /\ requests'[r].owner = requests[r].owner
Progress(r) ==
    /\ Sent' = Sent /\ requests' \in Seq(Asked) /\ Len(requests') = Len(requests)
    /\ \A q \in Sent : q # r => requests'[q] = requests[q]
    /\ SameSender(r)
Accepts(r, copy) ==
    /\ requests'[r].service = "asking" /\ requests'[r].copy = copy
    /\ requests'[r].selection = requests[r].selection /\ requests'[r].answers = requests[r].answers
Refuses(r) ==
    /\ requests'[r].service = "failed" /\ requests'[r].copy = requests[r].copy
    /\ requests'[r].selection = requests[r].selection /\ requests'[r].answers = requests[r].answers

LEMMA ProgressOf ==
    ASSUME Typed, NEW r \in Sent, NEW x \in Asked, requests' = [requests EXCEPT ![r] = x],
           x.kind = requests[r].kind, x.mount = requests[r].mount, x.token = requests[r].token,
           x.session = requests[r].session, x.owner = requests[r].owner
    PROVE  Progress(r) /\ requests'[r] = x
<1>1. requests' \in Seq(Asked) /\ Len(requests') = Len(requests) /\ GoesOn(r, x)
  BY ChangesOne
<1> QED
  BY <1>1 DEF GoesOn, Progress, SameSender

LEMMA QueryBeginsStep ==
    ASSUME Typed, NEW r \in Sent, QueryBegins(r)
    PROVE  /\ Progress(r) /\ requests'[r].client = requests[r].client
           /\ requests[r].session # NoSession /\ Mismatch(r, requests[r].session) => Refuses(r)
           /\ ~(requests[r].session # NoSession /\ Mismatch(r, requests[r].session)) =>
                  Accepts(r, IF requests[r].session = NoSession THEN <<>>
                             ELSE sessions[requests[r].session].messages)
<1> DEFINE s == requests[r].session
           x == [requests[r] EXCEPT !.service = "failed"]
           y == [requests[r] EXCEPT !.service = "asking",
                     !.copy = IF s = NoSession THEN <<>> ELSE sessions[s].messages]
<1>1. requests[r] \in Asked
  BY SentInNat
<1>2. CASE s # NoSession /\ Mismatch(r, s)
  <2>1. requests' = [requests EXCEPT ![r] = x]
    BY <1>2 DEF QueryBegins
  <2>2. x \in Asked
    BY <1>1 DEF Asked, Services
  <2>3. /\ x.kind = requests[r].kind /\ x.mount = requests[r].mount /\ x.token = requests[r].token
        /\ x.session = requests[r].session /\ x.owner = requests[r].owner
        /\ x.service = "failed"
        /\ x.client = requests[r].client
        /\ x.copy = requests[r].copy
        /\ x.answers = requests[r].answers
        /\ x.selection = requests[r].selection
    BY <1>1 DEF Asked
  <2> HIDE DEF x
  <2> QED
    BY <1>2, <2>1, <2>2, <2>3, ProgressOf DEF Refuses
<1>3. CASE ~(s # NoSession /\ Mismatch(r, s))
  <2>1. requests' = [requests EXCEPT ![r] = y]
    BY <1>3 DEF QueryBegins
  <2>2. (IF s = NoSession THEN <<>> ELSE sessions[s].messages) \in Seq(Nat)
    BY <1>3 DEF Mismatch, Typed, Kept
  <2>3. y \in Asked
    BY <1>1, <2>2 DEF Asked, Services
  <2>4. /\ y.kind = requests[r].kind /\ y.mount = requests[r].mount /\ y.token = requests[r].token
        /\ y.session = requests[r].session /\ y.owner = requests[r].owner
        /\ y.service = "asking"
        /\ y.client = requests[r].client
        /\ y.answers = requests[r].answers
        /\ y.selection = requests[r].selection
        /\ y.copy = IF s = NoSession THEN <<>> ELSE sessions[s].messages
    BY <1>1 DEF Asked
  <2> HIDE DEF y
  <2> QED
    BY <1>3, <2>1, <2>3, <2>4, ProgressOf DEF Accepts
<1> QED
  BY <1>2, <1>3

LEMMA QueryFailsStep ==
    ASSUME Typed, NEW r \in Sent, QueryFails(r)
    PROVE  Progress(r) /\ requests'[r].client = requests[r].client /\ Refuses(r)
<1> DEFINE x == [requests[r] EXCEPT !.service = "failed"]
<1>1. requests[r] \in Asked /\ requests' = [requests EXCEPT ![r] = x]
  BY SentInNat DEF QueryFails
<1>2. x \in Asked
  BY <1>1 DEF Asked, Services
<1>3. /\ x.kind = requests[r].kind /\ x.mount = requests[r].mount /\ x.token = requests[r].token
      /\ x.session = requests[r].session /\ x.owner = requests[r].owner
      /\ x.service = "failed"
      /\ x.client = requests[r].client
      /\ x.copy = requests[r].copy
      /\ x.answers = requests[r].answers
      /\ x.selection = requests[r].selection
  BY <1>1 DEF Asked
<1> HIDE DEF x
<1> QED
  BY <1>1, <1>2, <1>3, ProgressOf DEF Refuses

LEMMA PersistQueryStep ==
    ASSUME Typed, NEW r \in Sent, PersistQuery(r)
    PROVE  /\ Progress(r) /\ requests'[r].client = requests[r].client
           /\ requests'[r].service = "saved" /\ requests'[r].answers = Home(r)
           /\ requests'[r].copy = requests[r].copy /\ requests'[r].selection = requests[r].selection
<1> DEFINE x == [requests[r] EXCEPT !.service = "saved", !.answers = Home(r)]
<1>1. requests[r] \in Asked /\ requests' = [requests EXCEPT ![r] = x]
  BY SentInNat DEF PersistQuery, Home
<1>2. Home(r) \in Nat
  BY <1>1, SentInNat DEF Home, Asked
<1>3. x \in Asked
  BY <1>1, <1>2 DEF Asked, Services
<1>4. /\ x.kind = requests[r].kind /\ x.mount = requests[r].mount /\ x.token = requests[r].token
      /\ x.session = requests[r].session /\ x.owner = requests[r].owner
      /\ x.service = "saved"
      /\ x.client = requests[r].client
      /\ x.copy = requests[r].copy
      /\ x.selection = requests[r].selection
      /\ x.answers = Home(r)
  BY <1>1 DEF Asked
<1> HIDE DEF x
<1> QED
  BY <1>1, <1>3, <1>4, ProgressOf

LEMMA CreateSessionStep ==
    ASSUME Typed, NEW r \in Sent, CreateSession(r)
    PROVE  Progress(r) /\ requests' = requests
  BY DEF CreateSession, Progress, SameSender, Typed, Sent

LEMMA ReadSessionStep ==
    ASSUME Typed, NEW r \in Sent, ReadSession(r)
    PROVE  /\ Progress(r) /\ requests'[r].client = requests[r].client
           /\ requests'[r].answers = requests[r].answers
           /\ \/ Refuses(r)
              \/ /\ requests[r].session \in DOMAIN sessions
                 /\ requests'[r].copy = sessions[requests[r].session].messages
<1> DEFINE s == requests[r].session
           x == [requests[r] EXCEPT !.service = "failed"]
           y == [requests[r] EXCEPT !.service = "saved", !.copy = sessions[s].messages,
                                    !.selection = sessions[s].selection]
<1>1. requests[r] \in Asked
  BY SentInNat
<1>2. CASE s \in DOMAIN sessions /\ sessions[s].owner = requests[r].owner
  <2>1. requests' = [requests EXCEPT ![r] = y]
    BY <1>2 DEF ReadSession
  <2>2. y \in Asked
    BY <1>1, <1>2 DEF Asked, Services, Typed, Kept
  <2>3. /\ y.kind = requests[r].kind /\ y.mount = requests[r].mount /\ y.token = requests[r].token
        /\ y.session = requests[r].session /\ y.owner = requests[r].owner
        /\ y.service = "saved"
        /\ y.client = requests[r].client
        /\ y.answers = requests[r].answers
        /\ y.copy = sessions[s].messages
    BY <1>1 DEF Asked
  <2> HIDE DEF y
  <2> QED
    BY <1>2, <2>1, <2>2, <2>3, ProgressOf
<1>3. CASE ~(s \in DOMAIN sessions /\ sessions[s].owner = requests[r].owner)
  <2>1. requests' = [requests EXCEPT ![r] = x]
    BY <1>3 DEF ReadSession
  <2>2. x \in Asked
    BY <1>1 DEF Asked, Services
  <2>3. /\ x.kind = requests[r].kind /\ x.mount = requests[r].mount /\ x.token = requests[r].token
        /\ x.session = requests[r].session /\ x.owner = requests[r].owner
        /\ x.service = "failed"
        /\ x.client = requests[r].client
        /\ x.copy = requests[r].copy
        /\ x.answers = requests[r].answers
        /\ x.selection = requests[r].selection
    BY <1>1 DEF Asked
  <2> HIDE DEF x
  <2> QED
    BY <2>1, <2>2, <2>3, ProgressOf DEF Refuses
<1> QED
  BY <1>2, <1>3

(* An answer changes how far the page is, and nothing of the service. *)
Arrives(r, client) ==
    /\ Progress(r) /\ requests'[r].client = client
    /\ requests'[r].service = requests[r].service /\ requests'[r].copy = requests[r].copy
    /\ requests'[r].selection = requests[r].selection /\ requests'[r].answers = requests[r].answers

LEMMA ArrivesAs ==
    ASSUME Typed, NEW r \in Sent, NEW how \in {"done", "closed"},
           requests' = [requests EXCEPT ![r].client = how]
    PROVE  Arrives(r, how)
<1> DEFINE x == [requests[r] EXCEPT !.client = how]
<1>1. requests[r] \in Asked /\ requests' = [requests EXCEPT ![r] = x]
  BY SentInNat
<1>2. x \in Asked
  BY <1>1 DEF Asked
<1>3. /\ x.kind = requests[r].kind /\ x.mount = requests[r].mount /\ x.token = requests[r].token
      /\ x.session = requests[r].session /\ x.owner = requests[r].owner
      /\ x.client = how
      /\ x.service = requests[r].service
      /\ x.copy = requests[r].copy
      /\ x.selection = requests[r].selection
      /\ x.answers = requests[r].answers
  BY <1>1 DEF Asked
<1> HIDE DEF x
<1> QED
  BY <1>1, <1>2, <1>3, ProgressOf DEF Arrives

LEMMA AnswerStep ==
    ASSUME Typed, NEW r \in Sent, Answer(r)
    PROVE  /\ Progress(r)
           /\ AnswerDone(r) => Arrives(r, "done")
           /\ ~AnswerDone(r) => Arrives(r, "closed")
           /\ StreamEnds(r) \/ StreamFails(r) => Arrives(r, "closed")
<1>1. AnswerDone(r) => Arrives(r, "done")
  BY ArrivesAs DEF AnswerDone
<1>2. StreamEnds(r) \/ StreamFails(r) \/ SessionLoaded(r) \/ LoadFails(r) => Arrives(r, "closed")
  BY ArrivesAs DEF StreamEnds, StreamFails, SessionLoaded, LoadFails
<1> QED
  BY <1>1, <1>2 DEF Answer, Arrives

(* The service saves the whole session, unless it is another's by now. *)
Stores(r) ==
    /\ DOMAIN sessions' = DOMAIN sessions \cup {Home(r)}
    /\ \A t \in DOMAIN sessions : t # Home(r) => sessions'[t] = sessions[t]
    /\ sessions'[Home(r)].owner = requests[r].owner
    /\ sessions'[Home(r)].selection = SelectionOf(r)
    /\ sessions'[Home(r)].messages = Append(requests[r].copy, r)
    /\ Home(r) \in DOMAIN sessions => sessions[Home(r)].owner = requests[r].owner
Declines(r) ==
    /\ Home(r) \in DOMAIN sessions /\ sessions[Home(r)].owner # requests[r].owner
    /\ sessions' = sessions

LEMMA PersistQuerySessions ==
    ASSUME Typed, NEW r \in Sent, PersistQuery(r)
    PROVE  /\ Stores(r) \/ Declines(r)
           /\ \A s \in DOMAIN sessions' : s \in {0} \cup Sent /\ sessions'[s] \in Kept
           /\ DOMAIN sessions \subseteq DOMAIN sessions' /\ Home(r) \in DOMAIN sessions'
<1> DEFINE s == Home(r)
           row == [owner |-> requests[r].owner, selection |-> SelectionOf(r),
                   messages |-> Append(requests[r].copy, r)]
<1>1. sessions' = SaveChatSession(s, row)
  BY DEF PersistQuery, Home
<1>2. requests[r] \in Asked /\ r \in Nat /\ s \in {0} \cup Sent
  BY SentInNat DEF Typed, Home
<1>3. SelectionOf(r) \in Selections
  BY <1>2 DEF SelectionOf, Typed, Kept, Asked
<1>4. row \in Kept
  BY <1>2, <1>3 DEF Kept, Asked
<1>5. CASE s \in DOMAIN sessions /\ sessions[s].owner # requests[r].owner
  BY <1>1, <1>5 DEF SaveChatSession, Declines, Typed
<1>6. CASE ~(s \in DOMAIN sessions /\ sessions[s].owner # requests[r].owner)
  <2>1. sessions' = [t \in DOMAIN sessions \cup {s} |-> IF t = s THEN row ELSE sessions[t]]
    BY <1>1, <1>6 DEF SaveChatSession
  <2>2. /\ DOMAIN sessions' = DOMAIN sessions \cup {s} /\ sessions'[s] = row
        /\ \A t \in DOMAIN sessions : t # s => sessions'[t] = sessions[t]
    BY <2>1
  <2>3. Stores(r)
    BY <1>6, <2>2 DEF Stores
  <2> HIDE DEF row
  <2> QED
    BY <1>2, <1>4, <2>2, <2>3 DEF Typed
<1> QED
  BY <1>5, <1>6

LEMMA ClaimSessions ==
    ASSUME Typed, ClaimVisitorData
    PROVE  /\ DOMAIN sessions' = DOMAIN sessions
           /\ \A s \in DOMAIN sessions :
                 /\ sessions'[s] \in Kept /\ sessions'[s].owner = "account"
                 /\ sessions'[s].selection = sessions[s].selection
                 /\ sessions'[s].messages = sessions[s].messages
  BY DEF ClaimVisitorData, Typed, Kept, Owners

(* A new session is the question's own, empty. *)
LEMMA CreateSessionSessions ==
    ASSUME Typed, NEW r \in Sent, CreateSession(r)
    PROVE  /\ r \notin DOMAIN sessions /\ Home(r) = r /\ DOMAIN sessions' = DOMAIN sessions \cup {r}
           /\ \A s \in DOMAIN sessions : sessions'[s] = sessions[s]
           /\ sessions'[r].owner = requests[r].owner /\ sessions'[r].selection = requests[r].selection
           /\ sessions'[r].messages = <<>>
           /\ \A s \in DOMAIN sessions' : s \in {0} \cup Sent /\ sessions'[s] \in Kept
<1> DEFINE row == [owner |-> requests[r].owner, selection |-> requests[r].selection, messages |-> <<>>]
<1>1. r \notin DOMAIN sessions /\ Home(r) = r
  BY DEF CreateSession, Created, Home
<1>2. requests[r] \in Asked /\ <<>> \in Seq(Nat)
  BY SentInNat
<1>3. row \in Kept
  BY <1>2 DEF Kept, Asked
<1>4. sessions' = [t \in DOMAIN sessions \cup {r} |-> IF t = r THEN row ELSE sessions[t]]
  BY <1>1 DEF CreateSession, SaveChatSession
<1>5. /\ DOMAIN sessions' = DOMAIN sessions \cup {r} /\ sessions'[r] = row
      /\ \A t \in DOMAIN sessions : sessions'[t] = sessions[t]
  BY <1>1, <1>4
<1>6. row.owner = requests[r].owner /\ row.selection = requests[r].selection /\ row.messages = <<>>
  OBVIOUS
<1> HIDE DEF row
<1> QED
  BY <1>1, <1>3, <1>5, <1>6 DEF Typed

(* What the view becomes. *)
LEMMA MarkedTypes ==
    ASSUME Typed, NEW r, NEW text \in {"answered", "failed"}
    PROVE  /\ Marked(r, text) \in Seq(Shown) /\ Len(Marked(r, text)) = Len(shown)
           /\ \A i \in DOMAIN shown : Marked(r, text)[i].question = shown[i].question
<1>1. shown \in Seq(Shown) /\ DOMAIN shown = 1..Len(shown) /\ Len(shown) \in Nat
  BY DEF Typed
<1>2. \A i \in DOMAIN shown : /\ Marked(r, text)[i] \in Shown
                             /\ Marked(r, text)[i].question = shown[i].question
  <2> SUFFICES ASSUME NEW i \in DOMAIN shown
               PROVE  Marked(r, text)[i] \in Shown /\ Marked(r, text)[i].question = shown[i].question
    OBVIOUS
  <2>1. shown[i] \in Shown
    BY <1>1
  <2>2. Marked(r, text)[i] = shown[i] \/ Marked(r, text)[i] = [shown[i] EXCEPT !.text = text]
    BY DEF Marked
  <2> QED
    BY <2>1, <2>2 DEF Shown
<1>3. DOMAIN Marked(r, text) = 1..Len(shown) /\ Marked(r, text) \in [1..Len(shown) -> Shown]
  BY <1>1, <1>2 DEF Marked
<1> QED
  BY <1>1, <1>2, <1>3

LEMMA LoadedTypes ==
    ASSUME NEW messages \in Seq(Nat)
    PROVE  /\ Loaded(messages) \in Seq(Shown) /\ DOMAIN Loaded(messages) = DOMAIN messages
           /\ \A i \in DOMAIN messages : Loaded(messages)[i].question = messages[i]
<1>1. DOMAIN messages = 1..Len(messages) /\ Len(messages) \in Nat
  OBVIOUS
<1>2. Loaded(messages) \in [1..Len(messages) -> Shown]
  BY <1>1 DEF Loaded, Shown
<1> QED
  BY <1>1, <1>2 DEF Loaded

-----------------------------------------------------------------------------
(* Types. *)

(* A load brings questions that were asked, each once. *)
LEMMA LoadedOfRequest ==
    ASSUME Typed, Written, NEW r \in Sent, requests[r].kind = "load"
    PROVE  LET view == Loaded(requests[r].copy) IN
           /\ view \in Seq(Shown) /\ \A i \in DOMAIN view : view[i].question \in {0} \cup Sent
           /\ IsInjective([i \in DOMAIN view |-> view[i].question])
<1>1. requests[r].copy \in Seq(Nat) /\ requests[r].session # NoSession
  BY SentInNat DEF Asked, Written
<1>2. MessagesOf(requests[r].session, requests[r].copy)
  BY <1>1 DEF Written
<1> QED
  BY <1>1, <1>2, LoadedTypes DEF MessagesOf, IsInjective

LEMMA SendTyped ==
    ASSUME Typed, NEW kind \in {"ask", "load"}, NEW s \in {NoSession} \cup DOMAIN sessions,
           Sends(Request(kind, s, identity)), Len(requests) < MaxRequests, UNCHANGED <<visit, sessions>>
    PROVE  /\ requests' \in Seq(Asked) /\ Len(requests') <= MaxRequests'
           /\ \A r \in Sent' : requests'[r].session \in {NoSession} \cup DOMAIN sessions'
           /\ \A t \in DOMAIN sessions' : t \in {0} \cup Sent' /\ sessions'[t] \in Kept
           /\ Sent \subseteq Sent'
<1>1. Request(kind, s, identity) \in Asked /\ Request(kind, s, identity).session = s
  BY NewRequest
<1>2. /\ requests' \in Seq(Asked) /\ Len(requests') = Len(requests) + 1
      /\ Sent' = Sent \cup {Len(requests) + 1}
      /\ \A q \in Sent : requests'[q] = requests[q]
      /\ requests'[Len(requests) + 1] = Request(kind, s, identity)
  BY <1>1, SendsOne
<1>3. Len(requests') <= MaxRequests' /\ MaxRequests' = MaxRequests
  BY <1>2, VisitTypes, SentInNat DEF Typed, MaxRequests
<1> QED
  BY <1>1, <1>2, <1>3 DEF Typed

LEMMA ViewOrNone ==
    ASSUME Typed, shown' = <<>> \/ shown' = shown, requests' = requests
    PROVE  /\ Sent' = Sent /\ shown' \in Seq(Shown)
           /\ \A i \in DOMAIN shown' : shown'[i].question \in {0} \cup Sent
<1>1. <<>> \in Seq(Shown) /\ DOMAIN <<>> = {}
  OBVIOUS
<1> QED
  BY <1>1 DEF Typed, Sent

LEMMA UserTyped ==
    ASSUME Typed, User, UNCHANGED <<visit, prepared>>
    PROVE  Typed'
<1> USE DEF Typed
<1>0. /\ MaxRequests' = MaxRequests /\ MaxGeneration' = MaxGeneration /\ MaxMounts' = MaxMounts
      /\ MaxMounts \in Nat \ {0} /\ Default \in Selections
  BY VisitTypes, SelectionsAssumption DEF MaxRequests, MaxGeneration, MaxMounts
<1>1. CASE HandleSend
  <2>1. Sends(Request("ask", active, identity)) /\ Len(requests) < MaxRequests
    BY <1>1 DEF HandleSend, Sends
  <2>2. /\ requests' \in Seq(Asked) /\ Len(requests') <= MaxRequests'
        /\ \A r \in Sent' : requests'[r].session \in {NoSession} \cup DOMAIN sessions'
        /\ \A t \in DOMAIN sessions' : t \in {0} \cup Sent' /\ sessions'[t] \in Kept
        /\ Sent \subseteq Sent'
    BY <1>1, <2>1, SendTyped DEF HandleSend
  <2>3. Len(requests) + 1 \in Sent' /\ Len(requests) + 1 \in Nat
    BY <2>1, SendsOne, NewRequest, SentInNat
  <2>4. shown' \in Seq(Shown) /\ \A i \in DOMAIN shown' : shown'[i].question \in {0} \cup Sent'
    <3> DEFINE new == [question |-> Len(requests) + 1, text |-> "waiting"]
    <3>1. new \in Shown /\ new.question \in Sent' /\ shown' = Append(shown, new)
      BY <1>1, <2>3 DEF HandleSend, Shown
    <3> HIDE DEF new
    <3> QED
      BY <2>2, <3>1
  <2>5. gate' \in [1..MaxMounts' -> 0..MaxGeneration']
    BY <1>0, <1>1, AdvanceTypes DEF HandleSend
  <2> QED
    BY <1>0, <1>1, <2>2, <2>4, <2>5 DEF HandleSend
<1>2. ASSUME NEW s \in Visible, HandleLoadSession(s) PROVE Typed'
  <2>0. s \in DOMAIN sessions
    BY DEF Visible
  <2>1. Sends(Request("load", s, identity)) /\ Len(requests) < MaxRequests
    BY <1>2 DEF HandleLoadSession, Sends
  <2>2. /\ requests' \in Seq(Asked) /\ Len(requests') <= MaxRequests'
        /\ \A r \in Sent' : requests'[r].session \in {NoSession} \cup DOMAIN sessions'
        /\ \A t \in DOMAIN sessions' : t \in {0} \cup Sent' /\ sessions'[t] \in Kept
        /\ Sent \subseteq Sent'
    BY <1>2, <2>0, <2>1, SendTyped DEF HandleLoadSession
  <2>3. gate' \in [1..MaxMounts' -> 0..MaxGeneration']
    BY <1>0, <1>2, AdvanceTypes DEF HandleLoadSession
  <2> QED
    BY <1>0, <1>2, <2>0, <2>2, <2>3 DEF HandleLoadSession
<1>3. CASE HandleNewChat
  <2>1. gate' \in [1..MaxMounts' -> 0..MaxGeneration']
    BY <1>0, <1>3, AdvanceTypes DEF HandleNewChat
  <2>2. Sent' = Sent /\ shown' \in Seq(Shown) /\ \A i \in DOMAIN shown' : shown'[i].question \in {0} \cup Sent
    BY <1>3, ViewOrNone DEF HandleNewChat
  <2> QED
    BY <1>0, <1>3, <2>1, <2>2 DEF HandleNewChat
<1>4. ASSUME NEW sel \in Selections, SelectionStarts(sel) PROVE Typed'
  <2>1. gate' \in [1..MaxMounts' -> 0..MaxGeneration']
    BY <1>0, <1>4, AdvanceTypes DEF SelectionStarts
  <2>2. Sent' = Sent /\ shown' \in Seq(Shown) /\ \A i \in DOMAIN shown' : shown'[i].question \in {0} \cup Sent
    BY <1>4, ViewOrNone DEF SelectionStarts
  <2> QED
    BY <1>0, <1>4, <2>1, <2>2 DEF SelectionStarts
<1>5. ASSUME NEW sel \in Selections, Reopen(sel) PROVE Typed'
  <2>1. mount' \in 1..MaxMounts /\ mount' = mount + 1
    BY <1>0, <1>5 DEF Reopen
  <2>2. gate' \in [1..MaxMounts' -> 0..MaxGeneration']
    BY <1>0, <1>5, <2>1, AdvanceTypes DEF Reopen
  <2>3. Sent' = Sent /\ shown' \in Seq(Shown) /\ \A i \in DOMAIN shown' : shown'[i].question \in {0} \cup Sent
    BY <1>5, ViewOrNone DEF Reopen
  <2> QED
    BY <1>0, <1>5, <2>1, <2>2, <2>3 DEF Reopen
<1>6. CASE SignIn
  BY <1>0, <1>6 DEF SignIn, page, Sent, Owners
<1>7. CASE ClaimVisitorData
  BY <1>0, <1>7, ClaimSessions DEF ClaimVisitorData, page, Sent
<1> QED
  BY <1>1, <1>2, <1>3, <1>4, <1>5, <1>6, <1>7 DEF User, StartWithSelection, SelectByAddress

(* A step of the service or an answer keeps the types that requests have. *)
LEMMA ProgressTypes ==
    ASSUME Typed, NEW r \in Sent, Progress(r), UNCHANGED visit, DOMAIN sessions \subseteq DOMAIN sessions'
    PROVE  /\ Sent' = Sent /\ requests' \in Seq(Asked) /\ Len(requests') <= MaxRequests'
           /\ \A q \in Sent' : /\ requests'[q].session = requests[q].session
                              /\ requests'[q].session \in {NoSession} \cup DOMAIN sessions'
<1>1. MaxRequests' = MaxRequests
  BY DEF MaxRequests
<1>2. \A q \in Sent : requests'[q].session = requests[q].session
  BY DEF Progress, SameSender
<1> QED
  BY <1>1, <1>2 DEF Typed, Progress

LEMMA ServiceTyped ==
    ASSUME Typed, NEW r \in Sent, Service(r), UNCHANGED <<visit, prepared>>
    PROVE  Typed' /\ Progress(r)
<1>0. MaxGeneration' = MaxGeneration /\ MaxMounts' = MaxMounts
  BY DEF MaxGeneration, MaxMounts
<1>1. Progress(r)
  BY QueryBeginsStep, QueryFailsStep, CreateSessionStep, PersistQueryStep, ReadSessionStep DEF Service
<1>2. UNCHANGED <<visit, identity, shown, mount, gate, active, selected, thinking>>
  BY DEF Service, QueryBegins, QueryFails, CreateSession, PersistQuery, ReadSession, page
<1>3. /\ DOMAIN sessions \subseteq DOMAIN sessions'
      /\ \A s \in DOMAIN sessions' : s \in {0} \cup Sent /\ sessions'[s] \in Kept
  <2>1. CASE PersistQuery(r)
    BY <2>1, PersistQuerySessions
  <2>2. CASE sessions' = sessions
    BY <2>2 DEF Typed
  <2>3. CASE CreateSession(r)
    BY <2>3, CreateSessionSessions
  <2> QED
    BY <2>1, <2>2, <2>3 DEF Service, QueryBegins, QueryFails, ReadSession
<1>4. /\ Sent' = Sent /\ requests' \in Seq(Asked) /\ Len(requests') <= MaxRequests'
      /\ \A q \in Sent' : requests'[q].session \in {NoSession} \cup DOMAIN sessions'
  BY <1>1, <1>3, ProgressTypes
<1>5. active' \in {NoSession} \cup DOMAIN sessions'
  BY <1>2, <1>3 DEF Typed
<1> QED
  BY <1>0, <1>1, <1>2, <1>3, <1>4, <1>5 DEF Typed

LEMMA AnswerTyped ==
    ASSUME Typed, Written, Matching, NEW r \in Sent, Answer(r), UNCHANGED <<visit, prepared>>
    PROVE  Typed' /\ Progress(r)
<1>0. MaxGeneration' = MaxGeneration /\ MaxMounts' = MaxMounts
  BY DEF MaxGeneration, MaxMounts
<1>1. Progress(r)
  BY AnswerStep DEF Arrives
<1>2. UNCHANGED <<visit, sessions, identity, mount, gate>>
  BY DEF Answer, AnswerDone, StreamEnds, StreamFails, SessionLoaded, LoadFails, page
<1>3. /\ Sent' = Sent /\ requests' \in Seq(Asked) /\ Len(requests') <= MaxRequests'
      /\ \A q \in Sent' : requests'[q].session \in {NoSession} \cup DOMAIN sessions'
  BY <1>1, <1>2, ProgressTypes
<1>4. /\ shown' \in Seq(Shown) /\ \A i \in DOMAIN shown' : shown'[i].question \in {0} \cup Sent
      /\ active' \in {NoSession} \cup DOMAIN sessions /\ selected' \in Selections /\ thinking' \in BOOLEAN
  <2>1. \A text \in {"answered", "failed"} :
           /\ Marked(r, text) \in Seq(Shown)
           /\ \A i \in DOMAIN Marked(r, text) : Marked(r, text)[i].question \in {0} \cup Sent
    BY MarkedTypes DEF Typed
  <2>2. CASE AnswerDone(r)
    <3>1. requests[r].answers \in DOMAIN sessions
      BY <2>2 DEF AnswerDone, Matching, Saved
    <3> QED
      BY <2>1, <2>2, <3>1 DEF AnswerDone, Typed
  <2>3. CASE StreamEnds(r)
    BY <2>3 DEF StreamEnds, StopsThinking, Typed
  <2>4. CASE StreamFails(r)
    BY <2>1, <2>4 DEF StreamFails, StopsThinking, Typed
  <2>5. CASE SessionLoaded(r)
    <3>1. /\ Loaded(requests[r].copy) \in Seq(Shown)
          /\ \A i \in DOMAIN Loaded(requests[r].copy) : Loaded(requests[r].copy)[i].question \in {0} \cup Sent
      BY <2>5, LoadedOfRequest DEF SessionLoaded
    <3>2. requests[r].selection \in Selections
      BY SentInNat DEF Asked
    <3> QED
      BY <2>5, <3>1, <3>2 DEF SessionLoaded, Typed
  <2>6. CASE LoadFails(r)
    BY <2>6 DEF LoadFails, Typed, page
  <2> QED
    BY <2>2, <2>3, <2>4, <2>5, <2>6 DEF Answer
<1> QED
  BY <1>0, <1>1, <1>2, <1>3, <1>4 DEF Typed

LEMMA NextTyped ==
    ASSUME Typed, Written, Matching, [Next]_vars
    PROVE  Typed'
<1>1. CASE IdentityReady /\ UNCHANGED visit
  <2>1. Sent' = Sent /\ shown' \in Seq(Shown) /\ \A i \in DOMAIN shown' : shown'[i].question \in {0} \cup Sent
    BY <1>1, ViewOrNone DEF IdentityReady
  <2>2. UNCHANGED <<visit, sessions, identity, mount, gate, active, selected, thinking, requests>>
        /\ prepared' \in Owners
    BY <1>1 DEF IdentityReady, page, Typed
  <2> QED
    BY <2>1, <2>2 DEF Typed, MaxRequests, MaxGeneration, MaxMounts
<1>2. CASE UNCHANGED vars
  BY <1>2 DEF vars, Typed, Sent, MaxRequests, MaxGeneration, MaxMounts
<1> QED
  BY <1>1, <1>2, UserTyped, ServiceTyped, AnswerTyped DEF Next, Sent

-----------------------------------------------------------------------------
(* The sessions hold what was asked. *)

(* What the arguments about sessions look at in a request. *)
Stays(q) ==
    /\ requests'[q].kind = requests[q].kind /\ requests'[q].session = requests[q].session
    /\ requests'[q].owner = requests[q].owner /\ requests'[q].service = requests[q].service
    /\ requests'[q].copy = requests[q].copy /\ requests'[q].selection = requests[q].selection
    /\ requests'[q].answers = requests[q].answers

(* A request as it is sent. *)
Fresh(q) ==
    /\ requests'[q].service = "sent" /\ requests'[q].copy = <<>>
    /\ requests'[q].session = NoSession => requests'[q].kind = "ask"

(* Sessions may change hands, from the visitor to the account. *)
SessionsStay ==
    /\ DOMAIN sessions' = DOMAIN sessions
    /\ \A s \in DOMAIN sessions :
          /\ sessions'[s].selection = sessions[s].selection
          /\ sessions'[s].messages = sessions[s].messages
          /\ sessions'[s].owner \in {sessions[s].owner, "account"}

LEMMA MessagesStay ==
    ASSUME Sent \subseteq Sent', \A q \in Sent : Saved(q) => Stays(q),
           NEW s, NEW messages, MessagesOf(s, messages)
    PROVE  /\ IsInjective(messages)
           /\ \A i \in DOMAIN messages :
                messages[i] # 0 => messages[i] \in Sent' /\ Saved(messages[i])' /\ Home(messages[i])' = s
  BY DEF MessagesOf, Stays, Saved, Home

LEMMA StaysSound ==
    ASSUME Typed, Written, Matching, LostOnlyByOverlap, SessionsStay,
           Sent \subseteq Sent', \A q \in Sent : Stays(q), \A q \in Sent' \ Sent : Fresh(q)
    PROVE  Written' /\ Matching' /\ LostOnlyByOverlap'
<1>1. Written'
  <2>1. ASSUME NEW s \in DOMAIN sessions'
        PROVE  /\ MessagesOf(s, sessions[s].messages)'
               /\ (s # 0 => Begun(s)' /\ requests'[s].session = NoSession)
    <3>1. MessagesOf(s, sessions[s].messages) /\ sessions'[s].messages = sessions[s].messages
      BY <2>1 DEF Written, SessionsStay
    <3>2. MessagesOf(s, sessions[s].messages)'
      BY <3>1, MessagesStay DEF MessagesOf
    <3>3. s # 0 => s \in Sent /\ Begun(s) /\ requests[s].session = NoSession
      BY <2>1 DEF Written, SessionsStay, Typed
    <3> QED
      BY <3>2, <3>3 DEF Stays, Begun
  <2>2. ASSUME NEW r \in Sent'
        PROVE  IF requests'[r].session = NoSession THEN requests'[r].kind = "ask" /\ requests'[r].copy = <<>>
               ELSE MessagesOf(requests[r].session, requests[r].copy)'
    <3>1. CASE r \in Sent
      <4>1. CASE requests[r].session = NoSession
        BY <3>1, <4>1 DEF Written, Stays
      <4>2. CASE requests[r].session # NoSession
        <5>1. MessagesOf(requests[r].session, requests[r].copy) /\ Stays(r)
          BY <3>1, <4>2 DEF Written
        <5> QED
          BY <5>1, <4>2, MessagesStay DEF MessagesOf, Stays
      <4> QED
        BY <4>1, <4>2
    <3>2. CASE r \notin Sent
      BY <2>2, <3>2 DEF Fresh, MessagesOf, IsInjective
    <3> QED
      BY <3>1, <3>2
  <2> QED
    BY <2>1, <2>2 DEF Written
<1>2. Matching'
  <2> SUFFICES ASSUME NEW r \in Sent'
               PROVE  /\ Saved(r)' => requests'[r].answers = Home(r)' /\ Home(r)' \in DOMAIN sessions'
                      /\ Accepted(r)' /\ Home(r)' \in DOMAIN sessions' =>
                           /\ requests'[r].selection = sessions'[Home(r)'].selection
                           /\ requests'[r].owner = "account" => sessions'[Home(r)'].owner = "account"
    BY DEF Matching
  <2>1. CASE r \in Sent
    <3>1. Home(r)' = Home(r) /\ (Saved(r)' <=> Saved(r)) /\ (Accepted(r)' <=> Accepted(r)) /\ Stays(r)
      BY <2>1 DEF Stays, Home, Saved, Accepted
    <3> QED
      BY <2>1, <3>1 DEF Matching, SessionsStay, Stays
  <2>2. CASE r \notin Sent
    BY <2>2 DEF Fresh, Saved, Accepted
  <2> QED
    BY <2>1, <2>2
<1>3. LostOnlyByOverlap'
  <2> SUFFICES ASSUME NEW r \in Sent', NEW s, s = requests'[r].answers, Saved(r)', s \in DOMAIN sessions',
                      ~Contains(sessions'[s].messages, r)
               PROVE  \/ requests'[r].owner # sessions'[s].owner
                      \/ \E p \in Range(sessions'[s].messages) \ {0, r} :
                           requests'[p].answers = s /\ ~Contains(requests'[p].copy, r)
    BY DEF LostOnlyByOverlap, Saved, Sent
  <2>1. r \in Sent /\ Stays(r) /\ Saved(r) /\ s = requests[r].answers /\ s \in DOMAIN sessions
        /\ sessions'[s].messages = sessions[s].messages
    BY DEF Fresh, Saved, Stays, SessionsStay
  <2>2. CASE requests[r].owner # sessions[s].owner
    <3>1. requests[r].owner = "visitor" /\ sessions[s].owner = "account"
      BY <2>1, <2>2, SentInNat DEF Matching, Saved, Accepted, Asked, Kept, Owners, Typed
    <3> QED
      BY <2>1, <3>1 DEF Stays, SessionsStay
  <2>3. CASE \E p \in Range(sessions[s].messages) \ {0, r} :
               requests[p].answers = s /\ ~Contains(requests[p].copy, r)
    <3>1. PICK p \in Range(sessions[s].messages) \ {0, r} :
                 requests[p].answers = s /\ ~Contains(requests[p].copy, r)
      BY <2>3
    <3>2. p \in Sent
      BY <2>1, <3>1 DEF Written, MessagesOf, Range
    <3> QED
      BY <2>1, <3>1, <3>2 DEF Stays
  <2> QED
    BY <2>1, <2>2, <2>3 DEF LostOnlyByOverlap, Saved, Sent
<1> QED
  BY <1>1, <1>2, <1>3

(* Before its answer is saved a request is in no session, nor in a copy; before
   the service begins with it, it has no session of its own. *)
LEMMA UnsavedInNone ==
    ASSUME Written, NEW r \in Sent, ~Saved(r), r # 0
    PROVE  /\ ~Begun(r) => r \notin DOMAIN sessions
           /\ \A s \in DOMAIN sessions : ~Contains(sessions[s].messages, r)
           /\ \A q \in Sent : requests[q].session # NoSession => r \notin Range(requests[q].copy)
  BY DEF Written, MessagesOf, Contains, Range

(* The steps of the service that save no question. *)
LEMMA UnsavedSound ==
    ASSUME Typed, Written, Matching, LostOnlyByOverlap, NEW r \in Sent, Progress(r), sessions' = sessions,
           ~Saved(r), ~Saved(r)', r \in DOMAIN sessions => Begun(r)',
           requests'[r].session = NoSession => requests'[r].copy = <<>>,
           requests'[r].session # NoSession =>
               \/ requests'[r].copy = requests[r].copy
               \/ /\ requests[r].session \in DOMAIN sessions
                  /\ requests'[r].copy = sessions[requests[r].session].messages,
           Accepted(r)' /\ Home(r) \in DOMAIN sessions =>
               /\ requests'[r].selection = sessions[Home(r)].selection
               /\ requests'[r].owner = sessions[Home(r)].owner
    PROVE  Written' /\ Matching' /\ LostOnlyByOverlap'
<1>0. /\ Sent' = Sent /\ \A q \in Sent : q # r => requests'[q] = requests[q] /\ Stays(q)
      /\ SameSender(r) /\ \A q \in Sent : Saved(q) => Stays(q) /\ q # r
  BY DEF Progress, Stays
<1>1. Written'
  <2>1. ASSUME NEW s \in DOMAIN sessions'
        PROVE  /\ MessagesOf(s, sessions[s].messages)'
               /\ (s # 0 => Begun(s)' /\ requests'[s].session = NoSession)
    <3>1. MessagesOf(s, sessions[s].messages)
      BY <2>1 DEF Written
    <3>2. MessagesOf(s, sessions[s].messages)'
      BY <1>0, <3>1, MessagesStay DEF MessagesOf
    <3>3. s # 0 => s \in Sent /\ Begun(s) /\ requests[s].session = NoSession
      BY <2>1 DEF Written, Typed
    <3> QED
      BY <1>0, <2>1, <3>2, <3>3 DEF Stays, Begun, SameSender
  <2>2. ASSUME NEW q \in Sent'
        PROVE  IF requests'[q].session = NoSession THEN requests'[q].kind = "ask" /\ requests'[q].copy = <<>>
               ELSE MessagesOf(requests[q].session, requests[q].copy)'
    <3>1. requests'[q].session = requests[q].session /\ requests'[q].kind = requests[q].kind
      BY <1>0, <2>2 DEF Stays, SameSender
    <3>2. CASE requests[q].session = NoSession
      BY <1>0, <2>2, <3>1, <3>2 DEF Written, Stays
    <3>3. CASE requests[q].session # NoSession
      <4>1. PICK messages : requests'[q].copy = messages /\ MessagesOf(requests[q].session, messages)
        BY <1>0, <2>2, <3>1, <3>3 DEF Written, Stays
      <4>2. /\ IsInjective(messages)
            /\ \A i \in DOMAIN messages : messages[i] # 0 =>
                 messages[i] \in Sent' /\ Saved(messages[i])' /\ Home(messages[i])' = requests[q].session
        BY <1>0, <4>1, MessagesStay
      <4> QED
        BY <3>1, <3>3, <4>1, <4>2 DEF MessagesOf
    <3> QED
      BY <3>1, <3>2, <3>3
  <2> QED
    BY <2>1, <2>2 DEF Written
<1>2. Matching'
  <2> SUFFICES ASSUME NEW q \in Sent'
               PROVE  /\ Saved(q)' => requests'[q].answers = Home(q)' /\ Home(q)' \in DOMAIN sessions'
                      /\ Accepted(q)' /\ Home(q)' \in DOMAIN sessions' =>
                           /\ requests'[q].selection = sessions'[Home(q)'].selection
                           /\ requests'[q].owner = "account" => sessions'[Home(q)'].owner = "account"
    BY DEF Matching
  <2>1. Home(q)' = Home(q)
    BY <1>0 DEF Home, Stays, SameSender
  <2>2. CASE q # r
    <3>1. (Saved(q)' <=> Saved(q)) /\ (Accepted(q)' <=> Accepted(q)) /\ Stays(q)
      BY <1>0, <2>2 DEF Stays, Saved, Accepted
    <3> QED
      BY <1>0, <2>1, <3>1 DEF Matching, Stays
  <2>3. CASE q = r
    BY <2>1, <2>3
  <2> QED
    BY <2>2, <2>3
<1>3. LostOnlyByOverlap'
  <2> SUFFICES ASSUME NEW q \in Sent', NEW s, s = requests'[q].answers, Saved(q)', s \in DOMAIN sessions,
                      ~Contains(sessions[s].messages, q)
               PROVE  \/ requests'[q].owner # sessions[s].owner
                      \/ \E p \in Range(sessions[s].messages) \ {0, q} :
                           requests'[p].answers = s /\ ~Contains(requests'[p].copy, q)
    BY DEF LostOnlyByOverlap, Saved, Sent
  <2>1. q \in Sent /\ Stays(q) /\ Saved(q) /\ s = requests[q].answers
    BY <1>0 DEF Saved, Stays
  <2>2. CASE requests[q].owner # sessions[s].owner
    BY <2>1, <2>2 DEF Stays
  <2>3. CASE \E p \in Range(sessions[s].messages) \ {0, q} :
               requests[p].answers = s /\ ~Contains(requests[p].copy, q)
    <3>1. PICK p \in Range(sessions[s].messages) \ {0, q} :
                 requests[p].answers = s /\ ~Contains(requests[p].copy, q)
      BY <2>3
    <3>2. p \in Sent /\ Saved(p)
      BY <3>1 DEF Written, MessagesOf, Range
    <3> QED
      BY <1>0, <3>1, <3>2 DEF Stays
  <2> QED
    BY <2>1, <2>2, <2>3 DEF LostOnlyByOverlap, Saved, Sent
<1> QED
  BY <1>1, <1>2, <1>3

LEMMA QueryBeginsSound ==
    ASSUME Typed, Written, Matching, LostOnlyByOverlap, NEW r \in Sent, QueryBegins(r)
    PROVE  Written' /\ Matching' /\ LostOnlyByOverlap'
<1> DEFINE s == requests[r].session
<1>1. Progress(r) /\ SameSender(r) /\ sessions' = sessions /\ ~Saved(r) /\ ~Begun(r) /\ r # 0
  BY QueryBeginsStep, SentInNat DEF QueryBegins, Saved, Begun, Progress
<1>4. r \notin DOMAIN sessions
  BY <1>1, UnsavedInNone
<1>2. CASE s # NoSession /\ Mismatch(r, s)
  <2>1. Refuses(r)
    BY <1>2, QueryBeginsStep
  <2>2. s = NoSession => requests[r].copy = <<>>
    BY <1>2
  <2> QED
    BY <1>1, <1>2, <1>4, <2>1, UnsavedSound DEF Refuses, Saved, Accepted, SameSender
<1>3. CASE ~(s # NoSession /\ Mismatch(r, s))
  <2>1. Accepts(r, IF s = NoSession THEN <<>> ELSE sessions[s].messages)
    BY <1>3, QueryBeginsStep
  <2>2. s # NoSession => /\ s \in DOMAIN sessions /\ sessions[s].owner = requests[r].owner
                         /\ sessions[s].selection = requests[r].selection
    BY <1>3 DEF Mismatch
  <2>3. s = NoSession => Home(r) \notin DOMAIN sessions
    BY <1>4 DEF Home
  <2>4. s # NoSession => Home(r) = s
    BY DEF Home
  <2> QED
    BY <1>1, <1>4, <2>1, <2>2, <2>3, <2>4, UnsavedSound DEF Accepts, Saved, Accepted, SameSender
<1> QED
  BY <1>2, <1>3

LEMMA QueryFailsSound ==
    ASSUME Typed, Written, Matching, LostOnlyByOverlap, NEW r \in Sent, QueryFails(r)
    PROVE  Written' /\ Matching' /\ LostOnlyByOverlap'
<1>1. /\ Progress(r) /\ SameSender(r) /\ sessions' = sessions /\ ~Saved(r) /\ Refuses(r)
      /\ Begun(r)'
  BY QueryFailsStep DEF QueryFails, Begun, Saved, Progress, Refuses, SameSender
<1>2. requests[r].session = NoSession => requests[r].copy = <<>>
  BY DEF Written
<1> QED
  BY <1>1, <1>2, UnsavedSound DEF Refuses, Saved, Accepted, SameSender

LEMMA ReadSessionSound ==
    ASSUME Typed, Written, Matching, LostOnlyByOverlap, NEW r \in Sent, ReadSession(r)
    PROVE  Written' /\ Matching' /\ LostOnlyByOverlap'
<1>1. Progress(r) /\ SameSender(r) /\ sessions' = sessions /\ requests[r].kind = "load" /\ r # 0
  BY ReadSessionStep, SentInNat DEF ReadSession, Progress
<1>2. requests[r].session # NoSession /\ r \notin DOMAIN sessions
  BY <1>1 DEF Written, Begun
<1> QED
  BY <1>1, <1>2, ReadSessionStep, UnsavedSound DEF Refuses, Saved, Accepted, SameSender

LEMMA AppendOne ==
    ASSUME NEW messages \in Seq(Nat), NEW r \in Nat, IsInjective(messages), r \notin Range(messages)
    PROVE  /\ IsInjective(Append(messages, r)) /\ Contains(Append(messages, r), r)
           /\ Range(Append(messages, r)) = Range(messages) \cup {r}
<1> DEFINE longer == Append(messages, r)
<1>1. /\ Len(messages) \in Nat /\ Len(longer) = Len(messages) + 1 /\ DOMAIN messages = 1..Len(messages)
      /\ DOMAIN longer = DOMAIN messages \cup {Len(messages) + 1}
      /\ longer[Len(messages) + 1] = r /\ Len(messages) + 1 \notin DOMAIN messages
      /\ \A i \in DOMAIN messages : longer[i] = messages[i]
  OBVIOUS
<1> HIDE DEF longer
<1>2. IsInjective(longer)
  BY <1>1 DEF IsInjective, Range
<1>3. Contains(longer, r)
  BY <1>1 DEF Contains
<1>4. Range(longer) = Range(messages) \cup {r}
  BY <1>1 DEF Range
<1> QED
  BY <1>2, <1>3, <1>4 DEF longer

(* The session that is made for a question holds nothing yet. *)
LEMMA CreateSessionSound ==
    ASSUME Typed, Written, Matching, LostOnlyByOverlap, NEW r \in Sent, CreateSession(r)
    PROVE  Written' /\ Matching' /\ LostOnlyByOverlap'
<1>1. /\ r \notin DOMAIN sessions /\ Home(r) = r /\ DOMAIN sessions' = DOMAIN sessions \cup {r}
      /\ \A s \in DOMAIN sessions : sessions'[s] = sessions[s]
      /\ sessions'[r].owner = requests[r].owner /\ sessions'[r].selection = requests[r].selection
      /\ sessions'[r].messages = <<>>
  BY CreateSessionSessions
<1>2. requests' = requests /\ Sent' = Sent /\ Begun(r) /\ requests[r].session = NoSession /\ ~Saved(r)
  BY CreateSessionStep DEF CreateSession, Begun, Saved, Sent
<1>3. <<>> = << >> /\ DOMAIN << >> = {} /\ IsInjective(<<>>)
  BY DEF IsInjective
<1>4. Written'
  <2>1. MessagesOf(r, sessions[r].messages)'
    BY <1>1, <1>3 DEF MessagesOf
  <2> QED
    BY <1>1, <1>2, <2>1 DEF Written, MessagesOf, Saved, Begun, Home
<1>5. ASSUME NEW q \in Sent, Home(q) = r
      PROVE  q = r
  BY <1>1, <1>5, SentInNat DEF Home, Typed
<1>6. Matching'
  BY <1>1, <1>2, <1>5 DEF Matching, Saved, Accepted, Home
<1>7. ASSUME NEW q \in Sent, Saved(q)
      PROVE  requests[q].answers # r
  BY <1>2, <1>5, <1>7 DEF Matching
<1>8. LostOnlyByOverlap'
  <2>1. ASSUME NEW q \in Sent, NEW s, s = requests[q].answers, Saved(q), s \in DOMAIN sessions',
               ~Contains(sessions'[s].messages, q)
        PROVE  \/ requests[q].owner # sessions'[s].owner
               \/ \E p \in Range(sessions'[s].messages) \ {0, q} :
                    requests[p].answers = s /\ ~Contains(requests[p].copy, q)
    <3>1. s \in DOMAIN sessions /\ sessions'[s] = sessions[s]
      BY <1>1, <1>7, <2>1
    <3> QED
      BY <2>1, <3>1 DEF LostOnlyByOverlap, Saved, Sent
  <2> QED
    BY <1>2, <2>1 DEF LostOnlyByOverlap, Saved, Sent
<1> QED
  BY <1>4, <1>6, <1>8

(* A saved answer ends its copy of the session, which the service stores whole. *)
LEMMA PersistQuerySound ==
    ASSUME Typed, Written, Matching, LostOnlyByOverlap, NEW r \in Sent, PersistQuery(r)
    PROVE  Written' /\ Matching' /\ LostOnlyByOverlap'
<1> DEFINE h == Home(r)
<1>0. /\ Sent' = Sent /\ \A q \in Sent : q # r => requests'[q] = requests[q] /\ Stays(q)
      /\ SameSender(r) /\ requests'[r].service = "saved" /\ requests'[r].answers = h
      /\ requests'[r].copy = requests[r].copy /\ requests'[r].selection = requests[r].selection
      /\ requests[r].kind = "ask" /\ requests[r].service = "asking"
  BY PersistQueryStep DEF Progress, Stays, PersistQuery
<1>1. /\ r \in Nat /\ r # 0 /\ r # NoSession /\ ~Saved(r) /\ Saved(r)' /\ Accepted(r)
      /\ \A q \in Sent : Saved(q) => Stays(q) /\ q # r /\ Saved(q)'
      /\ \A q \in Sent : Home(q)' = Home(q)
  BY <1>0, SentInNat DEF Saved, Accepted, Home, SameSender, Stays
<1>2. /\ Stores(r) \/ Declines(r)
      /\ \A s \in DOMAIN sessions' : s \in {0} \cup Sent
      /\ DOMAIN sessions \subseteq DOMAIN sessions' /\ h \in DOMAIN sessions'
  BY PersistQuerySessions
<1>3. h \in DOMAIN sessions /\ (requests[r].session = NoSession => h = r)
      /\ (requests[r].session # NoSession => h = requests[r].session)
  BY DEF PersistQuery, Created, Home, Typed
<1>4. MessagesOf(h, requests[r].copy) /\ r \notin Range(requests[r].copy) /\ requests[r].copy \in Seq(Nat)
  <2>1. CASE requests[r].session = NoSession
    <3>1. requests[r].copy = <<>> /\ <<>> \in Seq(Nat) /\ DOMAIN <<>> = {}
      BY <2>1 DEF Written
    <3> QED
      BY <3>1 DEF MessagesOf, IsInjective, Range
  <2>2. CASE requests[r].session # NoSession
    BY <1>1, <1>3, <2>2, UnsavedInNone, SentInNat DEF Written, Asked
  <2> QED
    BY <2>1, <2>2
<1>5. PICK longer :
        /\ longer = Append(requests[r].copy, r) /\ IsInjective(longer)
        /\ Contains(longer, r) /\ Range(longer) = Range(requests[r].copy) \cup {r}
  BY <1>1, <1>4, AppendOne DEF MessagesOf
<1>6. /\ IsInjective(longer)
      /\ \A i \in DOMAIN longer :
           longer[i] # 0 => longer[i] \in Sent' /\ Saved(longer[i])' /\ Home(longer[i])' = h
  <2> SUFFICES ASSUME NEW i \in DOMAIN longer, longer[i] # 0
               PROVE  longer[i] \in Sent' /\ Saved(longer[i])' /\ Home(longer[i])' = h
    BY <1>5
  <2>1. CASE longer[i] = r
    BY <1>0, <1>1, <2>1
  <2>2. CASE longer[i] # r
    <3>1. PICK j \in DOMAIN requests[r].copy : longer[i] = requests[r].copy[j]
      BY <1>5, <2>2 DEF Range
    <3>2. longer[i] \in Sent /\ Saved(longer[i]) /\ Home(longer[i]) = h
      BY <1>4, <3>1 DEF MessagesOf
    <3> QED
      BY <1>0, <1>1, <3>2
  <2> QED
    BY <2>1, <2>2
<1>7. Written'
  <2>1. ASSUME NEW s \in DOMAIN sessions'
        PROVE  /\ MessagesOf(s, sessions[s].messages)'
               /\ (s # 0 => Begun(s)' /\ requests'[s].session = NoSession)
    <3>1. CASE s = h /\ Stores(r)
      <4>1. sessions'[s].messages = longer
        BY <1>5, <3>1 DEF Stores
      <4>2. MessagesOf(s, sessions[s].messages)'
        BY <1>6, <3>1, <4>1 DEF MessagesOf
      <4>3. s # 0 => Begun(s)' /\ requests'[s].session = NoSession
        <5>1. s # 0 => s \in Sent /\ Begun(s) /\ requests[s].session = NoSession
          BY <1>3, <3>1 DEF Written, Typed
        <5> QED
          BY <1>0, <1>1, <5>1 DEF Begun, SameSender, Stays
      <4> QED
        BY <4>2, <4>3
    <3>2. CASE ~(s = h /\ Stores(r))
      <4>1. s \in DOMAIN sessions /\ sessions'[s] = sessions[s]
        BY <1>2, <2>1, <3>2 DEF Stores, Declines
      <4>2. /\ MessagesOf(s, sessions[s].messages)
            /\ (s # 0 => s \in Sent /\ Begun(s) /\ requests[s].session = NoSession)
        BY <4>1 DEF Written, Typed
      <4>3. MessagesOf(s, sessions[s].messages)'
        BY <1>0, <1>1, <4>1, <4>2, MessagesStay DEF MessagesOf
      <4> QED
        BY <1>0, <1>1, <4>2, <4>3 DEF Begun, SameSender, Stays
    <3> QED
      BY <3>1, <3>2
  <2>2. ASSUME NEW q \in Sent'
        PROVE  IF requests'[q].session = NoSession THEN requests'[q].kind = "ask" /\ requests'[q].copy = <<>>
               ELSE MessagesOf(requests[q].session, requests[q].copy)'
    <3>1. /\ requests'[q].session = requests[q].session /\ requests'[q].kind = requests[q].kind
          /\ requests'[q].copy = requests[q].copy
      BY <1>0, <2>2 DEF Stays, SameSender
    <3>2. CASE requests[q].session = NoSession
      BY <1>0, <2>2, <3>1, <3>2 DEF Written
    <3>3. CASE requests[q].session # NoSession
      <4>1. MessagesOf(requests[q].session, requests[q].copy)
        BY <1>0, <2>2, <3>3 DEF Written
      <4> QED
        BY <1>0, <1>1, <3>1, <3>3, <4>1, MessagesStay DEF MessagesOf
    <3> QED
      BY <3>2, <3>3
  <2> QED
    BY <2>1, <2>2 DEF Written
<1>8. Matching'
  <2> SUFFICES ASSUME NEW q \in Sent'
               PROVE  /\ Saved(q)' => requests'[q].answers = Home(q)' /\ Home(q)' \in DOMAIN sessions'
                      /\ Accepted(q)' /\ Home(q)' \in DOMAIN sessions' =>
                           /\ requests'[q].selection = sessions'[Home(q)'].selection
                           /\ requests'[q].owner = "account" => sessions'[Home(q)'].owner = "account"
    BY DEF Matching
  <2>1. Home(q)' = Home(q) /\ q \in Sent
    BY <1>0, <1>1
  <2>2. h \in DOMAIN sessions => /\ sessions'[h].selection = sessions[h].selection
                                 /\ sessions'[h].owner = sessions[h].owner
    <3>1. CASE Stores(r)
      <4>1. SelectionOf(r) = sessions[h].selection
        BY <1>1, <1>3 DEF SelectionOf, Matching
      <4> QED
        BY <1>3, <3>1, <4>1 DEF Stores
    <3>2. CASE Declines(r)
      BY <3>2 DEF Declines
    <3> QED
      BY <1>2, <3>1, <3>2
  <2>3. CASE q # r
    <3>1. (Saved(q)' <=> Saved(q)) /\ (Accepted(q)' <=> Accepted(q)) /\ Stays(q)
      BY <1>0, <2>1, <2>3 DEF Stays, Saved, Accepted
    <3>3. Home(q) \in DOMAIN sessions' => /\ Home(q) \in DOMAIN sessions
                                         /\ sessions'[Home(q)].selection = sessions[Home(q)].selection
                                         /\ sessions'[Home(q)].owner = sessions[Home(q)].owner
      BY <1>2, <1>3, <2>2 DEF Stores, Declines
    <3>4. Saved(q) => requests[q].answers = Home(q) /\ Home(q) \in DOMAIN sessions'
      BY <1>2, <2>1 DEF Matching
    <3> QED
      BY <2>1, <3>1, <3>3, <3>4 DEF Matching, Stays
  <2>4. CASE q = r
    <3>1. requests[r].selection = sessions'[h].selection
      BY <1>1, <1>3, <2>2 DEF Matching
    <3>2. requests[r].owner = "account" => sessions'[h].owner = "account"
      <4>1. CASE Stores(r)
        BY <4>1 DEF Stores
      <4>2. CASE Declines(r)
        BY <1>1, <2>2, <4>2 DEF Declines, Matching
      <4> QED
        BY <1>2, <4>1, <4>2
    <3> QED
      BY <1>0, <1>2, <2>1, <2>4, <3>1, <3>2 DEF SameSender
  <2> QED
    BY <2>3, <2>4
<1>9. LostOnlyByOverlap'
  <2> SUFFICES ASSUME NEW q \in Sent', NEW s, s = requests'[q].answers, Saved(q)', s \in DOMAIN sessions',
                      ~Contains(sessions'[s].messages, q)
               PROVE  \/ requests'[q].owner # sessions'[s].owner
                      \/ \E p \in Range(sessions'[s].messages) \ {0, q} :
                           requests'[p].answers = s /\ ~Contains(requests'[p].copy, q)
    BY DEF LostOnlyByOverlap, Saved, Sent
  <2>1. CASE s = h /\ Stores(r)
    <3>1. sessions'[s].messages = longer /\ q # r
      BY <1>5, <2>1 DEF Stores
    <3>2. ~Contains(requests'[r].copy, q)
      BY <1>0, <1>5, <3>1 DEF Contains, Range
    <3> QED
      BY <1>0, <1>1, <1>5, <2>1, <3>1, <3>2
  <2>2. CASE q = r /\ Declines(r)
    BY <1>0, <2>2 DEF Declines, SameSender
  <2>3. CASE ~(s = h /\ Stores(r)) /\ ~(q = r /\ Declines(r))
    <3>1. s \in DOMAIN sessions /\ sessions'[s] = sessions[s]
      BY <1>2, <2>3 DEF Stores, Declines
    <3>2. q # r /\ q \in Sent /\ Stays(q) /\ Saved(q)
      BY <1>0, <1>2, <2>3 DEF Stays, Saved
    <3>3. CASE requests[q].owner # sessions[s].owner
      BY <3>1, <3>2, <3>3 DEF Stays
    <3>4. CASE \E p \in Range(sessions[s].messages) \ {0, q} :
                 requests[p].answers = s /\ ~Contains(requests[p].copy, q)
      <4>1. PICK p \in Range(sessions[s].messages) \ {0, q} :
                   requests[p].answers = s /\ ~Contains(requests[p].copy, q)
        BY <3>4
      <4>2. p \in Sent /\ Saved(p)
        BY <3>1, <4>1 DEF Written, MessagesOf, Range
      <4> QED
        BY <1>1, <3>1, <4>1, <4>2 DEF Stays
    <3> QED
      BY <3>1, <3>2, <3>3, <3>4 DEF LostOnlyByOverlap, Saved, Sent, Stays
  <2> QED
    BY <2>1, <2>2, <2>3, <1>2
<1> QED
  BY <1>7, <1>8, <1>9

(* The steps of the browser send at most one request, and move no message. *)
LEMMA UserSound ==
    ASSUME Typed, Written, Matching, LostOnlyByOverlap, User
    PROVE  Written' /\ Matching' /\ LostOnlyByOverlap'
<1>1. ASSUME NEW kind \in {"ask", "load"}, NEW s \in {NoSession} \cup DOMAIN sessions,
             s = NoSession => kind = "ask",
             Sends(Request(kind, s, identity)), sessions' = sessions
      PROVE  Written' /\ Matching' /\ LostOnlyByOverlap'
  <2> DEFINE new == Request(kind, s, identity)
  <2>1. new \in Asked /\ new.kind = kind /\ new.session = s /\ new.service = "sent" /\ new.copy = <<>>
    BY NewRequest
  <2> HIDE DEF new
  <2>2. /\ Sent' = Sent \cup {Len(requests) + 1} /\ Len(requests) + 1 \notin Sent
        /\ \A q \in Sent : requests'[q] = requests[q]
        /\ requests'[Len(requests) + 1] = new
    BY <1>1, <2>1, SendsOne DEF new
  <2>3. SessionsStay /\ (\A q \in Sent : Stays(q)) /\ \A q \in Sent' \ Sent : Fresh(q)
    BY <1>1, <2>1, <2>2 DEF SessionsStay, Stays, Fresh
  <2> QED
    BY <2>2, <2>3, StaysSound
<1>2. ASSUME requests' = requests, sessions' = sessions \/ ClaimVisitorData
      PROVE  Written' /\ Matching' /\ LostOnlyByOverlap'
  <2>1. SessionsStay
    BY <1>2, ClaimSessions DEF SessionsStay
  <2>2. Sent' = Sent /\ \A q \in Sent : Stays(q)
    BY <1>2 DEF Sent, Stays
  <2> QED
    BY <2>1, <2>2, StaysSound
<1>3. CASE HandleSend
  BY <1>1, <1>3 DEF HandleSend, Sends, Typed
<1>4. ASSUME NEW s \in Visible, HandleLoadSession(s)
      PROVE  Written' /\ Matching' /\ LostOnlyByOverlap'
  <2>1. s \in DOMAIN sessions /\ s # NoSession
    BY SentInNat DEF Visible
  <2> QED
    BY <1>1, <1>4, <2>1 DEF HandleLoadSession, Sends
<1>5. CASE ~HandleSend /\ ~\E s \in Visible : HandleLoadSession(s)
  BY <1>2, <1>5
     DEF User, HandleNewChat, StartWithSelection, SelectByAddress, SelectionStarts, Reopen,
     SignIn, ClaimVisitorData, page
<1> QED
  BY <1>3, <1>4, <1>5

LEMMA IdentityReadySound ==
    ASSUME Typed, Written, Matching, LostOnlyByOverlap, IdentityReady
    PROVE  Written' /\ Matching' /\ LostOnlyByOverlap'
<1>1. SessionsStay /\ Sent' = Sent /\ \A q \in Sent : Stays(q)
  BY DEF IdentityReady, SessionsStay, Sent, Stays
<1> QED
  BY <1>1, StaysSound

LEMMA AnswerSound ==
    ASSUME Typed, Written, Matching, LostOnlyByOverlap, NEW r \in Sent, Answer(r)
    PROVE  Written' /\ Matching' /\ LostOnlyByOverlap'
<1>1. sessions' = sessions
  BY DEF Answer, AnswerDone, StreamEnds, StreamFails, SessionLoaded, LoadFails
<1>2. Sent' = Sent /\ \A q \in Sent : Stays(q)
  BY AnswerStep DEF Arrives, Progress, SameSender, Stays
<1>3. SessionsStay
  BY <1>1 DEF SessionsStay
<1> QED
  BY <1>2, <1>3, StaysSound

(* A question new in the view is new among the requests; an answer marks the
   question where it stands, and a loaded session holds each of its own once. *)
LEMMA ViewOnce ==
    ASSUME Typed, Written, Matching, Once, [Next]_vars
    PROVE  Once'
<1>1. CASE shown' = shown
  BY <1>1 DEF Once, IsInjective
<1>2. CASE shown' = <<>>
  BY <1>2 DEF Once, IsInjective
<1>3. CASE HandleSend
  <2> DEFINE new == [question |-> Len(requests) + 1, text |-> "waiting"]
  <2>1. shown' = Append(shown, new) /\ new.question = Len(requests) + 1
    BY <1>3 DEF HandleSend
  <2>2. \A i \in DOMAIN shown : shown[i].question # Len(requests) + 1
    BY SentInNat DEF Typed
  <2>3. shown \in Seq(Shown) /\ DOMAIN shown = 1..Len(shown)
    BY DEF Typed
  <2> HIDE DEF new
  <2>4. /\ DOMAIN shown' = 1..Len(shown) + 1 /\ shown'[Len(shown) + 1] = new
        /\ \A i \in DOMAIN shown : shown'[i] = shown[i]
    BY <2>1, <2>3
  <2> QED
    BY <2>1, <2>2, <2>3, <2>4 DEF Once, IsInjective
<1>4. ASSUME NEW r \in Sent, NEW text \in {"answered", "failed"}, shown' = Marked(r, text)
      PROVE  Once'
  <2>1. DOMAIN shown' = DOMAIN shown /\ \A i \in DOMAIN shown : shown'[i].question = shown[i].question
    BY <1>4, MarkedTypes DEF Marked
  <2> QED
    BY <2>1 DEF Once, IsInjective
<1>5. ASSUME NEW r \in Sent, requests[r].kind = "load", shown' = Loaded(requests[r].copy)
      PROVE  Once'
  BY <1>5, LoadedOfRequest DEF Once
<1>6. ASSUME NEW r \in Sent, Answer(r)
      PROVE  Once'
  BY <1>1, <1>4, <1>5, <1>6
     DEF Answer, AnswerDone, StreamEnds, StreamFails, SessionLoaded, LoadFails
<1>7. CASE User
  BY <1>1, <1>2, <1>3, <1>7 DEF User, HandleLoadSession, HandleNewChat, StartWithSelection,
     SelectByAddress, SelectionStarts, Reopen, SignIn, ClaimVisitorData
<1>8. ASSUME NEW r \in Sent, Service(r)
      PROVE  Once'
  BY <1>1, <1>8 DEF Service, QueryBegins, QueryFails, CreateSession, PersistQuery, ReadSession
<1>9. CASE UNCHANGED vars
  BY <1>1, <1>9 DEF vars
<1>10. CASE IdentityReady
  BY <1>2, <1>10 DEF IdentityReady
<1> QED
  BY <1>6, <1>7, <1>8, <1>9, <1>10 DEF Next, Sent

LEMMA InitSound == Init => Sound
<1> SUFFICES ASSUME Init PROVE Sound
  OBVIOUS
<1>1. Typed
  BY InitTyped
<1>2. PICK sel \in Selections :
        sessions = [s \in {0} |-> [owner |-> "visitor", selection |-> sel, messages |-> <<0>>]]
  BY DEF Init
<1>3. DOMAIN sessions = {0} /\ sessions[0].messages = <<0>> /\ Sent = {} /\ shown = <<>>
  BY <1>2 DEF Init, Sent
<1>4. <<0>>[1] = 0 /\ DOMAIN <<0>> = {1}
  OBVIOUS
<1>5. Written
  BY <1>3, <1>4 DEF Written, MessagesOf, IsInjective
<1>6. Matching /\ LostOnlyByOverlap
  BY <1>3 DEF Matching, LostOnlyByOverlap, Sent
<1>7. Once
  BY <1>3 DEF Once, IsInjective
<1> QED
  BY <1>1, <1>5, <1>6, <1>7 DEF Sound, Once

LEMMA NextSound == Sound /\ [Next]_vars => Sound'
<1> SUFFICES ASSUME Sound, [Next]_vars PROVE Sound'
  OBVIOUS
<1>0. Typed /\ Written /\ Matching /\ LostOnlyByOverlap /\ Once
  BY DEF Sound, Once
<1>1. Typed' /\ Once'
  BY <1>0, NextTyped, ViewOnce
<1>2. Written' /\ Matching' /\ LostOnlyByOverlap'
  <2>1. CASE User
    BY <1>0, <2>1, UserSound
  <2>2. ASSUME NEW r \in Sent, Service(r)
        PROVE  Written' /\ Matching' /\ LostOnlyByOverlap'
    BY <1>0, <2>2, QueryBeginsSound, QueryFailsSound, CreateSessionSound, PersistQuerySound,
       ReadSessionSound DEF Service
  <2>3. ASSUME NEW r \in Sent, Answer(r)
        PROVE  Written' /\ Matching' /\ LostOnlyByOverlap'
    BY <1>0, <2>3, AnswerSound
  <2>4. CASE UNCHANGED vars
    <3>1. SessionsStay /\ Sent' = Sent /\ \A q \in Sent : Stays(q)
      BY <2>4 DEF vars, SessionsStay, Stays, Sent
    <3> QED
      BY <1>0, <3>1, StaysSound
  <2>5. CASE IdentityReady
    BY <1>0, <2>5, IdentityReadySound
  <2> QED
    BY <2>1, <2>2, <2>3, <2>4, <2>5 DEF Next, Sent
<1> QED
  BY <1>1, <1>2 DEF Sound, Once

LEMMA AlwaysSound == Spec => []Sound
BY InitSound, NextSound, PTL DEF Spec

LEMMA SeqWithin ==
    ASSUME NEW S, NEW T, NEW messages \in Seq(S), \A i \in DOMAIN messages : messages[i] \in T
    PROVE  messages \in Seq(T)
<1>1. Len(messages) \in Nat /\ messages \in [1..Len(messages) -> T]
  OBVIOUS
<1> QED
  BY <1>1

LEMMA SoundSessions == Sound => SessionsAreTrue
<1> SUFFICES ASSUME Sound PROVE SessionsAreTrue
  OBVIOUS
<1>0. Typed /\ Written /\ Matching /\ LostOnlyByOverlap /\ Once
  BY DEF Sound, Once
<1>1. MaxRequests \in Nat /\ Sent = 1..Len(requests) /\ Len(requests) \in 0..MaxRequests
      /\ {0} \cup Sent \subseteq 0..MaxRequests
  BY <1>0, VisitTypes, SentInNat DEF Typed
<1>2. ASSUME NEW s \in DOMAIN sessions
      PROVE  /\ s \in 0..MaxRequests /\ sessions[s].owner \in Owners /\ sessions[s].selection \in Selections
             /\ sessions[s].messages \in Seq(0..MaxRequests)
             /\ IsInjective(sessions[s].messages)
             /\ \A q \in Range(sessions[s].messages) \ {0} : requests[q].selection = sessions[s].selection
  <2>1. sessions[s] \in Kept /\ s \in {0} \cup Sent /\ MessagesOf(s, sessions[s].messages)
    BY <1>0 DEF Typed, Written
  <2>2. PICK messages \in Seq(Nat) : messages = sessions[s].messages
    BY <2>1 DEF Kept
  <2>3. \A i \in DOMAIN messages : messages[i] \in 0..MaxRequests
    BY <1>1, <2>1, <2>2 DEF MessagesOf
  <2>4. messages \in Seq(0..MaxRequests)
    BY <2>2, <2>3, SeqWithin
  <2>5. \A q \in Range(messages) \ {0} : requests[q].selection = sessions[s].selection
    BY <1>0, <2>1, <2>2 DEF Range, MessagesOf, Matching, Saved, Accepted
  <2> QED
    BY <1>1, <2>1, <2>2, <2>4, <2>5 DEF Kept, MessagesOf
<1>3. shown \in Seq(Entries)
  <2>1. shown \in Seq(Shown) /\ Len(shown) \in Nat /\ DOMAIN shown = 1..Len(shown)
    BY <1>0 DEF Typed
  <2>2. ASSUME NEW i \in DOMAIN shown PROVE shown[i] \in Entries
    <3>1. shown[i] \in Shown /\ shown[i].question \in 0..MaxRequests
      BY <1>0, <1>1, <2>1 DEF Typed
    <3> QED
      BY <3>1 DEF Shown, Entries
  <2> QED
    BY <2>1, <2>2, SeqWithin
<1>4. TypeOK
  BY <1>0, <1>1, <1>2, <1>3 DEF Typed, TypeOK
<1> QED
  BY <1>0, <1>2, <1>4 DEF SessionsAreTrue, OneSelectionPerSession, AskedOnce, Once

(* QAChat.tsx, qa_service.py and account_repository.py together: a session  *)
(* holds the questions asked in it, each once and all for the engine and    *)
(* mode it was created with, through every race of questions, openings of   *)
(* the page, broken connections and the claim of a visitor's rows; and an   *)
(* answer is lost from its session only to another that overlapped it, or   *)
(* because the session changed hands.                                       *)
THEOREM SessionsHoldWhatWasAsked == Spec => []SessionsAreTrue
BY AlwaysSound, SoundSessions, PTL

-----------------------------------------------------------------------------
(* The input is locked truly. *)

LEMMA HeardOnce ==
    ASSUME Tokens, NEW q \in Sent, NEW r \in Sent, Heard(q), Heard(r)
    PROVE  q = r
  BY DEF Tokens, Heard, OnPage, IsCurrent

LEMMA HeardStays ==
    ASSUME NEW q, SameSender(q), UNCHANGED <<mount, gate>>
    PROVE  Heard(q)' <=> Heard(q)
  BY DEF SameSender, Heard, OnPage, IsCurrent

LEMMA TokensStay ==
    ASSUME Typed, Tokens, Sent' = Sent, \A q \in Sent : SameSender(q),
           mount' \in {mount, mount + 1}, gate' = gate \/ \E m \in 1..MaxMounts : Advance(m)
    PROVE  Tokens'
<1>1. mount \in Nat /\ MaxMounts \in Nat /\ \A n \in 1..MaxMounts : gate[n] \in Nat
  BY VisitTypes DEF Typed
<1>2. \A n \in 1..MaxMounts : gate'[n] \in {gate[n], gate[n] + 1}
  BY AdvanceTypes
<1>3. ASSUME NEW q \in Sent
      PROVE  requests'[q].mount \in 1..mount' /\ requests'[q].token \in 1..gate'[requests'[q].mount]
  <2>1. /\ requests'[q].mount = requests[q].mount /\ requests'[q].token = requests[q].token
        /\ requests[q].mount \in 1..mount /\ requests[q].token \in 1..gate[requests[q].mount]
        /\ requests[q].mount \in 1..MaxMounts
    BY <1>1, <1>3 DEF Tokens, SameSender, Typed
  <2> QED
    BY <1>1, <1>2, <2>1
<1> QED
  BY <1>3 DEF Tokens, SameSender

(* A question or a load is sent: its token is new, and only it is heard. *)
LEMMA SendHeard ==
    ASSUME Typed, Tokens, NEW kind \in {"ask", "load"}, NEW s \in {NoSession} \cup DOMAIN sessions,
           Sends(Request(kind, s, identity)), Advance(mount), mount' = mount,
           NEW n, n = Len(requests) + 1
    PROVE  /\ Tokens'
           /\ Sent' = Sent \cup {n} /\ \A q \in Sent : requests'[q] = requests[q] /\ ~Heard(q)'
           /\ Heard(n)' /\ requests'[n].kind = kind /\ requests'[n].session = s
           /\ requests'[n].client = "waiting"
<1> DEFINE new == Request(kind, s, identity)
<1>1. /\ new \in Asked /\ new.kind = kind /\ new.session = s /\ new.client = "waiting"
      /\ new.mount = mount /\ new.token = gate[mount] + 1
  BY NewRequest
<1> HIDE DEF new
<1>2. /\ Sent' = Sent \cup {n} /\ n \notin Sent /\ \A q \in Sent : requests'[q] = requests[q]
      /\ requests'[n] = new
  BY <1>1, SendsOne DEF new
<1>3. /\ mount \in 1..MaxMounts /\ MaxMounts \in Nat /\ \A m \in 1..MaxMounts : gate[m] \in Nat
      /\ gate'[mount] = gate[mount] + 1
      /\ \A m \in 1..MaxMounts : m # mount => gate'[m] = gate[m]
  BY VisitTypes, AdvanceTypes DEF Typed
<1>4. ASSUME NEW q \in Sent
      PROVE  /\ requests'[q].mount \in 1..mount /\ requests'[q].token \in 1..gate'[requests'[q].mount]
             /\ requests'[q].mount = mount => requests'[q].token < gate'[mount]
  <2>1. requests'[q] = requests[q] /\ requests[q].mount \in 1..mount /\ requests[q].mount \in 1..MaxMounts
        /\ requests[q].token \in 1..gate[requests[q].mount]
    BY <1>2, <1>3, <1>4 DEF Tokens
  <2> QED
    BY <1>3, <2>1
<1>5. requests'[n].mount = mount /\ requests'[n].token = gate'[mount] /\ gate'[mount] \in Nat \ {0}
  BY <1>1, <1>2, <1>3
<1>6. Tokens'
  <2>1. ASSUME NEW q \in Sent', NEW r \in Sent',
               requests'[q].mount = requests'[r].mount, requests'[q].token = requests'[r].token
        PROVE  q = r
    <3>1. CASE q = n \/ r = n
      BY <1>2, <1>3, <1>4, <1>5, <2>1, <3>1
    <3>2. CASE q # n /\ r # n
      BY <1>2, <2>1, <3>2 DEF Tokens
    <3> QED
      BY <3>1, <3>2
  <2>2. ASSUME NEW q \in Sent'
        PROVE  requests'[q].mount \in 1..mount' /\ requests'[q].token \in 1..gate'[requests'[q].mount]
    BY <1>2, <1>3, <1>4, <1>5
  <2> QED
    BY <2>1, <2>2 DEF Tokens
<1>7. \A q \in Sent : ~Heard(q)'
  BY <1>3, <1>4, <1>5 DEF Heard, OnPage, IsCurrent
<1>8. Heard(n)'
  BY <1>5 DEF Heard, OnPage, IsCurrent
<1> QED
  BY <1>1, <1>2, <1>6, <1>7, <1>8

(* Without a new question nothing is heard once the gate of the page has
   advanced, or the page was opened anew. *)
LEMMA NoneHeard ==
    ASSUME Typed, Tokens, requests' = requests,
           (Advance(mount) /\ mount' = mount) \/ mount' = mount + 1
    PROVE  \A q \in Sent : ~Heard(q)'
<1> SUFFICES ASSUME NEW q \in Sent, Heard(q)' PROVE FALSE
  OBVIOUS
<1>0. mount \in 1..MaxMounts /\ MaxMounts \in Nat /\ gate[mount] \in Nat
  BY VisitTypes DEF Typed
<1>1. requests[q].mount \in 1..mount /\ requests[q].token \in 1..gate[requests[q].mount]
  BY DEF Tokens
<1>2. requests[q].mount = mount' /\ requests[q].token = gate'[requests[q].mount]
  BY DEF Heard, OnPage, IsCurrent
<1>3. CASE Advance(mount) /\ mount' = mount
  BY <1>0, <1>1, <1>2, <1>3, AdvanceTypes
<1>4. CASE mount' = mount + 1
  BY <1>0, <1>1, <1>2, <1>4
<1> QED
  BY <1>3, <1>4

LEMMA SilentTold ==
    ASSUME Tokens', \A q \in Sent' : ~Heard(q)', ~thinking' \/ shown' = <<>>
    PROVE  Told'
  BY DEF Told, LoadsFillTheirOwn, SpinnerIsTrue, Awaited, Locked, Heard, Sent

(* Emptying the view leaves what else there is. *)
LEMMA EmptiedTold ==
    ASSUME Typed, Told, UNCHANGED <<mount, gate, active, thinking, requests>>,
           shown' = <<>> \/ shown' = shown
    PROVE  Told'
<1>0. Tokens /\ LoadsFillTheirOwn /\ SpinnerIsTrue
  BY DEF Told
<1>1. Sent' = Sent /\ \A q \in Sent : Heard(q)' <=> Heard(q)
  BY DEF Sent, Heard, OnPage, IsCurrent
<1>2. Tokens' /\ LoadsFillTheirOwn'
  BY <1>0, <1>1 DEF Tokens, LoadsFillTheirOwn, Heard
<1>3. SpinnerIsTrue'
  BY <1>0, <1>1 DEF SpinnerIsTrue, Awaited, Locked, LoadsAreOfPage, OnPage, IsCurrent, Sent
<1> QED
  BY <1>2, <1>3 DEF Told

LEMMA UserTold ==
    ASSUME Typed, Typed', Told, User, UNCHANGED visit
    PROVE  Told'
<1>0. Tokens /\ LoadsFillTheirOwn /\ SpinnerIsTrue
  BY DEF Told
<1>1. CASE HandleSend
  <2>0. PICK n : n = Len(requests) + 1
    OBVIOUS
  <2>1. Sends(Request("ask", active, identity)) /\ Advance(mount) /\ mount' = mount /\ thinking'
    BY <1>1 DEF HandleSend, Sends
  <2>2. /\ Tokens' /\ Sent' = Sent \cup {n} /\ \A q \in Sent : ~Heard(q)'
        /\ Heard(n)' /\ requests'[n].kind = "ask" /\ requests'[n].client = "waiting"
    BY <1>0, <2>0, <2>1, SendHeard DEF Typed
  <2>3. Last(shown').question = n
    <3>1. shown \in Seq(Shown) /\ shown' = Append(shown, [question |-> n, text |-> "waiting"])
      BY <1>1, <2>0 DEF HandleSend, Typed
    <3> QED
      BY <3>1 DEF Last
  <2>4. Awaited(n)'
    BY <2>2 DEF Awaited, Heard
  <2>5. LoadsFillTheirOwn'
    BY <2>2 DEF LoadsFillTheirOwn, Heard
  <2>6. SpinnerIsTrue'
    BY <2>1, <2>2, <2>3, <2>4 DEF SpinnerIsTrue, Sent
  <2> QED
    BY <2>2, <2>5, <2>6 DEF Told
<1>2. ASSUME NEW s \in Visible, HandleLoadSession(s)
      PROVE  Told'
  <2>0. PICK n : n = Len(requests) + 1
    OBVIOUS
  <2>1. /\ Sends(Request("load", s, identity)) /\ Advance(mount) /\ mount' = mount /\ thinking' = FALSE
        /\ active' = s /\ s \in DOMAIN sessions
    BY <1>2 DEF HandleLoadSession, Sends, Visible
  <2>2. /\ Tokens' /\ Sent' = Sent \cup {n} /\ \A q \in Sent : ~Heard(q)'
        /\ Heard(n)' /\ requests'[n].kind = "load" /\ requests'[n].session = s
    BY <1>0, <2>0, <2>1, SendHeard
  <2>3. LoadsFillTheirOwn'
    BY <2>1, <2>2 DEF LoadsFillTheirOwn, Heard
  <2>4. \A q \in Sent' : ~Awaited(q)'
    BY <2>2 DEF Awaited, Heard
  <2>5. SpinnerIsTrue'
    BY <2>1, <2>4 DEF SpinnerIsTrue, Locked, Sent
  <2> QED
    BY <2>2, <2>3, <2>5 DEF Told
<1>3. ASSUME requests' = requests, mount' \in {mount, mount + 1},
             gate' = gate \/ \E m \in 1..MaxMounts : Advance(m),
             (Advance(mount) /\ mount' = mount) \/ mount' = mount + 1,
             ~thinking' \/ shown' = <<>>
      PROVE  Told'
  <2>1. Sent' = Sent /\ \A q \in Sent : SameSender(q)
    BY <1>3 DEF Sent, SameSender
  <2>2. Tokens'
    BY <1>0, <1>3, <2>1, TokensStay
  <2>3. \A q \in Sent' : ~Heard(q)'
    BY <1>0, <1>3, <2>1, NoneHeard
  <2> QED
    BY <1>3, <2>2, <2>3, SilentTold
<1>4. CASE HandleNewChat
  BY <1>3, <1>4 DEF HandleNewChat, Typed
<1>5. ASSUME NEW sel \in Selections, SelectionStarts(sel)
      PROVE  Told'
  BY <1>3, <1>5 DEF SelectionStarts, Typed
<1>6. ASSUME NEW sel \in Selections, Reopen(sel)
      PROVE  Told'
  <2>1. mount + 1 \in 1..MaxMounts
    BY <1>6, VisitTypes DEF Reopen, Typed
  <2> QED
    BY <1>3, <1>6, <2>1 DEF Reopen
<1>7. CASE SignIn \/ ClaimVisitorData
  BY <1>7, EmptiedTold DEF SignIn, ClaimVisitorData, page
<1> QED
  BY <1>1, <1>2, <1>4, <1>5, <1>6, <1>7 DEF User, StartWithSelection, SelectByAddress

LEMMA ServiceTold ==
    ASSUME Typed, Told, NEW r \in Sent, Service(r)
    PROVE  Told'
<1>0. Tokens /\ LoadsFillTheirOwn /\ SpinnerIsTrue
  BY DEF Told
<1>1. Progress(r) /\ requests'[r].client = requests[r].client
  BY QueryBeginsStep, QueryFailsStep, CreateSessionStep, PersistQueryStep, ReadSessionStep DEF Service
<1>2. UNCHANGED <<shown, mount, gate, active, thinking>>
  BY DEF Service, QueryBegins, QueryFails, CreateSession, PersistQuery, ReadSession, page
<1>3. Sent' = Sent /\ \A q \in Sent : SameSender(q) /\ requests'[q].client = requests[q].client
  BY <1>1 DEF Progress, SameSender
<1>4. \A q \in Sent : (Heard(q)' <=> Heard(q)) /\ (OnPage(q)' <=> OnPage(q)) /\ (Awaited(q)' <=> Awaited(q))
  BY <1>2, <1>3 DEF Heard, OnPage, IsCurrent, Awaited, SameSender
<1>5. Tokens'
  BY <1>0, <1>2, <1>3, TokensStay
<1>6. LoadsFillTheirOwn'
  BY <1>0, <1>2, <1>3, <1>4 DEF LoadsFillTheirOwn, Heard, SameSender
<1>7. SpinnerIsTrue'
  BY <1>0, <1>2, <1>3, <1>4 DEF SpinnerIsTrue, Locked, LoadsAreOfPage, SameSender, Sent
<1> QED
  BY <1>5, <1>6, <1>7 DEF Told

(* Marking an answer leaves the questions where they stand. *)
LEMMA MarkedLast ==
    ASSUME Typed, NEW r, NEW text \in {"answered", "failed"}, shown' = Marked(r, text)
    PROVE  (shown' = <<>> <=> shown = <<>>) /\ (shown # <<>> => Last(shown').question = Last(shown).question)
<1>1. /\ shown \in Seq(Shown) /\ shown' \in Seq(Shown) /\ Len(shown') = Len(shown)
      /\ \A i \in DOMAIN shown : shown'[i].question = shown[i].question
  BY MarkedTypes DEF Typed
<1>2. shown # <<>> => Len(shown) \in DOMAIN shown
  BY <1>1
<1> QED
  BY <1>1, <1>2 DEF Last

LEMMA AnswerTold ==
    ASSUME Typed, Told, NEW r \in Sent, Answer(r)
    PROVE  Told'
<1>0. Tokens /\ LoadsFillTheirOwn /\ SpinnerIsTrue
  BY DEF Told
<1>1. /\ Sent' = Sent /\ \A q \in Sent : SameSender(q) /\ (q # r => requests'[q] = requests[q])
  BY AnswerStep DEF Arrives, Progress, SameSender
<1>2. UNCHANGED <<mount, gate>>
  BY DEF Answer, AnswerDone, StreamEnds, StreamFails, SessionLoaded, LoadFails, page
<1>3. /\ \A q \in Sent : (Heard(q)' <=> Heard(q)) /\ (OnPage(q)' <=> OnPage(q))
      /\ \A q \in Sent : q # r => (Awaited(q)' <=> Awaited(q))
      /\ \A q \in Sent : Awaited(q) => Heard(q)
      /\ LoadsAreOfPage' <=> LoadsAreOfPage
  <2>1. \A q \in Sent : (Heard(q)' <=> Heard(q)) /\ (OnPage(q)' <=> OnPage(q))
    BY <1>1, <1>2, HeardStays DEF OnPage, SameSender
  <2> QED
    BY <1>1, <1>2, <2>1 DEF Awaited, Heard, OnPage, IsCurrent, LoadsAreOfPage, SameSender, Sent
<1>4. Tokens'
  BY <1>0, <1>1, <1>2, TokensStay
<1>5. LoadsFillTheirOwn'
  <2> SUFFICES ASSUME NEW q \in Sent, requests[q].kind = "load", Heard(q)
               PROVE  requests[q].session = active' /\ ~thinking'
    BY <1>1, <1>3 DEF LoadsFillTheirOwn, Heard, SameSender
  <2>1. requests[q].session = active /\ ~thinking
    BY <1>0 DEF LoadsFillTheirOwn, Heard
  <2>2. Heard(r) => r = q
    BY <1>0, HeardOnce
  <2>3. active' = active
    BY <2>2 DEF Heard, Answer, AnswerDone, StreamEnds, StreamFails, SessionLoaded, LoadFails, page
  <2>4. ~thinking => ~thinking'
    BY
       DEF Answer, AnswerDone, StreamEnds, StreamFails, SessionLoaded, LoadFails, StopsThinking,
           page
  <2> QED
    BY <2>1, <2>3, <2>4
<1>6. SpinnerIsTrue'
  <2>1. CASE AnswerDone(r)
    <3>1. Awaited(r)' <=> Awaited(r)
      <4>1. requests'[r].client = "done" /\ requests[r].client = "waiting"
        BY <2>1, AnswerStep DEF AnswerDone, Arrives
      <4> QED
        BY <1>1, <1>3, <4>1 DEF Awaited, Heard, SameSender
    <3>2. thinking' = thinking /\ (shown' = shown \/ shown' = Marked(r, "answered"))
      BY <2>1 DEF AnswerDone
    <3>3. (shown' = <<>> <=> shown = <<>>) /\ (shown # <<>> => Last(shown').question = Last(shown).question)
      BY <3>2, MarkedLast
    <3> QED
      BY <1>0, <1>1, <1>3, <3>1, <3>2, <3>3 DEF SpinnerIsTrue, Locked, Sent
  <2>2. CASE StreamEnds(r) \/ StreamFails(r)
    <3>1. ~Awaited(r)' /\ thinking' = IF Heard(r) THEN FALSE ELSE thinking
      <4>1. requests'[r].client = "closed"
        BY <2>2, AnswerStep DEF Arrives
      <4> QED
        BY <2>2, <4>1 DEF Awaited, StreamEnds, StreamFails, StopsThinking, Heard
    <3>2. \A q \in Sent : Awaited(q)' => thinking'
      BY <1>0, <1>3, <3>1, HeardOnce DEF SpinnerIsTrue, Sent
    <3>3. shown' = shown \/ shown' = Marked(r, "failed")
      BY <2>2 DEF StreamEnds, StreamFails
    <3>4. (shown' = <<>> <=> shown = <<>>) /\ (shown # <<>> => Last(shown').question = Last(shown).question)
      BY <3>3, MarkedLast
    <3>5. ASSUME Locked'
          PROVE  \E q \in Sent : Awaited(q)' /\ Last(shown').question = q
      <4>1. Locked /\ ~Heard(r)
        BY <1>3, <3>1, <3>4, <3>5 DEF Locked
      <4>2. PICK q \in Sent : Awaited(q) /\ Last(shown).question = q
        BY <1>0, <4>1 DEF SpinnerIsTrue, Sent
      <4>3. q # r
        BY <1>3, <4>1, <4>2
      <4> QED
        BY <1>3, <3>4, <4>1, <4>2, <4>3 DEF Locked
    <3> QED
      BY <1>1, <3>2, <3>5 DEF SpinnerIsTrue, Sent
  <2>3. CASE SessionLoaded(r) \/ LoadFails(r)
    <3>1. requests[r].kind = "load" /\ thinking' = thinking /\ ~Awaited(r) /\ ~Awaited(r)'
      BY <1>1, <2>3 DEF SessionLoaded, LoadFails, page, Awaited, SameSender
    <3>2. \A q \in Sent : Awaited(q)' => thinking'
      BY <1>0, <1>3, <3>1 DEF SpinnerIsTrue, Sent
    <3>3. ASSUME Locked'
          PROVE  \E q \in Sent : Awaited(q)' /\ Last(shown').question = q
      <4>1. ~Heard(r)
        BY <1>0, <3>1, <3>3 DEF Locked, LoadsFillTheirOwn, Heard
      <4>2. LoadsAreOfPage /\ OnPage(r)
        BY <1>3, <3>1, <3>3 DEF Locked, LoadsAreOfPage, Sent
      <4>3. shown' = shown
        BY <2>3, <4>1, <4>2 DEF SessionLoaded, LoadFails, Heard
      <4>4. Locked
        BY <3>1, <3>3, <4>2, <4>3 DEF Locked
      <4> QED
        BY <1>0, <1>3, <3>1, <4>3, <4>4 DEF SpinnerIsTrue, Sent
    <3> QED
      BY <1>1, <3>2, <3>3 DEF SpinnerIsTrue, Sent
  <2> QED
    BY <2>1, <2>2, <2>3 DEF Answer
<1> QED
  BY <1>4, <1>5, <1>6 DEF Told

LEMMA InitTold == Init => Told
<1> SUFFICES ASSUME Init PROVE Told
  OBVIOUS
<1>1. Sent = {} /\ thinking = FALSE
  BY DEF Init, Sent
<1> QED
  BY <1>1 DEF Told, Tokens, LoadsFillTheirOwn, SpinnerIsTrue, Locked, Sent

LEMMA NextTold == Sound /\ Sound' /\ Told /\ [Next]_vars => Told'
<1> SUFFICES ASSUME Sound, Sound', Told, [Next]_vars PROVE Told'
  OBVIOUS
<1>0. Typed /\ Typed'
  BY DEF Sound
<1>1. CASE UNCHANGED vars
  BY <1>1 DEF vars, Told, Tokens, LoadsFillTheirOwn, SpinnerIsTrue, Locked, LoadsAreOfPage, Awaited,
     Heard, OnPage, IsCurrent, Sent
<1>2. CASE IdentityReady
  BY <1>0, <1>2, EmptiedTold DEF IdentityReady, page
<1> QED
  BY <1>0, <1>1, <1>2, UserTold, ServiceTold, AnswerTold DEF Next, Sent

LEMMA AlwaysTold == Spec => []Told
BY AlwaysSound, InitTold, NextTold, PTL DEF Spec

(* QAChat.tsx: through every race of questions, loads, new chats, changed   *)
(* selections, openings of the page and broken connections the input is     *)
(* locked while a question is awaited, and only while the question at the   *)
(* end of the view is.                                                      *)
THEOREM InputIsLockedTruly == Spec => []SpinnerIsTrue
<1>1. Told => SpinnerIsTrue
  BY DEF Told
<1> QED
  BY <1>1, AlwaysTold, PTL

(* latest-request.ts: an answered load that the page on screen still hears  *)
(* fills the view only while its session is the active one.                 *)
THEOREM LoadsFillTheirSession == Spec => LatestSelectionOfPage
<1>1. Told => \A r \in DOMAIN requests :
                SessionLoaded(r) /\ IsCurrent(r) /\ OnPage(r) => requests[r].session = active
  BY DEF Told, LoadsFillTheirOwn, Heard, SessionLoaded, Sent
<1> QED
  BY <1>1, AlwaysTold, PTL DEF LatestSelectionOfPage
=============================================================================

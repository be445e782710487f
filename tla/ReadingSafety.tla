---------------------------- MODULE ReadingSafety ----------------------------
(***************************************************************************)
(* What holds of the reader's books (Library), of the parts of a page      *)
(* (Screens) and of what the API answers them (EditionPanels) for any      *)
(* number of books, places, clicks, refused writes, reloads, countries,    *)
(* catalogs, genres, printings, shops and claims; of the walk through the  *)
(* pages (Tour), the reader's catalogue as an addon (Opds) and the account *)
(* (Accounts) for any steps, holdings, questions, browsers and addresses.  *)
(*                                                                         *)
(* Library, for a reader who touches nothing while a book opens, goes or   *)
(* is kept (Patient): at any time the tab is in one of three phases.       *)
(* Either only pages and bookmarks are on their way to storage (Turning),  *)
(* or one book is being acquired or painted (Arriving), or one request     *)
(* that takes long is all there is (Waiting), and the request fits what is *)
(* on screen.  On top of the phase: the last record on its way to storage  *)
(* is the ref's, and each one's bookmarks are the ref's but for those a    *)
(* later request still changes.                                            *)
(*                                                                         *)
(* Screens: the request that still has its number asks for what is         *)
(* selected, and what cannot be seen waits for nothing.                    *)
(*                                                                         *)
(* EditionPanels: an answer kept is one that would be given now, a copy    *)
(* stored one the policy lets through, half an answer young.               *)
(*                                                                         *)
(* Tour: what a reload would find is where the walk is, a step held for    *)
(* its page is all there is of it, and nothing else is to come.            *)
(*                                                                         *)
(* Opds: a book held since it was asked about is held, and only a          *)
(* catalogue that cannot search is without a template.                     *)
(*                                                                         *)
(* Accounts: one account per address and identity, sessions that lead to   *)
(* the account they were given for, and sign-outs that last.               *)
(***************************************************************************)
EXTENDS Library, Accounts, Screens, EditionPanels, Tour, Opds, FiniteSetTheorems, TLAPS

-----------------------------------------------------------------------------
(* The reader's books: what a request may be, and what the tab may be at.  *)

Dos == {"save", "mark", "remember", "readBook", "readEntry", "flag", "drop", "readFile", "keep", "forget", "dropFile"}
Requests == [do : Dos, hash : Books, record : Records \cup {None}, was : States, want : BOOLEAN,
             place : Places \cup {Start}]
Openings == [hash : Books, stage : {"acquire", "view", "paint"}, known : Records \cup {None}]

(* One request under way, or none. *)
Sole(q, s, req) == q = [x \in Stores |-> IF x = s THEN <<req>> ELSE <<>>]
Still(q) == q = [x \in Stores |-> <<>>]

BookOK ==
  /\ recordRef \in Records /\ recordRef.hash = view
  /\ state.record \in Records /\ state.record.hash = view

Remembers(b) == IF books[b] = None THEN NewRecord(b) ELSE books[b]

(* A page or a bookmark on its way to storage. *)
PendingOK(req) ==
  /\ req.do \in {"save", "mark"} /\ req.record \in Records
  /\ req.hash = view /\ req.record.hash = view /\ req.record.keep = recordRef.keep
  /\ req.do = "mark" => req.was.kind = "open" /\ req.place \in Places
Turning ==
  /\ opening = {} /\ queue["files"] = <<>>
  /\ \A i \in DOMAIN queue["books"] : PendingOK(queue["books"][i])
  /\ Open \/ Still(queue)

(* One book under way, and what is known of it. *)
Knows(l) ==
  /\ l \in Openings
  /\ l.known # None => l.known.hash = l.hash
  /\ l.stage = "paint" => view = l.hash
  /\ ~ReadsFail /\ l.stage # "acquire" => l.known = books[l.hash]
Arriving == Still(queue) /\ ~Open /\ \E l \in opening : opening = {l} /\ Knows(l)

(* One long request under way, and what it may rely on. *)
Toggling(req) ==
  /\ Open /\ toggled = TRUE /\ req.was = state /\ req.hash = view
Unmarked(b) == \A p \in Places : told[b][p] = "none"
Step(s, req) ==
  \/ s = "files" /\ req.do = "readFile" /\ ~Open
  \/ s = "files" /\ req.do = "dropFile" /\ ~Open /\ Unmarked(req.hash)
  \/ s = "books" /\ req.do = "readBook" /\ ~Open
  \/ /\ s = "books" /\ req.do = "remember" /\ ~Open
     /\ req.record \in Records /\ req.record.hash = req.hash /\ view = req.hash
     /\ ~ReadsFail => req.record = Remembers(req.hash)
  \/ s = "files" /\ req.do = "keep" /\ req.want = TRUE /\ Toggling(req)
  \/ s = "files" /\ req.do = "forget" /\ req.want = FALSE /\ Toggling(req)
  \/ s = "books" /\ req.do = "readEntry" /\ Toggling(req) /\ (req.want <=> req.hash \in files)
  \/ /\ s = "books" /\ req.do = "flag" /\ Toggling(req) /\ (req.want <=> req.hash \in files)
     /\ books[req.hash] # None /\ req.record = [books[req.hash] EXCEPT !.keep = req.want]
  \/ s = "books" /\ req.do = "drop" /\ ~Open /\ Unmarked(req.hash) /\ (req.hash \in torn \/ req.hash \notin files)
Waiting == opening = {} /\ \E s \in Stores : \E req \in Asked(s) : Sole(queue, s, req) /\ Step(s, req)

(* What the tab is at. *)
Phases == Turning \/ Arriving \/ Waiting

(* What every variable holds; an open book's record is the ref's and the   *)
(* rendered one's, under the view's hash.                                  *)
Types ==
  /\ books \in [Books -> Records \cup {None}]
  /\ \A b \in Books : books[b] # None => books[b].hash = b
  /\ files \subseteq Books
  /\ queue \in [Stores -> Seq(Requests)] /\ \A s \in Stores : Len(queue[s]) <= MaxPending
  /\ state \in States /\ (state.kind = "open" <=> state.record # None)
  /\ recordRef \in Records \cup {None}
  /\ view \in Books \cup {"none"} /\ here \in Places \cup {Start}
  /\ refusals \in Nat /\ told \in [Books -> [Places -> Marks]] /\ torn \subseteq Books
  /\ toggled \in BOOLEAN
  /\ Open => BookOK

(* Where the reader is is what storage has, or will have once it answers.  *)
LastWritten(q, stored) == IF q = <<>> THEN stored ELSE q[Len(q)].record
PlaceOK ==
  Open /\ refusals = 0 /\ ~toggled => here = recordRef.place /\ LastWritten(queue["books"], books[view]) = recordRef

(* A bookmark on its way to storage is the ref's, unless a later request   *)
(* changes it again; one the reader was told of is everywhere.             *)
Later(q, i, p) == \E k \in DOMAIN q : k > i /\ q[k].do = "mark" /\ q[k].place = p
MergesTo(q, marks) ==
  \A i \in DOMAIN q : q[i].do \in {"save", "mark"} =>
    \A p \in Places : q[i].record.marks[p] = marks[p] \/ Later(q, i, p)
MarksMerge == Open => MergesTo(queue["books"], recordRef.marks)
MarksOK ==
  /\ MarksKept
  /\ Open => \A p \in Places : told[view][p] # "none" =>
       /\ recordRef.marks[p] = told[view][p] /\ state.record.marks[p] = told[view][p]
       /\ ~Later(queue["books"], 0, p)

(* A record's flag and its bytes agree but between a request's two halves. *)
Midway(q, b) == \E i \in DOMAIN q : q[i].hash = b /\ q[i].do \in {"readEntry", "flag", "drop"}
FlagsOK ==
  \A b \in Books \ torn : ~Midway(queue["books"], b) =>
    /\ (books[b] # None /\ books[b].keep) <=> b \in files
    /\ Open /\ view = b => (recordRef.keep <=> b \in files) /\ (state.record.keep <=> b \in files)

ReaderInv == Types /\ Phases /\ PlaceOK /\ MarksMerge /\ (~ReadsFail => MarksOK /\ FlagsOK)

-----------------------------------------------------------------------------
(* Records and requests, as progress.ts and the callers make them. *)

LEMMA NoneIsNoRecord == None \notin Records
  BY DEF None, Records

LEMMA MovesAre ==
  ASSUME NEW r \in Records, NEW p \in Places
  PROVE  LET n == WithPosition(r, p)
         IN n \in Records /\ n.hash = r.hash /\ n.keep = r.keep /\ n.marks = r.marks /\ n.place = p
  BY DEF WithPosition, Records

LEMMA MarkingIs ==
  ASSUME NEW r \in Records, NEW p \in Places,
         NEW n \in {WithBookmark(r, p), WithBookmarkNote(r, p), WithoutBookmark(r, p)}
  PROVE  /\ n \in Records /\ n.hash = r.hash /\ n.keep = r.keep /\ n.place = r.place
         /\ \A q \in Places : q # p => n.marks[q] = r.marks[q]
  <1>1. r.marks \in [Places -> Marks]
    BY DEF Records
  <1>2. ASSUME NEW m \in Marks
        PROVE  LET w == [r EXCEPT !.marks[p] = m]
               IN /\ w \in Records /\ w.hash = r.hash /\ w.keep = r.keep /\ w.place = r.place
                  /\ \A q \in Places : q # p => w.marks[q] = r.marks[q]
    <2>1. [r.marks EXCEPT ![p] = m] \in [Places -> Marks]
      BY <1>1
    <2> QED BY <1>1, <2>1 DEF Records
  <1>3. n = r \/ \E m \in Marks : n = [r EXCEPT !.marks[p] = m]
    BY DEF WithBookmark, WithBookmarkNote, WithoutBookmark, Marks
  <1>4. CASE n = r
    BY <1>4
  <1>5. CASE \E m \in Marks : n = [r EXCEPT !.marks[p] = m]
    BY <1>2, <1>5
  <1> QED BY <1>3, <1>4, <1>5

LEMMA KeepingIs ==
  ASSUME NEW r \in Records, NEW k \in BOOLEAN
  PROVE  LET n == [r EXCEPT !.keep = k]
         IN n \in Records /\ n.hash = r.hash /\ n.keep = k /\ n.marks = r.marks /\ n.place = r.place
  BY DEF Records

LEMMA NewIs ==
  ASSUME NEW b \in Books
  PROVE  NewRecord(b) \in Records /\ NewRecord(b).hash = b /\ NewRecord(b).keep = FALSE
  BY DEF NewRecord, Records, NoMarks, Marks

LEMMA AskIs ==
  ASSUME NEW do \in Dos, NEW b \in Books
  PROVE  Ask(do, b) \in Requests /\ Ask(do, b).do = do /\ Ask(do, b).hash = b
  <1> DEFINE blank == [kind |-> "idle", record |-> None]
  <1>1. blank \in States /\ None \in Records \cup {None} /\ Start \in Places \cup {Start}
    BY DEF States
  <1>2. Ask(do, b) = [do |-> do, hash |-> b, record |-> None, was |-> blank, want |-> FALSE, place |-> Start]
    BY DEF Ask
  <1> HIDE DEF blank
  <1> QED BY <1>1, <1>2 DEF Requests

LEMMA AskToWrite ==
  ASSUME NEW do \in Dos, NEW b \in Books, NEW r \in Records \cup {None}
  PROVE  LET q == [Ask(do, b) EXCEPT !.record = r]
         IN q \in Requests /\ q.do = do /\ q.hash = b /\ q.record = r
  BY AskIs DEF Requests

LEMMA OnwardIs ==
  ASSUME NEW req \in Requests, NEW do \in Dos
  PROVE  LET q == [req EXCEPT !.do = do]
         IN q \in Requests /\ q.do = do /\ q.hash = req.hash /\ q.was = req.was /\ q.want = req.want
  BY DEF Requests

(* What one request, or none, in a store amounts to. *)
LEMMA EmptyIs ==
  /\ \A stored : LastWritten(<<>>, stored) = stored
  /\ \A marks : MergesTo(<<>>, marks)
  /\ \A i, p : ~Later(<<>>, i, p)
  /\ \A b : ~Midway(<<>>, b)
  BY DEF LastWritten, MergesTo, Later, Midway

LEMMA OneIs ==
  ASSUME NEW req, req.do \notin {"save", "mark"}
  PROVE  /\ \A marks : MergesTo(<<req>>, marks)
         /\ \A i, p : ~Later(<<req>>, i, p)
         /\ \A b : Midway(<<req>>, b) <=> req.hash = b /\ req.do \in {"readEntry", "flag", "drop"}
  BY DEF LastWritten, MergesTo, Later, Midway

LEMMA SoleIs ==
  ASSUME NEW s \in Stores, NEW req, Sole(queue, s, req)
  PROVE  /\ queue[s] = <<req>> /\ Head(queue[s]) = req /\ Len(queue[s]) = 1
         /\ \A x \in Stores \ {s} : queue[x] = <<>>
         /\ Asked(s) = {req}
  BY DEF Sole, Asked, Stores

LEMMA StillIs ==
  ASSUME Still(queue)
  PROVE  \A s \in Stores : queue[s] = <<>> /\ Asked(s) = {}
  BY DEF Still, Asked

(* Which phase it is, from what is asked. *)
LEMMA AloneUnless ==
  ASSUME Types, Phases, NEW s \in Stores, queue[s] # <<>>, Head(queue[s]).do \notin {"save", "mark"}
  PROVE  opening = {} /\ Sole(queue, s, Head(queue[s])) /\ Step(s, Head(queue[s])) /\ Head(queue[s]) \in Requests
  <1>1. ~Turning
    <2> SUFFICES ASSUME Turning PROVE FALSE
      OBVIOUS
    <2>1. s = "books"
      BY DEF Turning, Stores
    <2>2. queue["books"] \in Seq(Requests) /\ 1 \in DOMAIN queue["books"] /\ Head(queue["books"]) = queue["books"][1]
      BY <2>1 DEF Types, Stores
    <2> QED BY <2>1, <2>2 DEF Turning, PendingOK
  <1>2. ~Arriving
    BY StillIs DEF Arriving
  <1>3. PICK x \in Stores : \E req \in Asked(x) : Sole(queue, x, req) /\ Step(x, req)
    BY <1>1, <1>2 DEF Phases, Waiting
  <1>4. PICK req \in Asked(x) : Sole(queue, x, req) /\ Step(x, req)
    BY <1>3
  <1>5. x = s /\ req = Head(queue[s])
    BY <1>4, SoleIs
  <1>6. queue[s] \in Seq(Requests)
    BY DEF Types
  <1>7. Head(queue[s]) \in Requests
    BY <1>6
  <1> QED BY <1>1, <1>2, <1>4, <1>5, <1>7 DEF Phases, Waiting

LEMMA TurningIf ==
  ASSUME Types, Phases, NEW s \in Stores, queue[s] # <<>>, Head(queue[s]).do \in {"save", "mark"}
  PROVE  Turning /\ Open /\ s = "books"
  <1>1. ~Arriving
    BY StillIs DEF Arriving
  <1>2. ~Waiting
    <2> SUFFICES ASSUME NEW x \in Stores, NEW req \in Asked(x), Sole(queue, x, req), Step(x, req) PROVE FALSE
      BY DEF Waiting
    <2>1. x = s /\ req = Head(queue[s])
      BY SoleIs
    <2> QED BY <2>1 DEF Step
  <1>3. Turning
    BY <1>1, <1>2 DEF Phases
  <1> QED BY <1>3, StillIs DEF Turning, Stores

LEMMA ArrivingIf ==
  ASSUME Types, Phases, NEW l \in opening
  PROVE  Still(queue) /\ ~Open /\ opening = {l} /\ Knows(l)
  BY DEF Phases, Turning, Arriving, Waiting

(* A patient reader only acts while nothing is under way that takes long. *)
LEMMA ClickingIs ==
  ASSUME Types, Phases, Patient, NEW s, Click(s)
  PROVE  Turning /\ UNCHANGED <<refusals, reloads>>
  <1>1. ~Busy /\ UNCHANGED <<refusals, reloads>>
    BY DEF Click
  <1>2. ~Arriving
    BY <1>1 DEF Arriving, Busy
  <1>3. ~Waiting
    BY <1>1 DEF Waiting, Busy, Lengthy, Step
  <1> QED BY <1>1, <1>2, <1>3 DEF Phases

LEMMA SoleTyped ==
  ASSUME NEW q, NEW s \in Stores, NEW req \in Requests, Sole(q, s, req), 1 <= MaxPending
  PROVE  q \in [Stores -> Seq(Requests)] /\ \A x \in Stores : Len(q[x]) <= MaxPending
  <1>1. <<req>> \in Seq(Requests) /\ <<>> \in Seq(Requests) /\ Len(<<req>>) = 1 /\ Len(<<>>) = 0
    OBVIOUS
  <1>2. MaxPending \in Nat
    BY ReaderAssumption
  <1>3. \A x \in Stores : q[x] \in {<<req>>, <<>>}
    BY DEF Sole
  <1>4. q \in [Stores -> Seq(Requests)]
    BY <1>1 DEF Sole
  <1>5. ASSUME NEW x \in Stores PROVE Len(q[x]) <= MaxPending
    <2>1. CASE q[x] = <<req>>
      BY <1>1, <1>2, <2>1
    <2>2. CASE q[x] = <<>>
      BY <1>1, <1>2, <2>2
    <2> QED BY <1>3, <2>1, <2>2
  <1> QED BY <1>4, <1>5

LEMMA StillTyped ==
  ASSUME NEW q, Still(q)
  PROVE  q \in [Stores -> Seq(Requests)] /\ \A x \in Stores : Len(q[x]) <= MaxPending
  BY ReaderAssumption DEF Still

(* How the queues move while there is one request, or none.                *)
LEMMA SentIs ==
  ASSUME Types, Still(queue), NEW s \in Stores, NEW req \in Requests,
         queue' = [queue EXCEPT ![s] = Append(@, req)]
  PROVE  Sole(queue', s, req)
  BY DEF Still, Sole

LEMMA AnsweredIs ==
  ASSUME NEW s \in Stores, NEW req, Sole(queue, s, req), Answered(s)
  PROVE  Still(queue')
  BY DEF Still, Sole, Answered

LEMMA OnwardGoes ==
  ASSUME NEW s \in Stores, NEW t \in Stores, NEW req, NEW next, Sole(queue, s, req),
         queue' = [[queue EXCEPT ![s] = Tail(@)] EXCEPT ![t] = Append(@, next)]
  PROVE  Sole(queue', t, next)
  <1>1. Tail(<<req>>) = <<>> /\ Append(<<>>, next) = <<next>>
    OBVIOUS
  <1>2. DOMAIN queue' = Stores /\ \A x \in Stores : queue'[x] = IF x = t THEN <<next>> ELSE <<>>
    BY <1>1 DEF Sole
  <1>3. queue' = [x \in Stores |-> queue'[x]]
    BY <1>2
  <1> QED BY <1>2, <1>3 DEF Sole

(* A step that leaves the stores alone, after which no book is open.       *)
LEMMA ClosedKeeps ==
  ASSUME ReaderInv, Types', Phases', ~Open', UNCHANGED <<books, files>>, torn \subseteq torn',
         \A b \in Books, p \in Places : told'[b][p] \in {told[b][p], "none"},
         \A b \in Books \ torn' : Midway(queue["books"], b) => Midway(queue'["books"], b)
  PROVE  ReaderInv'
  <1>1. PlaceOK' /\ MarksMerge'
    BY DEF PlaceOK, MarksMerge
  <1>2. ~ReadsFail => MarksOK'
    BY DEF ReaderInv, MarksOK, MarksKept
  <1>3. ~ReadsFail => FlagsOK'
    BY DEF ReaderInv, FlagsOK
  <1> QED BY <1>1, <1>2, <1>3 DEF ReaderInv

(* What a book may be left as, when it is not to be open.                  *)
LEMMA ClosedTyped ==
  ASSUME Types, UNCHANGED <<books, files, recordRef, view, here, told, torn, toggled>>,
         queue' \in [Stores -> Seq(Requests)], \A s \in Stores : Len(queue'[s]) <= MaxPending,
         refusals' \in Nat,
         (state' = state /\ ~Open) \/ \E k \in {"idle", "opening", "failed"} : state' = [kind |-> k, record |-> None]
  PROVE  Types' /\ ~Open'
  <1>1. state' \in States /\ state'.kind # "open" /\ state'.record = None
    BY DEF Types, States, Open
  <1>2. ~Open'
    BY <1>1 DEF Open
  <1> QED BY <1>1, <1>2 DEF Types

-----------------------------------------------------------------------------
(* Every step of the reader, of a book being opened and of the stores      *)
(* keeps the invariant.                                                    *)

LEMMA FailOpeningKeeps ==
  ASSUME ReaderInv, NEW l \in opening, FailOpening(l)
  PROVE  ReaderInv'
  <1>1. Still(queue) /\ opening = {l} /\ ~Open
    BY ArrivingIf DEF ReaderInv
  <1>2. Still(queue') /\ opening' = {} /\ state' = [kind |-> "failed", record |-> None]
    BY <1>1 DEF FailOpening
  <1>3. Types' /\ ~Open'
    BY <1>2, ClosedTyped, StillTyped DEF FailOpening, bounds, observers, ReaderInv, Types
  <1>4. Turning'
    BY <1>2 DEF Turning, Still, Stores
  <1> QED BY <1>2, <1>3, <1>4, ClosedKeeps DEF FailOpening, observers, Phases, Still, Stores

LEMMA AcquiredKeeps ==
  ASSUME ReaderInv, NEW l \in opening, Acquired(l)
  PROVE  ReaderInv'
  <1> DEFINE req == Ask("readBook", l.hash)
  <1>1. Still(queue) /\ opening = {l} /\ ~Open /\ Knows(l) /\ "books" \in Stores
    BY ArrivingIf DEF ReaderInv, Stores
  <1>2. req \in Requests /\ req.do = "readBook"
    BY <1>1, AskIs DEF Knows, Openings, Dos
  <1> HIDE DEF req
  <1>3. Sole(queue', "books", req)
    BY <1>1, <1>2, SentIs DEF Acquired, Send, ReaderInv, req
  <1>4. 1 <= MaxPending
    BY <1>1, ReaderAssumption DEF Acquired, Still
  <1>5. Types' /\ ~Open'
    BY <1>1, <1>2, <1>3, <1>4, SoleTyped, ClosedTyped DEF Acquired, bounds, observers, ReaderInv, Types
  <1>6. opening' = {} /\ queue'["books"] = <<req>>
    BY <1>1, <1>3 DEF Acquired, Sole
  <1>7. Waiting'
    <2>1. req \in Asked("books")'
      BY <1>6 DEF Asked
    <2>2. Step("books", req)'
      BY <1>2, <1>5 DEF Step
    <2> QED BY <1>1, <1>3, <1>6, <2>1, <2>2 DEF Waiting
  <1>8. \A b : Midway(queue["books"], b) => Midway(queue'["books"], b)
    BY <1>1, EmptyIs DEF Still
  <1> QED BY <1>5, <1>7, <1>8, ClosedKeeps DEF Acquired, observers, Phases

LEMMA ViewOpenedKeeps ==
  ASSUME ReaderInv, NEW l \in opening, ViewOpened(l)
  PROVE  ReaderInv'
  <1> DEFINE m == [l EXCEPT !.stage = "paint"]
  <1>1. Still(queue) /\ opening = {l} /\ ~Open /\ Knows(l)
    BY ArrivingIf DEF ReaderInv
  <1>2. opening' = {m} /\ view' = l.hash /\ queue' = queue /\ l.stage = "view" /\ state' = state
    BY <1>1 DEF ViewOpened
  <1>3. m \in Openings /\ m.hash = l.hash /\ m.known = l.known /\ m.stage = "paint"
    BY <1>1 DEF Knows, Openings
  <1> HIDE DEF m
  <1>4. Types' /\ ~Open'
    BY <1>1, <1>2 DEF ViewOpened, bounds, observers, ReaderInv, Types, Knows, Openings, Open
  <1>5. Knows(m)'
    BY <1>1, <1>2, <1>3 DEF Knows, ViewOpened
  <1>6. Arriving'
    BY <1>1, <1>2, <1>4, <1>5 DEF Arriving, Still
  <1> QED BY <1>2, <1>4, <1>6, ClosedKeeps DEF ViewOpened, observers, Phases

LEMMA FirstPageKeeps ==
  ASSUME ReaderInv, NEW l \in opening, FirstPage(l)
  PROVE  ReaderInv'
  <1> DEFINE r == IF l.known = None THEN NewRecord(l.hash) ELSE l.known
             req == [Ask("remember", l.hash) EXCEPT !.record = r]
  <1>1. Still(queue) /\ opening = {l} /\ ~Open /\ Knows(l) /\ "books" \in Stores
    BY ArrivingIf DEF ReaderInv, Stores
  <1>2. r \in Records /\ r.hash = l.hash /\ l.hash \in Books /\ view = l.hash
    BY <1>1, NewIs DEF Knows, Openings, FirstPage
  <1>3. ~ReadsFail => r = Remembers(l.hash)
    BY <1>1 DEF Knows, Remembers, FirstPage
  <1> HIDE DEF r
  <1>4. req \in Requests /\ req.do = "remember" /\ req.hash = l.hash /\ req.record = r
    BY <1>2, AskToWrite DEF Dos
  <1> HIDE DEF req
  <1>5. Sole(queue', "books", req)
    BY <1>1, <1>4, SentIs DEF FirstPage, Send, ReaderInv, req, r
  <1>6. 1 <= MaxPending
    BY <1>1, ReaderAssumption DEF FirstPage, Still
  <1>7. Types' /\ ~Open'
    BY <1>1, <1>4, <1>5, <1>6, SoleTyped, ClosedTyped DEF FirstPage, bounds, observers, ReaderInv, Types
  <1>8. opening' = {} /\ queue'["books"] = <<req>>
    BY <1>1, <1>5 DEF FirstPage, Sole
  <1>9. Waiting'
    <2>1. req \in Asked("books")'
      BY <1>8 DEF Asked
    <2>2. Remembers(req.hash)' = Remembers(req.hash)
      BY DEF Remembers, FirstPage
    <2>3. Step("books", req)'
      BY <1>2, <1>3, <1>4, <1>7, <2>2 DEF Step, FirstPage
    <2> QED BY <1>1, <1>5, <1>8, <2>1, <2>3 DEF Waiting
  <1>10. \A b : Midway(queue["books"], b) => Midway(queue'["books"], b)
    BY <1>1, EmptyIs DEF Still
  <1> QED BY <1>7, <1>9, <1>10, ClosedKeeps DEF FirstPage, observers, Phases

LEMMA FileReadKeeps ==
  ASSUME ReaderInv, FileRead
  PROVE  ReaderInv'
  <1> DEFINE b == Head(queue["files"]).hash
  <1>1. /\ opening = {} /\ Sole(queue, "files", Head(queue["files"])) /\ "files" \in Stores
        /\ Step("files", Head(queue["files"])) /\ Head(queue["files"]) \in Requests
    BY AloneUnless DEF FileRead, Head1, ReaderInv, Stores
  <1>2. b \in Books /\ ~Open
    BY <1>1 DEF Requests, Step, FileRead, Head1
  <1>l. PICK l : l = [hash |-> b, stage |-> "acquire", known |-> None]
    OBVIOUS
  <1>3. Still(queue')
    BY <1>1, AnsweredIs DEF FileRead
  <1>4. refusals' \in Nat
    BY DEF FileRead, ReadOutcome, Outcome, ReaderInv, Types
  <1>5. \/ opening' = {l} /\ state' = state
        \/ opening' = {} /\ state' = [kind |-> "failed", record |-> None]
    BY <1>1, <1>l DEF FileRead
  <1>6. Types' /\ ~Open'
    BY <1>2, <1>3, <1>4, <1>5, StillTyped, ClosedTyped DEF FileRead, observers, ReaderInv
  <1>7. l \in Openings /\ l.stage = "acquire" /\ l.known = None
    BY <1>2, <1>l DEF Openings
  <1>8. Knows(l)'
    BY <1>7 DEF Knows
  <1>9. Phases'
    BY <1>3, <1>5, <1>6, <1>8 DEF Phases, Arriving, Turning, Still, Stores
  <1>10. \A x : ~Midway(queue["books"], x)
    BY <1>1, EmptyIs, SoleIs DEF Stores
  <1> QED BY <1>6, <1>9, <1>10, ClosedKeeps DEF FileRead, observers

LEMMA BookReadKeeps ==
  ASSUME ReaderInv, BookRead
  PROVE  ReaderInv'
  <1> DEFINE req == Head(queue["books"])
             b == req.hash
  <1>1. /\ opening = {} /\ Sole(queue, "books", req) /\ "books" \in Stores
        /\ Step("books", req) /\ req \in Requests /\ req.do = "readBook"
    BY AloneUnless DEF BookRead, Head1, ReaderInv, Stores
  <1>2. b \in Books /\ ~Open
    BY <1>1 DEF Requests, Step
  <1>3. Still(queue')
    BY <1>1, AnsweredIs DEF BookRead
  <1>4. PICK ok \in BOOLEAN :
          /\ ReadOutcome(ok)
          /\ opening' = opening \cup {[hash |-> b, stage |-> "view", known |-> IF ok THEN books[b] ELSE None]}
    BY DEF BookRead
  <1>l. PICK l : l = [hash |-> b, stage |-> "view", known |-> IF ok THEN books[b] ELSE None]
    OBVIOUS
  <1>5. refusals' \in Nat /\ (~ReadsFail => ok)
    BY <1>4 DEF ReadOutcome, Outcome, ReaderInv, Types
  <1>6. Types' /\ ~Open'
    BY <1>2, <1>3, <1>5, StillTyped, ClosedTyped DEF BookRead, observers, ReaderInv
  <1>7. /\ l \in Openings /\ l.stage = "view" /\ l.hash = b /\ l.known \in {books[b], None}
        /\ ~ReadsFail => l.known = books[b]
    BY <1>2, <1>5, <1>l DEF Openings, ReaderInv, Types
  <1>8. opening' = {l}
    BY <1>1, <1>4, <1>l
  <1>9. Knows(l)'
    BY <1>2, <1>7 DEF Knows, ReaderInv, Types, BookRead
  <1>10. Phases'
    BY <1>3, <1>6, <1>8, <1>9 DEF Phases, Arriving
  <1>11. \A x : ~Midway(queue["books"], x)
    BY <1>1, SoleIs, OneIs
  <1> QED BY <1>6, <1>10, <1>11, ClosedKeeps DEF BookRead, observers

LEMMA OpenFileKeeps ==
  ASSUME ReaderInv, Patient, NEW b \in Books, OpenFile(b)
  PROVE  ReaderInv'
  <1> DEFINE l == [hash |-> b, stage |-> "acquire", known |-> None]
  <1>1. Turning /\ UNCHANGED refusals /\ queue["books"] = <<>>
    BY ClickingIs DEF OpenFile, ReaderInv
  <1>2. opening' = {l} /\ state' = [kind |-> "opening", record |-> None]
    BY <1>1 DEF OpenFile, Turning
  <1>3. queue' = queue /\ Still(queue)
    BY <1>1 DEF OpenFile, Turning, Click, Still, Stores, ReaderInv, Types
  <1>4. Types' /\ ~Open'
    BY <1>1, <1>2, <1>3, StillTyped, ClosedTyped DEF OpenFile, observers, ReaderInv, Types
  <1>5. l \in Openings /\ l.stage = "acquire" /\ l.known = None
    BY DEF Openings
  <1> HIDE DEF l
  <1>6. Phases'
    BY <1>2, <1>3, <1>4, <1>5 DEF Phases, Arriving, Knows, Still
  <1> QED BY <1>3, <1>4, <1>6, ClosedKeeps DEF OpenFile, observers

LEMMA OpenKeptKeeps ==
  ASSUME ReaderInv, Patient, NEW b \in Books, OpenKept(b)
  PROVE  ReaderInv'
  <1> DEFINE req == Ask("readFile", b)
  <1>1. Turning /\ UNCHANGED refusals /\ ~Open /\ Still(queue) /\ "files" \in Stores
    BY ClickingIs DEF OpenKept, ReaderInv, Turning, Stores
  <1>2. req \in Requests /\ req.do = "readFile"
    BY AskIs DEF Dos
  <1> HIDE DEF req
  <1>3. Sole(queue', "files", req)
    BY <1>1, <1>2, SentIs DEF OpenKept, Send, ReaderInv, req
  <1>4. 1 <= MaxPending
    BY <1>1, ReaderAssumption DEF OpenKept, Click, Still
  <1>5. Types' /\ ~Open'
    BY <1>1, <1>2, <1>3, <1>4, SoleTyped, ClosedTyped DEF OpenKept, observers, ReaderInv, Types
  <1>6. opening' = {} /\ queue'["files"] = <<req>> /\ queue'["books"] = <<>>
    BY <1>1, <1>3 DEF OpenKept, Sole, Turning, Stores
  <1>7. Waiting'
    <2>1. req \in Asked("files")'
      BY <1>6 DEF Asked
    <2> QED BY <1>1, <1>2, <1>3, <1>5, <1>6, <2>1 DEF Waiting, Step
  <1>8. \A x : Midway(queue["books"], x) => Midway(queue'["books"], x)
    BY <1>1, EmptyIs DEF Still, Stores
  <1> QED BY <1>5, <1>7, <1>8, ClosedKeeps DEF OpenKept, observers, Phases

LEMMA RemoveBookKeeps ==
  ASSUME ReaderInv, Patient, NEW b \in Books, RemoveBook(b)
  PROVE  ReaderInv'
  <1> DEFINE req == Ask("dropFile", b)
  <1>1. Turning /\ UNCHANGED refusals /\ ~Open /\ Still(queue) /\ "files" \in Stores
    BY ClickingIs DEF RemoveBook, ReaderInv, Turning, Stores
  <1>2. req \in Requests /\ req.do = "dropFile" /\ req.hash = b
    BY AskIs DEF Dos
  <1> HIDE DEF req
  <1>3. Sole(queue', "files", req)
    BY <1>1, <1>2, SentIs DEF RemoveBook, Send, ReaderInv, req
  <1>4. 1 <= MaxPending
    BY <1>1, ReaderAssumption DEF RemoveBook, Click, Still
  <1>5. /\ told' \in [Books -> [Places -> Marks]] /\ Unmarked(b)'
        /\ \A x \in Books, p \in Places : told'[x][p] \in {told[x][p], "none"}
    <2>1. NoMarks \in [Places -> Marks] /\ \A p \in Places : NoMarks[p] = "none"
      BY DEF NoMarks, Marks
    <2> QED BY <2>1 DEF RemoveBook, ReaderInv, Types, Unmarked
  <1>6. Types' /\ ~Open'
    BY <1>1, <1>2, <1>3, <1>4, <1>5, SoleTyped DEF RemoveBook, tab, ReaderInv, Types, Open
  <1>7. opening' = {} /\ queue'["files"] = <<req>> /\ queue'["books"] = <<>>
    BY <1>1, <1>3 DEF RemoveBook, tab, Sole, Turning, Stores
  <1>8. Waiting'
    <2>1. req \in Asked("files")'
      BY <1>7 DEF Asked
    <2> QED BY <1>1, <1>2, <1>3, <1>5, <1>6, <1>7, <2>1 DEF Waiting, Step
  <1>9. \A x : Midway(queue["books"], x) => Midway(queue'["books"], x)
    BY <1>1, EmptyIs DEF Still, Stores
  <1> QED BY <1>5, <1>6, <1>8, <1>9, ClosedKeeps DEF RemoveBook, Phases

LEMMA ReloadKeeps ==
  ASSUME ReaderInv, Reload
  PROVE  ReaderInv'
  <1>1. Still(queue') /\ opening' = {} /\ state' = [kind |-> "idle", record |-> None]
    BY DEF Reload, Still
  <1>2. queue \in [Stores -> Seq(Requests)] /\ "books" \in Stores /\ "files" \in Stores
    BY DEF ReaderInv, Types, Stores
  <1>3. \A s \in Stores : Asked(s) \subseteq Requests
    BY <1>2 DEF Asked
  <1>4. torn' \subseteq Books /\ torn \subseteq torn'
    BY <1>2, <1>3 DEF Reload, ReaderInv, Types, Requests
  <1>5. Types' /\ ~Open'
    <2>1. state' \in States /\ ~Open' /\ state'.record = None /\ state'.kind = "idle"
      BY <1>1 DEF States, Open
    <2> QED BY <1>1, <1>4, <2>1, StillTyped DEF Reload, ReaderInv, Types
  <1>6. Phases'
    BY <1>1 DEF Phases, Turning, Still, Stores
  <1>7. ASSUME NEW b \in Books \ torn', Midway(queue["books"], b) PROVE FALSE
    <2>1. PICK i \in DOMAIN queue["books"] :
            queue["books"][i].hash = b /\ queue["books"][i].do \in {"readEntry", "flag", "drop"}
      BY <1>7 DEF Midway
    <2>2. queue["books"][i] \in Asked("books")
      BY DEF Asked
    <2> QED BY <1>7, <2>1, <2>2 DEF Reload
  <1> QED BY <1>5, <1>4, <1>6, <1>7, ClosedKeeps DEF Reload

LEMMA BytesDroppedKeeps ==
  ASSUME ReaderInv, BytesDropped
  PROVE  ReaderInv'
  <1> "files" \in Stores /\ "books" \in Stores
    BY DEF Stores
  <1>1. PICK req \in Requests : /\ req = Head(queue["files"]) /\ opening = {} /\ Sole(queue, "files", req)
                                /\ Step("files", req) /\ req.do = "dropFile"
    BY AloneUnless DEF BytesDropped, Head1, ReaderInv
  <1>n. PICK next : next = [req EXCEPT !.do = "drop"]
    OBVIOUS
  <1>2. next \in Requests /\ next.do = "drop" /\ next.hash = req.hash
    BY <1>n, OnwardIs DEF Dos
  <1>3. ~Open /\ Unmarked(req.hash) /\ req.hash \in Books
    BY <1>1 DEF Step, Requests
  <1>4. /\ Sole(queue', "books", next)
        /\ files' = files \ {req.hash} \/ (files' = files /\ torn' = torn \cup {req.hash})
        /\ torn \subseteq torn' /\ torn' \subseteq torn \cup {req.hash} /\ refusals' \in Nat
    <2>1. Sole(queue', "books", next)
      BY <1>1, <1>n, OnwardGoes DEF BytesDropped, AnsweredThen
    <2> QED BY <1>1, <2>1 DEF BytesDropped, Outcome, ReaderInv, Types
  <1>5. UNCHANGED <<books, opening, state, recordRef, view, here, told, toggled>>
    BY DEF BytesDropped, tab
  <1>6. 1 <= MaxPending /\ queue["books"] = <<>>
    BY <1>1, SoleIs, ReaderAssumption DEF BytesDropped
  <1>7. Types' /\ ~Open'
    BY <1>2, <1>3, <1>4, <1>5, <1>6, SoleTyped DEF ReaderInv, Types, Open
  <1>8. queue'["books"] = <<next>>
    BY <1>4 DEF Sole
  <1>9. Waiting'
    <2>1. next \in Asked("books")'
      BY <1>8 DEF Asked
    <2>2. Step("books", next)'
      BY <1>2, <1>3, <1>4, <1>5, <1>7 DEF Step, Unmarked
    <2> QED BY <1>1, <1>4, <1>5, <2>1, <2>2 DEF Waiting
  <1>10. PlaceOK' /\ MarksMerge' /\ (~ReadsFail => MarksOK')
    BY <1>5, <1>7 DEF PlaceOK, MarksMerge, MarksOK, MarksKept, ReaderInv
  <1>11. ASSUME ~ReadsFail PROVE FlagsOK'
    <2> SUFFICES ASSUME NEW b \in Books \ torn', ~Midway(queue'["books"], b)
                 PROVE  (books[b] # None /\ books[b].keep) <=> b \in files'
      BY <1>5, <1>7 DEF FlagsOK
    <2>1. b # req.hash
      BY <1>2, <1>8, OneIs
    <2>2. ~Midway(queue["books"], b)
      BY <1>6, EmptyIs
    <2> QED BY <1>4, <1>11, <2>1, <2>2 DEF ReaderInv, FlagsOK
  <1> QED BY <1>7, <1>9, <1>10, <1>11 DEF ReaderInv, Phases

LEMMA RecordDroppedKeeps ==
  ASSUME ReaderInv, RecordDropped
  PROVE  ReaderInv'
  <1> "files" \in Stores /\ "books" \in Stores
    BY DEF Stores
  <1>1. PICK req \in Requests : /\ req = Head(queue["books"]) /\ opening = {} /\ Sole(queue, "books", req)
                                /\ Step("books", req) /\ req.do = "drop"
    BY AloneUnless DEF RecordDropped, Head1, ReaderInv
  <1>2. ~Open /\ Unmarked(req.hash) /\ req.hash \in Books /\ (req.hash \in torn \/ req.hash \notin files)
    BY <1>1 DEF Step, Requests
  <1>3. Still(queue')
    BY <1>1, AnsweredIs DEF RecordDropped
  <1>4. /\ \/ books' = [books EXCEPT ![req.hash] = None] /\ torn' = torn
           \/ books' = books /\ torn' = torn \cup {req.hash}
        /\ refusals' \in Nat
    BY <1>1 DEF RecordDropped, Outcome, ReaderInv, Types
  <1>5. UNCHANGED <<files, opening, state, recordRef, view, here, told, toggled>>
    BY DEF RecordDropped, tab
  <1>6. Types' /\ ~Open'
    <2>1. books' \in [Books -> Records \cup {None}] /\ torn' \subseteq Books
      BY <1>2, <1>4 DEF ReaderInv, Types
    <2>2. \A b \in Books : books'[b] # None => books'[b].hash = b
      BY <1>4 DEF ReaderInv, Types
    <2> QED BY <1>2, <1>3, <1>4, <1>5, <2>1, <2>2, StillTyped DEF ReaderInv, Types, Open
  <1>7. Phases'
    BY <1>1, <1>3, <1>5 DEF Phases, Turning, Still
  <1>8. PlaceOK' /\ MarksMerge'
    BY <1>6 DEF PlaceOK, MarksMerge
  <1>9. ASSUME ~ReadsFail PROVE MarksOK'
    <2> SUFFICES ASSUME NEW b \in Books, NEW p \in Places, told[b][p] # "none"
                 PROVE  books'[b] # None /\ books'[b].marks[p] = told[b][p]
      BY <1>5, <1>6 DEF MarksOK, MarksKept
    <2>1. b # req.hash
      BY <1>2 DEF Unmarked
    <2>2. books'[b] = books[b]
      BY <1>4, <2>1 DEF ReaderInv, Types
    <2> QED BY <1>9, <2>2 DEF ReaderInv, MarksOK, MarksKept
  <1>10. ASSUME ~ReadsFail PROVE FlagsOK'
    <2> SUFFICES ASSUME NEW b \in Books \ torn'
                 PROVE  (books'[b] # None /\ books'[b].keep) <=> b \in files
      BY <1>5, <1>6 DEF FlagsOK
    <2>1. CASE b = req.hash
      BY <1>2, <1>4, <2>1 DEF ReaderInv, Types
    <2>2. CASE b # req.hash
      <3>1. ~Midway(queue["books"], b)
        BY <1>1, <2>2, SoleIs, OneIs
      <3> QED BY <1>4, <1>10, <2>2, <3>1 DEF ReaderInv, FlagsOK, Types
    <2> QED BY <2>1, <2>2
  <1> QED BY <1>6, <1>7, <1>8, <1>9, <1>10 DEF ReaderInv

LEMMA RememberedKeeps ==
  ASSUME ReaderInv, Remembered
  PROVE  ReaderInv'
  <1> "files" \in Stores /\ "books" \in Stores
    BY DEF Stores
  <1>1. PICK req \in Requests : /\ req = Head(queue["books"]) /\ opening = {} /\ Sole(queue, "books", req)
                                /\ Step("books", req) /\ req.do = "remember"
    BY AloneUnless DEF Remembered, Head1, ReaderInv
  <1> DEFINE r == req.record
             b == req.hash
  <1>2. /\ r \in Records /\ r.hash = b /\ b \in Books /\ view = b
        /\ ~ReadsFail => r = Remembers(b)
    BY <1>1 DEF Step, Requests
  <1>3. Still(queue')
    BY <1>1, AnsweredIs DEF Remembered
  <1>4. PICK ok \in BOOLEAN : Outcome(ok) /\ Written(ok, req)
    BY <1>1 DEF Remembered
  <1>5. /\ refusals' \in Nat /\ (refusals' = 0 => ok)
        /\ books' = IF ok THEN [books EXCEPT ![b] = r] ELSE books
    BY <1>4 DEF Outcome, Written, ReaderInv, Types
  <1>6. /\ recordRef' = r /\ here' = r.place /\ state' = [kind |-> "open", record |-> r] /\ toggled' = FALSE
        /\ UNCHANGED <<files, opening, view, told, torn>>
    BY <1>1 DEF Remembered
  <1> HIDE DEF r, b
  <1>7. Open' /\ BookOK' /\ state' \in States
    BY <1>2, <1>6 DEF Open, BookOK, States
  <1>8. Types'
    <2>1. books' \in [Books -> Records \cup {None}] /\ \A x \in Books : books'[x] # None => books'[x].hash = x
      BY <1>2, <1>5 DEF ReaderInv, Types
    <2>2. state'.record # None /\ here' \in Places \cup {Start}
      BY <1>2, <1>6, NoneIsNoRecord DEF Records
    <2> QED BY <1>2, <1>3, <1>5, <1>6, <1>7, <2>1, <2>2, StillTyped DEF ReaderInv, Types
  <1>9. Phases'
    BY <1>1, <1>3, <1>6 DEF Phases, Turning, Still
  <1>10. queue'["books"] = <<>>
    BY <1>3 DEF Still
  <1>11. PlaceOK'
    BY <1>2, <1>5, <1>6, <1>10, EmptyIs DEF PlaceOK, ReaderInv, Types
  <1>12. MarksMerge'
    BY <1>10, EmptyIs DEF MarksMerge
  <1>13. ASSUME ~ReadsFail PROVE MarksOK'
    <2>1. \A p \in Places : told[b][p] # "none" => books[b] = r /\ r.marks[p] = told[b][p]
      BY <1>2, <1>13 DEF ReaderInv, MarksOK, MarksKept, Remembers
    <2>2. MarksKept'
      BY <1>2, <1>5, <1>6, <1>13, <2>1, NoneIsNoRecord DEF ReaderInv, Types, MarksOK, MarksKept
    <2> QED BY <1>2, <1>6, <1>10, <2>1, <2>2, EmptyIs DEF MarksOK
  <1>14. ASSUME ~ReadsFail PROVE FlagsOK'
    <2> SUFFICES ASSUME NEW x \in Books \ torn
                 PROVE  /\ (books'[x] # None /\ books'[x].keep) <=> x \in files
                        /\ b = x => (r.keep <=> x \in files)
      BY <1>2, <1>6 DEF FlagsOK
    <2>1. (books[x] # None /\ books[x].keep) <=> x \in files
      BY <1>1, <1>14, SoleIs, OneIs DEF ReaderInv, FlagsOK
    <2>2. b = x => (r.keep <=> x \in files)
      BY <1>2, <1>14, <2>1, NewIs DEF Remembers
    <2>3. CASE x = b
      BY <1>2, <1>5, <2>1, <2>2, <2>3, NoneIsNoRecord DEF ReaderInv, Types
    <2>4. CASE x # b
      BY <1>5, <2>1, <2>4 DEF ReaderInv, Types
    <2> QED BY <2>2, <2>3, <2>4
  <1> QED BY <1>8, <1>9, <1>11, <1>12, <1>13, <1>14 DEF ReaderInv

LEMMA ToggleKeeps ==
  ASSUME ReaderInv, Patient, ToggleKeepFile
  PROVE  ReaderInv'
  <1> "files" \in Stores /\ "books" \in Stores
    BY DEF Stores
  <1>k. PICK keep : keep = ~state.record.keep
    OBVIOUS
  <1>d. PICK do : do = IF keep THEN "keep" ELSE "forget"
    OBVIOUS
  <1>b. PICK b : b = state.record.hash
    OBVIOUS
  <1>w. PICK was : was = state
    OBVIOUS
  <1>q. PICK req : req = [Ask(do, b) EXCEPT !.was = was, !.want = keep]
    OBVIOUS
  <1>1. /\ Turning /\ UNCHANGED <<refusals, opening, state, recordRef, view, here, books, files, told, torn>>
        /\ queue["books"] = <<>> /\ Open /\ toggled' = TRUE
    BY ClickingIs DEF ToggleKeepFile, ReaderInv, tab
  <1>2. Still(queue)
    BY <1>1 DEF Turning, Still, Stores, ReaderInv, Types
  <1>3. BookOK /\ state \in States /\ state.record.hash = view /\ view \in Books
    BY <1>1 DEF ReaderInv, Types, BookOK, Records
  <1>4. keep \in BOOLEAN /\ do \in Dos
    BY <1>3, <1>k, <1>d DEF BookOK, Records, Dos
  <1>5. req \in Requests /\ req.do = do /\ req.hash = view /\ req.was = state /\ req.want = keep
    <2>1. b \in Books /\ b = view /\ was \in States
      BY <1>3, <1>b, <1>w
    <2>2. PICK q1 : q1 = [Ask(do, b) EXCEPT !.was = was]
      OBVIOUS
    <2>3. q1 \in Requests /\ q1.do = do /\ q1.hash = b /\ q1.was = was
      BY <1>4, <2>1, <2>2, AskIs DEF Requests
    <2>4. req = [q1 EXCEPT !.want = keep]
      BY <1>q, <2>2
    <2> QED BY <1>4, <1>w, <2>1, <2>3, <2>4 DEF Requests
  <1>6. queue' = [queue EXCEPT !["files"] = Append(@, req)]
    BY <1>k, <1>d, <1>q, <1>b, <1>w DEF ToggleKeepFile, Send
  <1>7. Sole(queue', "files", req)
    BY <1>2, <1>5, <1>6, SentIs DEF ReaderInv
  <1>8. 1 <= MaxPending
    BY <1>2, ReaderAssumption DEF ToggleKeepFile, Click, Still
  <1>9. Types'
    BY <1>1, <1>5, <1>7, <1>8, SoleTyped DEF ReaderInv, Types, Open, BookOK
  <1>10. queue'["files"] = <<req>> /\ queue'["books"] = <<>>
    BY <1>7 DEF Sole, Stores
  <1>11. Waiting'
    <2>1. req \in Asked("files")'
      BY <1>10 DEF Asked
    <2>2. Step("files", req)'
      BY <1>1, <1>4, <1>5, <1>d DEF Step, Toggling, Open
    <2> QED BY <1>1, <1>7, <2>1, <2>2 DEF Waiting, Turning
  <1>12. PlaceOK' /\ MarksMerge'
    BY <1>1, <1>10, EmptyIs DEF PlaceOK, MarksMerge
  <1>13. ~ReadsFail => MarksOK' /\ FlagsOK'
    BY <1>1, <1>10, EmptyIs DEF ReaderInv, MarksOK, MarksKept, FlagsOK, Open
  <1> QED BY <1>9, <1>11, <1>12, <1>13 DEF ReaderInv, Phases

(* The box is ticked or cleared for good: the record rendered when it was  *)
(* clicked comes back, its flag as the stores took it.                     *)
LEMMA EndToggleIs ==
  ASSUME Types, NEW req \in Requests, Toggling(req), NEW stored \in BOOLEAN, EndToggle(req, stored)
  PROVE  /\ UNCHANGED <<opening, view, here>>
         /\ recordRef' \in Records /\ recordRef'.hash = view /\ recordRef'.marks = state.record.marks
         /\ recordRef'.keep = IF stored THEN req.want ELSE state.record.keep
         /\ state' \in States /\ state'.kind = "open" /\ state'.record = recordRef'
  <1>1. state \in States /\ state.kind = "open" /\ state.record \in Records /\ state.record.hash = view
    BY DEF Types, Toggling, BookOK, Open
  <1>2. PICK k : k = IF stored THEN req.want ELSE state.record.keep
    OBVIOUS
  <1>3. k \in BOOLEAN
    BY <1>1, <1>2 DEF Requests, Records
  <1>4. PICK n : n = [state.record EXCEPT !.keep = k]
    OBVIOUS
  <1>5. n \in Records /\ n.hash = view /\ n.marks = state.record.marks /\ n.keep = k
    BY <1>1, <1>3, <1>4 DEF Records
  <1>6. recordRef' = n /\ state' = [state EXCEPT !.record = n] /\ UNCHANGED <<opening, view, here>>
    BY <1>2, <1>4 DEF EndToggle, Toggling
  <1>7. state' \in States /\ state'.kind = "open" /\ state'.record = n
    BY <1>1, <1>5, <1>6 DEF States
  <1> QED BY <1>2, <1>5, <1>6, <1>7

LEMMA ToggleEnds ==
  ASSUME ReaderInv, NEW req \in Requests, Toggling(req), NEW stored \in BOOLEAN, EndToggle(req, stored),
         Still(queue'), opening = {}, UNCHANGED <<files, told, toggled>>,
         refusals' \in Nat, torn' \subseteq Books,
         books' \in [Books -> Records \cup {None}],
         \A b \in Books : /\ books'[b] = None <=> books[b] = None
                          /\ books'[b] # None => books'[b].hash = b /\ books'[b].marks = books[b].marks
  PROVE  Types' /\ Phases' /\ PlaceOK' /\ MarksMerge' /\ (~ReadsFail => MarksOK')
  <1> "files" \in Stores /\ "books" \in Stores
    BY DEF Stores
  <1>1. /\ UNCHANGED <<opening, view, here>>
        /\ recordRef' \in Records /\ recordRef'.hash = view /\ recordRef'.marks = state.record.marks
        /\ state' \in States /\ state'.kind = "open" /\ state'.record = recordRef'
    BY EndToggleIs DEF ReaderInv
  <1>2. Open' /\ BookOK' /\ Open /\ toggled' = TRUE
    BY <1>1 DEF Open, BookOK, Toggling
  <1>3. Types'
    BY <1>1, <1>2, StillTyped, NoneIsNoRecord DEF ReaderInv, Types
  <1>4. queue'["books"] = <<>> /\ queue'["files"] = <<>>
    BY DEF Still
  <1>5. Phases'
    BY <1>1, <1>2, <1>4 DEF Phases, Turning
  <1>6. PlaceOK' /\ MarksMerge'
    BY <1>2, <1>4, EmptyIs DEF PlaceOK, MarksMerge
  <1>7. ASSUME ~ReadsFail PROVE MarksOK'
    <2>1. MarksKept'
      BY <1>7 DEF ReaderInv, MarksOK, MarksKept
    <2> QED BY <1>1, <1>2, <1>4, <1>7, <2>1, EmptyIs DEF ReaderInv, MarksOK
  <1> QED BY <1>3, <1>5, <1>6, <1>7

LEMMA FileToggledKeeps ==
  ASSUME ReaderInv, NEW do \in {"keep", "forget"}, FileToggled(do)
  PROVE  ReaderInv'
  <1> "files" \in Stores /\ "books" \in Stores
    BY DEF Stores
  <1>1. PICK req \in Requests : /\ req = Head(queue["files"]) /\ opening = {} /\ Sole(queue, "files", req)
                                /\ Step("files", req) /\ req.do = do
    BY AloneUnless DEF FileToggled, Head1, ReaderInv
  <1>2. Toggling(req) /\ req.hash \in Books /\ req.want = (do = "keep") /\ req.hash = view /\ Open
    BY <1>1 DEF Step, Requests, Toggling
  <1>3. refusals' \in Nat /\ UNCHANGED <<books, told, toggled>>
    BY DEF FileToggled, Outcome, ReaderInv, Types
  <1>4. 1 <= MaxPending /\ queue["books"] = <<>>
    BY <1>1, SoleIs, ReaderAssumption DEF FileToggled
  <1>5. PICK ok \in BOOLEAN :
          IF ok
          THEN /\ files' = IF do = "keep" THEN files \cup {req.hash} ELSE files \ {req.hash}
               /\ AnsweredThen("files", "books", [req EXCEPT !.do = "readEntry"])
               /\ UNCHANGED <<tab, torn>>
          ELSE /\ EndToggle(req, FALSE) /\ Answered("files")
               /\ UNCHANGED <<files, torn>>
    BY <1>1 DEF FileToggled
  <1>6. CASE ok
    <2>n. PICK next : next = [req EXCEPT !.do = "readEntry"]
      OBVIOUS
    <2>1. /\ next \in Requests /\ next.do = "readEntry" /\ next.hash = req.hash
          /\ next.was = req.was /\ next.want = req.want
      BY <2>n, OnwardIs DEF Dos
    <2>2. Sole(queue', "books", next)
      BY <1>1, <1>5, <1>6, <2>n, OnwardGoes DEF AnsweredThen
    <2>3. /\ files' = IF do = "keep" THEN files \cup {view} ELSE files \ {view}
          /\ UNCHANGED <<opening, state, recordRef, view, here, torn>>
      BY <1>2, <1>5, <1>6 DEF tab
    <2>4. Types'
      BY <1>2, <1>3, <1>4, <2>1, <2>2, <2>3, SoleTyped DEF ReaderInv, Types, Open, BookOK
    <2>5. queue'["books"] = <<next>>
      BY <2>2 DEF Sole
    <2>6. Waiting'
      <3>1. next \in Asked("books")'
        BY <2>5 DEF Asked
      <3>2. Step("books", next)'
        BY <1>2, <1>3, <2>1, <2>3 DEF Step, Toggling, Open
      <3> QED BY <1>1, <2>2, <2>3, <3>1, <3>2 DEF Waiting
    <2>7. PlaceOK' /\ MarksMerge'
      <3>1. toggled' = TRUE
        BY <1>2, <1>3 DEF Toggling
      <3> QED BY <2>1, <2>5, <3>1, OneIs DEF PlaceOK, MarksMerge
    <2>8. ~ReadsFail => MarksOK'
      BY <1>3, <2>1, <2>3, <2>5, OneIs DEF ReaderInv, MarksOK, MarksKept, Open
    <2>9. ASSUME ~ReadsFail, NEW b \in Books \ torn, ~Midway(queue'["books"], b)
          PROVE  /\ (books[b] # None /\ books[b].keep) <=> b \in files'
                 /\ view # b
      <3>1. b # view
        BY <1>2, <2>1, <2>5, <2>9, OneIs
      <3>2. ~Midway(queue["books"], b)
        BY <1>4, EmptyIs
      <3> QED BY <2>3, <2>9, <3>1, <3>2 DEF ReaderInv, FlagsOK
    <2>10. ~ReadsFail => FlagsOK'
      BY <1>3, <2>3, <2>9 DEF FlagsOK
    <2> QED BY <2>4, <2>6, <2>7, <2>8, <2>10 DEF ReaderInv, Phases
  <1>7. CASE ~ok
    <2>1. EndToggle(req, FALSE) /\ Answered("files") /\ UNCHANGED <<files, torn>>
      BY <1>5, <1>7
    <2>2. Still(queue')
      BY <1>1, <2>1, AnsweredIs
    <2>3. Types' /\ Phases' /\ PlaceOK' /\ MarksMerge' /\ (~ReadsFail => MarksOK')
      BY <1>1, <1>2, <1>3, <2>1, <2>2, ToggleEnds DEF ReaderInv, Types
    <2>4. /\ recordRef'.keep = state.record.keep /\ state'.record = recordRef' /\ view' = view
      BY <1>2, <2>1, EndToggleIs DEF ReaderInv
    <2>5. ASSUME ~ReadsFail PROVE FlagsOK'
      <3>1. \A b : ~Midway(queue["books"], b)
        BY <1>4, EmptyIs
      <3> QED BY <1>2, <1>3, <2>1, <2>4, <2>5, <3>1 DEF ReaderInv, FlagsOK
    <2> QED BY <2>3, <2>5 DEF ReaderInv
  <1> QED BY <1>6, <1>7

LEMMA EntryReadKeeps ==
  ASSUME ReaderInv, EntryRead
  PROVE  ReaderInv'
  <1> "files" \in Stores /\ "books" \in Stores
    BY DEF Stores
  <1>1. PICK req \in Requests : /\ req = Head(queue["books"]) /\ opening = {} /\ Sole(queue, "books", req)
                                /\ Step("books", req) /\ req.do = "readEntry"
    BY AloneUnless DEF EntryRead, Head1, ReaderInv
  <1>2. /\ Toggling(req) /\ req.hash \in Books /\ (req.want <=> req.hash \in files) /\ req.want \in BOOLEAN
        /\ req.hash = view /\ Open
    BY <1>1 DEF Step, Requests, Toggling
  <1>3. refusals' \in Nat /\ UNCHANGED <<books, files, told, toggled>>
    BY DEF EntryRead, ReadOutcome, Outcome, ReaderInv, Types
  <1>4. PICK ok \in BOOLEAN :
          IF ok /\ books[req.hash] # None
          THEN /\ AnsweredThen("books", "books",
                    [req EXCEPT !.do = "flag", !.record = [books[req.hash] EXCEPT !.keep = req.want]])
               /\ UNCHANGED <<tab, torn>>
          ELSE EndToggle(req, FALSE) /\ Answered("books") /\ Tear(req, FALSE)
    BY <1>1 DEF EntryRead
  <1>5. \A b : Midway(queue["books"], b) <=> b = req.hash
    BY <1>1, SoleIs, OneIs
  <1>6. CASE ok /\ books[req.hash] # None
    <2>r. PICK r : r = [books[req.hash] EXCEPT !.keep = req.want]
      OBVIOUS
    <2>n. PICK next : next = [req EXCEPT !.do = "flag", !.record = r]
      OBVIOUS
    <2>0. r \in Records
      BY <1>2, <1>6, <2>r DEF ReaderInv, Types, Records
    <2>1. /\ next \in Requests /\ next.do = "flag" /\ next.hash = req.hash
          /\ next.was = req.was /\ next.want = req.want /\ next.record = r
      <3>1. PICK n1 : n1 = [req EXCEPT !.do = "flag"]
        OBVIOUS
      <3>2. /\ n1 \in Requests /\ n1.do = "flag" /\ n1.hash = req.hash
            /\ n1.was = req.was /\ n1.want = req.want
        BY <3>1, OnwardIs DEF Dos
      <3>3. next = [n1 EXCEPT !.record = r]
        BY <2>n, <3>1
      <3> QED BY <2>0, <3>2, <3>3 DEF Requests
    <2>2. Sole(queue', "books", next)
      BY <1>1, <1>4, <1>6, <2>r, <2>n, OnwardGoes DEF AnsweredThen
    <2>3. UNCHANGED <<opening, state, recordRef, view, here, torn>>
      BY <1>4, <1>6 DEF tab
    <2>q. queue["books"] # <<>> /\ Len(queue["books"]) = 1 /\ Len(queue["books"]) <= MaxPending
      BY <1>1, SoleIs DEF ReaderInv, Types
    <2>4. Types'
      BY <1>2, <1>3, <2>1, <2>2, <2>3, <2>q, SoleTyped DEF ReaderInv, Types, Open, BookOK
    <2>5. queue'["books"] = <<next>>
      BY <2>2 DEF Sole
    <2>6. Waiting'
      <3>1. next \in Asked("books")'
        BY <2>5 DEF Asked
      <3>2. Step("books", next)'
        BY <1>2, <1>3, <1>6, <2>r, <2>1, <2>3 DEF Step, Toggling, Open
      <3> QED BY <1>1, <2>2, <2>3, <3>1, <3>2 DEF Waiting
    <2>7. PlaceOK' /\ MarksMerge'
      <3>1. toggled' = TRUE
        BY <1>2, <1>3 DEF Toggling
      <3> QED BY <2>1, <2>5, <3>1, OneIs DEF PlaceOK, MarksMerge
    <2>8. ~ReadsFail => MarksOK'
      BY <1>3, <2>1, <2>3, <2>5, OneIs DEF ReaderInv, MarksOK, MarksKept, Open
    <2>9. \A b : Midway(queue'["books"], b) <=> b = req.hash
      BY <2>1, <2>5, OneIs
    <2>10. ~ReadsFail => FlagsOK'
      BY <1>3, <1>5, <2>3, <2>9 DEF ReaderInv, FlagsOK, Open
    <2> QED BY <2>4, <2>6, <2>7, <2>8, <2>10 DEF ReaderInv, Phases
  <1>7. CASE ~(ok /\ books[req.hash] # None)
    <2>1. EndToggle(req, FALSE) /\ Answered("books") /\ torn' = torn \cup {req.hash}
      BY <1>4, <1>7 DEF Tear
    <2>2. Still(queue')
      BY <1>1, <2>1, AnsweredIs
    <2>t. torn' \subseteq Books
      BY <1>2, <2>1 DEF ReaderInv, Types
    <2>3. Types' /\ Phases' /\ PlaceOK' /\ MarksMerge' /\ (~ReadsFail => MarksOK')
      BY <1>1, <1>2, <1>3, <2>1, <2>2, <2>t, ToggleEnds DEF ReaderInv, Types
    <2>4. view' = view
      BY <1>2, <2>1, EndToggleIs DEF ReaderInv
    <2>5. ~ReadsFail => FlagsOK'
      BY <1>2, <1>3, <1>5, <2>1, <2>4 DEF ReaderInv, FlagsOK
    <2> QED BY <2>3, <2>5 DEF ReaderInv
  <1> QED BY <1>6, <1>7

LEMMA FlaggedKeeps ==
  ASSUME ReaderInv, Flagged
  PROVE  ReaderInv'
  <1> "files" \in Stores /\ "books" \in Stores
    BY DEF Stores
  <1>1. PICK req \in Requests : /\ req = Head(queue["books"]) /\ opening = {} /\ Sole(queue, "books", req)
                                /\ Step("books", req) /\ req.do = "flag"
    BY AloneUnless DEF Flagged, Head1, ReaderInv
  <1>2. /\ Toggling(req) /\ req.hash \in Books /\ (req.want <=> req.hash \in files) /\ req.want \in BOOLEAN
        /\ req.hash = view /\ Open
        /\ books[req.hash] # None /\ req.record = [books[req.hash] EXCEPT !.keep = req.want]
    BY <1>1 DEF Step, Requests, Toggling
  <1>3. PICK ok \in BOOLEAN : Outcome(ok) /\ Written(ok, req) /\ EndToggle(req, ok) /\ Tear(req, ok)
    BY <1>1 DEF Flagged
  <1>4. refusals' \in Nat /\ UNCHANGED <<files, told, toggled>>
    BY <1>3 DEF Flagged, Outcome, ReaderInv, Types
  <1>5. /\ req.record \in Records /\ req.record.hash = req.hash /\ req.record.keep = req.want
        /\ req.record.marks = books[req.hash].marks
    <2>1. PICK r : r = books[req.hash]
      OBVIOUS
    <2>2. r \in Records /\ r.hash = req.hash
      BY <1>2, <2>1 DEF ReaderInv, Types
    <2> QED BY <1>2, <2>1, <2>2 DEF Records
  <1>6. books' = IF ok THEN [books EXCEPT ![req.hash] = req.record] ELSE books
    BY <1>3 DEF Written
  <1>7. torn' = IF ok THEN torn \ {req.hash} ELSE torn \cup {req.hash}
    BY <1>3 DEF Tear
  <1>8. Still(queue')
    BY <1>1, AnsweredIs DEF Flagged
  <1>9. Types' /\ Phases' /\ PlaceOK' /\ MarksMerge' /\ (~ReadsFail => MarksOK')
    <2>1. torn' \subseteq Books /\ books' \in [Books -> Records \cup {None}]
      BY <1>2, <1>5, <1>6, <1>7 DEF ReaderInv, Types
    <2>2. \A b \in Books : /\ books'[b] = None <=> books[b] = None
                           /\ books'[b] # None => books'[b].hash = b /\ books'[b].marks = books[b].marks
      BY <1>2, <1>5, <1>6, NoneIsNoRecord DEF ReaderInv, Types
    <2> QED BY <1>1, <1>2, <1>3, <1>4, <1>8, <2>1, <2>2, ToggleEnds
  <1>10. /\ recordRef'.keep = IF ok THEN req.want ELSE state.record.keep
         /\ state'.record = recordRef' /\ view' = view
    BY <1>2, <1>3, EndToggleIs DEF ReaderInv
  <1>11. \A b : Midway(queue["books"], b) <=> b = req.hash
    BY <1>1, SoleIs, OneIs
  <1>12. ASSUME ~ReadsFail PROVE FlagsOK'
    <2> SUFFICES ASSUME NEW b \in Books \ torn'
                 PROVE  /\ (books'[b] # None /\ books'[b].keep) <=> b \in files
                        /\ view = b => (recordRef'.keep <=> b \in files) /\ (state'.record.keep <=> b \in files)
      BY <1>4, <1>10 DEF FlagsOK
    <2>1. CASE b = req.hash
      <3>1. ok
        BY <1>7, <2>1
      <3>2. books'[b] = req.record /\ recordRef'.keep = req.want
        BY <1>2, <1>6, <1>10, <2>1, <3>1 DEF ReaderInv, Types
      <3> QED BY <1>2, <1>5, <1>10, <2>1, <3>2, NoneIsNoRecord
    <2>2. CASE b # req.hash
      <3>1. books'[b] = books[b] /\ b \notin torn
        BY <1>6, <1>7, <2>2 DEF ReaderInv, Types
      <3> QED BY <1>2, <1>11, <1>12, <2>2, <3>1 DEF ReaderInv, FlagsOK
    <2> QED BY <2>1, <2>2
  <1> QED BY <1>9, <1>12 DEF ReaderInv

(* The queue of pages and bookmarks, as it grows and as it is answered.    *)
LEMMA LaterAppended ==
  ASSUME NEW q \in Seq(Requests), NEW req \in Requests, NEW i \in Nat, i <= Len(q), NEW p
  PROVE  Later(Append(q, req), i, p) <=> Later(q, i, p) \/ (req.do = "mark" /\ req.place = p)
  BY DEF Later

LEMMA LaterTail ==
  ASSUME NEW q \in Seq(Requests), q # <<>>, NEW i \in Nat, NEW p
  PROVE  Later(Tail(q), i, p) <=> Later(q, i + 1, p)
  <1>1. DOMAIN Tail(q) = 1..(Len(q) - 1) /\ DOMAIN q = 1..Len(q) /\ \A k \in DOMAIN Tail(q) : Tail(q)[k] = q[k + 1]
    OBVIOUS
  <1>2. ASSUME Later(Tail(q), i, p) PROVE Later(q, i + 1, p)
    BY <1>1, <1>2 DEF Later
  <1>3. ASSUME Later(q, i + 1, p) PROVE Later(Tail(q), i, p)
    <2>1. PICK k \in DOMAIN q : k > i + 1 /\ q[k].do = "mark" /\ q[k].place = p
      BY <1>3 DEF Later
    <2>2. k - 1 \in DOMAIN Tail(q) /\ k - 1 > i /\ Tail(q)[k - 1] = q[k]
      BY <1>1, <2>1
    <2> QED BY <2>1, <2>2 DEF Later
  <1> QED BY <1>2, <1>3

LEMMA MergedAppended ==
  ASSUME NEW q \in Seq(Requests), NEW req \in Requests, NEW m, MergesTo(q, m),
         NEW n, req.record.marks = n,
         \A p \in Places : n[p] = m[p] \/ (req.do = "mark" /\ req.place = p)
  PROVE  MergesTo(Append(q, req), n)
  <1> DEFINE w == Append(q, req)
  <1> SUFFICES ASSUME NEW i \in DOMAIN w, w[i].do \in {"save", "mark"}, NEW p \in Places
               PROVE  w[i].record.marks[p] = n[p] \/ Later(w, i, p)
    BY DEF MergesTo
  <1>1. CASE i = Len(q) + 1
    BY <1>1
  <1>2. CASE i # Len(q) + 1
    <2>1. i \in DOMAIN q /\ w[i] = q[i] /\ i \in Nat /\ i <= Len(q)
      BY <1>2
    <2>2. q[i].record.marks[p] = m[p] \/ Later(q, i, p)
      BY <2>1 DEF MergesTo
    <2>3. Later(w, i, p) <=> Later(q, i, p) \/ (req.do = "mark" /\ req.place = p)
      BY <2>1, LaterAppended
    <2> HIDE DEF w
    <2> QED BY <2>1, <2>2, <2>3
  <1> QED BY <1>1, <1>2

LEMMA MergedTail ==
  ASSUME NEW q \in Seq(Requests), q # <<>>, NEW m, MergesTo(q, m)
  PROVE  MergesTo(Tail(q), m)
  <1> DEFINE w == Tail(q)
  <1> SUFFICES ASSUME NEW i \in DOMAIN w, w[i].do \in {"save", "mark"}, NEW p \in Places
               PROVE  w[i].record.marks[p] = m[p] \/ Later(w, i, p)
    BY DEF MergesTo
  <1>1. i \in Nat /\ i + 1 \in DOMAIN q /\ w[i] = q[i + 1]
    OBVIOUS
  <1>2. Later(w, i, p) <=> Later(q, i + 1, p)
    BY <1>1, LaterTail
  <1> HIDE DEF w
  <1> QED BY <1>1, <1>2 DEF MergesTo

(* persist: the ref at once, then a request. *)
LEMMA PersistKeeps ==
  ASSUME ReaderInv, Turning, Open, NEW n \in Records, NEW req \in Requests,
         n.hash = view, n.keep = recordRef.keep, req.record = n, req.hash = view,
         req.do \in {"save", "mark"}, req.do = "mark" => req.was.kind = "open" /\ req.place \in Places,
         \A p \in Places : n.marks[p] = recordRef.marks[p] \/ (req.do = "mark" /\ req.place = p),
         Len(queue["books"]) < MaxPending,
         recordRef' = n, queue' = [queue EXCEPT !["books"] = Append(@, req)],
         here' \in Places \cup {Start}, here = recordRef.place => here' = n.place,
         told' \in [Books -> [Places -> Marks]],
         \A b \in Books, p \in Places : told'[b][p] \in {told[b][p], "none"},
         req.do = "mark" => told'[view][req.place] = "none",
         UNCHANGED <<books, files, opening, state, view, refusals, torn, toggled>>
  PROVE  ReaderInv'
  <1> "files" \in Stores /\ "books" \in Stores
    BY DEF Stores
  <1>q. PICK q : q = queue["books"]
    OBVIOUS
  <1>1. q \in Seq(Requests) /\ Len(q) < MaxPending /\ MaxPending \in Nat
    BY <1>q, ReaderAssumption DEF ReaderInv, Types
  <1>w. PICK w : w = Append(q, req)
    OBVIOUS
  <1>2. /\ w \in Seq(Requests) /\ Len(w) = Len(q) + 1 /\ Len(w) <= MaxPending
        /\ DOMAIN w = 1..(Len(q) + 1) /\ w[Len(w)] = req /\ w # <<>>
        /\ \A i \in DOMAIN w : i # Len(q) + 1 => i \in DOMAIN q /\ w[i] = q[i]
    BY <1>1, <1>w
  <1>3. queue'["books"] = w /\ \A s \in Stores \ {"books"} : queue'[s] = queue[s]
    BY <1>q, <1>w DEF ReaderInv, Types
  <1>4. /\ Open' /\ BookOK' /\ BookOK /\ state \in States /\ state.kind = "open"
        /\ view \in Books
    BY DEF ReaderInv, Types, Open, BookOK, Records
  <1>5. Types'
    <2>1. queue' \in [Stores -> Seq(Requests)]
      BY <1>2, <1>q, <1>w DEF ReaderInv, Types
    <2>2. \A s \in Stores : Len(queue'[s]) <= MaxPending
      BY <1>2, <1>3 DEF ReaderInv, Types
    <2> QED BY <1>4, <2>1, <2>2 DEF ReaderInv, Types
  <1>6. Turning'
    <2>1. ASSUME NEW i \in DOMAIN w PROVE PendingOK(w[i])'
      <3>1. CASE i = Len(q) + 1
        <4>1. w[i] = req
          BY <1>2, <3>1
        <4> QED BY <4>1 DEF PendingOK
      <3>2. CASE i # Len(q) + 1
        <4>1. PendingOK(w[i])
          BY <1>2, <1>q, <3>2 DEF Turning
        <4> QED BY <4>1 DEF PendingOK
      <3> QED BY <3>1, <3>2
    <2> QED BY <1>3, <1>4, <2>1 DEF Turning, Stores
  <1>7. PlaceOK'
    <2>1. LastWritten(w, books[view]) = n
      BY <1>2 DEF LastWritten
    <2> QED BY <1>3, <1>4, <2>1 DEF ReaderInv, PlaceOK
  <1>8. MarksMerge'
    <2>1. MergesTo(q, recordRef.marks)
      BY <1>q DEF ReaderInv, MarksMerge
    <2>2. MergesTo(w, n.marks)
      BY <1>1, <1>w, <2>1, MergedAppended
    <2> QED BY <1>3, <2>2 DEF MarksMerge
  <1>9. ASSUME ~ReadsFail PROVE MarksOK'
    <2>1. MarksKept'
      BY <1>9 DEF ReaderInv, MarksOK, MarksKept
    <2>2. ASSUME NEW p \in Places, told'[view][p] # "none"
          PROVE  /\ n.marks[p] = told'[view][p] /\ state.record.marks[p] = told'[view][p]
                 /\ ~Later(w, 0, p)
      <3>1. told'[view][p] = told[view][p] /\ ~(req.do = "mark" /\ req.place = p)
        BY <1>4, <2>2
      <3>2. /\ recordRef.marks[p] = told[view][p] /\ state.record.marks[p] = told[view][p]
            /\ ~Later(q, 0, p)
        BY <1>9, <1>q, <2>2, <3>1 DEF ReaderInv, MarksOK
      <3>3. Later(w, 0, p) <=> Later(q, 0, p) \/ (req.do = "mark" /\ req.place = p)
        BY <1>1, <1>w, LaterAppended
      <3> QED BY <3>1, <3>2, <3>3
    <2> QED BY <1>3, <2>1, <2>2 DEF MarksOK
  <1>10. ASSUME ~ReadsFail PROVE FlagsOK'
    <2>1. \A b : Midway(w, b) <=> Midway(q, b)
      BY <1>1, <1>2 DEF Midway
    <2> QED BY <1>3, <1>10, <1>q, <2>1 DEF ReaderInv, FlagsOK, Open
  <1> QED BY <1>5, <1>6, <1>7, <1>8, <1>9, <1>10 DEF ReaderInv, Phases

LEMMA TurnPageKeeps ==
  ASSUME ReaderInv, Patient, NEW p \in Places, TurnPage(p)
  PROVE  ReaderInv'
  <1>1. Turning /\ Open /\ here' = p /\ refusals' = refusals /\ Len(queue["books"]) < MaxPending
    BY ClickingIs DEF TurnPage, Click, ReaderInv
  <1>2. UNCHANGED <<books, files, opening, state, view, told, torn, toggled>>
    BY DEF TurnPage, observers
  <1>3. BookOK /\ recordRef \in Records /\ recordRef # None /\ view \in Books
    BY <1>1, NoneIsNoRecord DEF ReaderInv, Types, BookOK, Records
  <1>n. PICK n : n = WithPosition(recordRef, p)
    OBVIOUS
  <1>4. /\ n \in Records /\ n.hash = recordRef.hash /\ n.keep = recordRef.keep
        /\ n.marks = recordRef.marks /\ n.place = p
    BY <1>3, <1>n, MovesAre
  <1>5. CASE recordRef = n
    <2>1. UNCHANGED <<recordRef, queue>>
      BY <1>n, <1>5 DEF TurnPage
    <2>2. Types' /\ Turning' /\ here' = recordRef'.place
      BY <1>1, <1>2, <1>4, <1>5, <2>1 DEF ReaderInv, Types, Turning, PendingOK, Open, BookOK, Still
    <2>3. PlaceOK'
      BY <1>1, <1>2, <2>1, <2>2 DEF ReaderInv, PlaceOK, Open
    <2>4. MarksMerge' /\ (~ReadsFail => MarksOK' /\ FlagsOK')
      BY <1>2, <2>1 DEF ReaderInv, MarksMerge, MarksOK, MarksKept, FlagsOK, Open
    <2> QED BY <2>2, <2>3, <2>4 DEF ReaderInv, Phases
  <1>6. CASE recordRef # n
    <2>q. PICK req : req = [Ask("save", n.hash) EXCEPT !.record = n]
      OBVIOUS
    <2>1. req \in Requests /\ req.do = "save" /\ req.hash = view /\ req.record = n
      BY <1>3, <1>4, <2>q, AskToWrite DEF Dos, BookOK
    <2>2. recordRef' = n /\ queue' = [queue EXCEPT !["books"] = Append(@, req)]
      BY <1>3, <1>n, <1>6, <2>q DEF TurnPage, Send
    <2>3. told \in [Books -> [Places -> Marks]] /\ n.hash = view
      BY <1>3, <1>4 DEF ReaderInv, Types, BookOK
    <2> QED BY <1>1, <1>2, <1>4, <2>1, <2>2, <2>3, PersistKeeps
  <1> QED BY <1>5, <1>6

(* Adding, removing or annotating a bookmark. *)
LEMMA MarkKeeps ==
  ASSUME ReaderInv, Patient, Open, Click("books"), NEW p \in Places,
         NEW n \in {WithBookmark(recordRef, p), WithBookmarkNote(recordRef, p), WithoutBookmark(recordRef, p)},
         PersistMark(n, p)
  PROVE  ReaderInv'
  <1>1. Turning /\ refusals' = refusals /\ Len(queue["books"]) < MaxPending
    BY ClickingIs DEF Click, ReaderInv
  <1>2. BookOK /\ recordRef \in Records /\ view \in Books /\ state \in States /\ state.kind = "open"
        /\ recordRef.hash = view
    BY DEF ReaderInv, Types, BookOK, Records, Open
  <1>3. /\ n \in Records /\ n.hash = view /\ n.keep = recordRef.keep /\ n.place = recordRef.place
        /\ \A x \in Places : x # p => n.marks[x] = recordRef.marks[x]
    BY <1>2, MarkingIs
  <1>w. PICK was : was = state
    OBVIOUS
  <1>b. PICK b : b = view
    OBVIOUS
  <1>q. PICK req : req = [Ask("mark", b) EXCEPT !.record = n, !.was = was, !.place = p]
    OBVIOUS
  <1>4. req \in Requests /\ req.do = "mark" /\ req.hash = view /\ req.record = n /\ req.was = state /\ req.place = p
    <2>1. PICK q1 : q1 = [Ask("mark", b) EXCEPT !.record = n]
      OBVIOUS
    <2>2. q1 \in Requests /\ q1.do = "mark" /\ q1.hash = b /\ q1.record = n
      BY <1>2, <1>3, <1>b, <2>1, AskToWrite DEF Dos
    <2>3. PICK q2 : q2 = [q1 EXCEPT !.was = was]
      OBVIOUS
    <2>4. q2 \in Requests /\ q2.do = "mark" /\ q2.hash = b /\ q2.record = n /\ q2.was = was
      BY <1>2, <1>w, <2>2, <2>3 DEF Requests
    <2>5. req = [q2 EXCEPT !.place = p]
      BY <1>q, <2>1, <2>3
    <2> QED BY <1>b, <1>w, <2>4, <2>5 DEF Requests
  <1>5. recordRef' = n /\ queue' = [queue EXCEPT !["books"] = Append(@, req)]
    BY <1>3, <1>b, <1>q, <1>w DEF PersistMark, Send
  <1>6. UNCHANGED <<books, files, opening, state, view, here, torn, toggled>>
    BY DEF PersistMark
  <1>7. /\ told' \in [Books -> [Places -> Marks]]
        /\ \A x \in Books, y \in Places : told'[x][y] \in {told[x][y], "none"}
        /\ told'[view][p] = "none"
    <2>1. told' = [told EXCEPT ![view][p] = "none"] /\ "none" \in Marks
      BY <1>3 DEF PersistMark, Marks
    <2> QED BY <1>2, <2>1 DEF ReaderInv, Types
  <1>8. here \in Places \cup {Start}
    BY DEF ReaderInv, Types
  <1>9. \A x \in Places : n.marks[x] = recordRef.marks[x] \/ (req.do = "mark" /\ req.place = x)
    BY <1>3, <1>4
  <1>10. req.do \in {"save", "mark"} /\ req.was.kind = "open" /\ req.place \in Places
    BY <1>2, <1>4
  <1>11. here' \in Places \cup {Start} /\ (here = recordRef.place => here' = n.place)
    BY <1>3, <1>6, <1>8
  <1>12. told'[view][req.place] = "none"
    BY <1>4, <1>7
  <1>13. n \in Records /\ n.hash = view /\ n.keep = recordRef.keep
    BY <1>3
  <1>14. req \in Requests /\ req.hash = view /\ req.record = n
    BY <1>4
  <1> QED BY <1>1, <1>5, <1>6, <1>7, <1>9, <1>10, <1>11, <1>12, <1>13, <1>14, PersistKeeps

(* The oldest page or bookmark is stored, or refused. *)
LEMMA WrittenKeeps ==
  ASSUME ReaderInv, Turning, Open, queue["books"] # <<>>, NEW req, req = Head(queue["books"]),
         NEW ok \in BOOLEAN, Written(ok, req), Answered("books"),
         refusals' \in Nat, refusals' = 0 => refusals = 0 /\ ok,
         UNCHANGED <<files, opening, recordRef, view, here, torn, toggled>>,
         \/ state' = state
         \/ ok /\ state' \in States /\ state'.kind = "open" /\ state'.record = req.record,
         told' \in [Books -> [Places -> Marks]],
         \A b \in Books, p \in Places :
            \/ told'[b][p] = told[b][p]
            \/ /\ ok /\ b = view /\ req.do = "mark" /\ p = req.place /\ ~Later(Tail(queue["books"]), 0, p)
               /\ told'[b][p] = req.record.marks[p] /\ state'.record = req.record
  PROVE  ReaderInv'
  <1> "files" \in Stores /\ "books" \in Stores
    BY DEF Stores
  <1>q. PICK q : q = queue["books"]
    OBVIOUS
  <1>w. PICK w : w = Tail(q)
    OBVIOUS
  <1>1. q \in Seq(Requests) /\ q # <<>> /\ req = q[1] /\ 1 \in DOMAIN q /\ Len(q) <= MaxPending /\ MaxPending \in Nat
    BY <1>q, ReaderAssumption DEF ReaderInv, Types
  <1>2. /\ w \in Seq(Requests) /\ Len(w) = Len(q) - 1 /\ DOMAIN w = 1..Len(w)
        /\ \A i \in DOMAIN w : i + 1 \in DOMAIN q /\ w[i] = q[i + 1]
    BY <1>1, <1>w
  <1>3. queue'["books"] = w /\ \A s \in Stores \ {"books"} : queue'[s] = queue[s]
    BY <1>q, <1>w DEF Answered, ReaderInv, Types
  <1>4. req \in Requests /\ PendingOK(req) /\ view \in Books
    <2>1. PendingOK(q[1])
      BY <1>1, <1>q DEF Turning
    <2>2. q[1] \in Requests
      BY <1>1
    <2> QED BY <1>1, <2>1, <2>2 DEF PendingOK, Requests
  <1>r. PICK r : r = req.record
    OBVIOUS
  <1>5. /\ r \in Records /\ r.hash = view /\ r.keep = recordRef.keep /\ req.hash = view
        /\ books' = IF ok THEN [books EXCEPT ![view] = r] ELSE books
    BY <1>4, <1>r DEF PendingOK, Written
  <1>6. /\ Open' /\ BookOK' /\ BookOK /\ state' \in States /\ state'.kind = "open"
        /\ state'.record \in {state.record, r} /\ state'.record # None
    BY <1>5, <1>r, NoneIsNoRecord DEF ReaderInv, Types, Open, BookOK
  <1>7. Types'
    <2>1. queue' \in [Stores -> Seq(Requests)]
      BY <1>2, <1>q, <1>w DEF Answered, ReaderInv, Types
    <2>2. \A s \in Stores : Len(queue'[s]) <= MaxPending
      BY <1>1, <1>2, <1>3 DEF ReaderInv, Types
    <2>3. books' \in [Books -> Records \cup {None}] /\ \A b \in Books : books'[b] # None => books'[b].hash = b
      BY <1>5 DEF ReaderInv, Types
    <2> QED BY <1>6, <2>1, <2>2, <2>3 DEF ReaderInv, Types
  <1>8. Turning'
    <2>1. ASSUME NEW i \in DOMAIN w PROVE PendingOK(w[i])'
      <3>1. PendingOK(w[i])
        BY <1>2, <1>q DEF Turning
      <3> QED BY <3>1 DEF PendingOK
    <2> QED BY <1>3, <1>6, <2>1 DEF Turning, Stores
  <1>9. PlaceOK'
    <2> SUFFICES ASSUME refusals' = 0, ~toggled PROVE here = recordRef.place /\ LastWritten(w, books'[view]) = recordRef
      BY <1>3 DEF PlaceOK
    <2>1. ok /\ here = recordRef.place /\ LastWritten(q, books[view]) = recordRef
      BY <1>q DEF ReaderInv, PlaceOK
    <2>2. CASE w = <<>>
      <3>1. Len(q) = 1
        BY <1>1, <1>2, <2>2
      <3>2. r = recordRef
        BY <1>1, <1>r, <2>1, <3>1 DEF LastWritten
      <3>3. books'[view] = r
        BY <1>4, <1>5, <2>1 DEF ReaderInv, Types
      <3> QED BY <2>1, <2>2, <3>2, <3>3 DEF LastWritten
    <2>3. CASE w # <<>>
      <3>1. w[Len(w)] = q[Len(q)]
        BY <1>1, <1>2, <2>3
      <3> QED BY <1>1, <2>1, <2>3, <3>1 DEF LastWritten
    <2> QED BY <2>2, <2>3
  <1>10. MergesTo(q, recordRef.marks)
    BY <1>q DEF ReaderInv, MarksMerge
  <1>11. MarksMerge'
    BY <1>1, <1>3, <1>10, <1>w, MergedTail DEF MarksMerge
  <1>12. ASSUME ~ReadsFail PROVE MarksOK'
    <2>1. \A p : Later(w, 0, p) <=> Later(q, 1, p)
      <3> SUFFICES ASSUME NEW p PROVE Later(w, 0, p) <=> Later(q, 1, p)
        OBVIOUS
      <3>1. Later(w, 0, p) <=> Later(q, 0 + 1, p)
        BY <1>1, <1>w, LaterTail
      <3>2. 0 + 1 = 1
        OBVIOUS
      <3> QED BY <3>1, <3>2
    <2>2. \A p : Later(q, 1, p) => Later(q, 0, p)
      <3>1. DOMAIN q \subseteq Nat
        BY <1>1
      <3> QED BY <3>1 DEF Later
    <2>3. \A p \in Places : r.marks[p] = recordRef.marks[p] \/ Later(q, 1, p)
      BY <1>1, <1>4, <1>10, <1>r DEF MergesTo, PendingOK
    <2>4. ASSUME NEW p \in Places, told'[view][p] # "none"
          PROVE  /\ ~Later(w, 0, p) /\ recordRef.marks[p] = told'[view][p] /\ r.marks[p] = told'[view][p]
                 /\ state'.record.marks[p] = told'[view][p]
                 /\ ok \/ (books[view] # None /\ books[view].marks[p] = told'[view][p])
      <3>1. CASE told'[view][p] = told[view][p]
        <4>1. /\ recordRef.marks[p] = told[view][p] /\ state.record.marks[p] = told[view][p]
              /\ ~Later(q, 0, p) /\ books[view] # None /\ books[view].marks[p] = told[view][p]
          BY <1>4, <1>12, <1>q, <2>4, <3>1 DEF ReaderInv, MarksOK, MarksKept
        <4>2. ~Later(q, 1, p) /\ r.marks[p] = recordRef.marks[p]
          BY <2>2, <2>3, <4>1
        <4> QED BY <1>6, <2>1, <3>1, <4>1, <4>2
      <3>2. CASE told'[view][p] # told[view][p]
        <4>1. /\ ok /\ req.do = "mark" /\ p = req.place /\ ~Later(w, 0, p) /\ told'[view][p] = r.marks[p]
              /\ state'.record = r
          BY <1>4, <1>q, <1>r, <1>w, <3>2
        <4>2. recordRef.marks[p] = r.marks[p]
          BY <2>1, <2>3, <4>1
        <4>3. state'.record.marks[p] = told'[view][p]
          BY <4>1
        <4> QED BY <4>1, <4>2, <4>3
      <3> QED BY <3>1, <3>2
    <2>5. MarksKept'
      <3> SUFFICES ASSUME NEW b \in Books, NEW p \in Places, told'[b][p] # "none"
                   PROVE  books'[b] # None /\ books'[b].marks[p] = told'[b][p]
        BY DEF MarksKept
      <3>1. CASE b = view
        BY <1>5, <2>4, <3>1, NoneIsNoRecord DEF ReaderInv, Types
      <3>2. CASE b # view
        <4>1. books'[b] = books[b] /\ told'[b][p] = told[b][p]
          BY <1>5, <3>2 DEF ReaderInv, Types
        <4> QED BY <1>12, <4>1 DEF ReaderInv, MarksOK, MarksKept
      <3> QED BY <3>1, <3>2
    <2> QED BY <1>3, <2>4, <2>5 DEF MarksOK
  <1>13. ASSUME ~ReadsFail PROVE FlagsOK'
    <2>1. \A b : ~Midway(q, b) /\ ~Midway(w, b)
      <3>1. \A i \in DOMAIN q : q[i].do \in {"save", "mark"}
        BY <1>q DEF Turning, PendingOK
      <3> QED BY <1>2, <3>1 DEF Midway
    <2>2. ASSUME NEW b \in Books \ torn
          PROVE  /\ (books[b] # None /\ books[b].keep) <=> b \in files
                 /\ view = b => (recordRef.keep <=> b \in files) /\ (state.record.keep <=> b \in files)
      BY <1>13, <1>q, <2>1 DEF ReaderInv, FlagsOK
    <2>3. ASSUME NEW b \in Books \ torn
          PROVE  /\ (books'[b] # None /\ books'[b].keep) <=> b \in files
                 /\ view = b => (recordRef.keep <=> b \in files) /\ (state'.record.keep <=> b \in files)
      <3>1. CASE b = view
        <4>1. books'[b] \in {books[b], r} /\ state'.record \in {state.record, r}
          BY <1>5, <1>6, <3>1 DEF ReaderInv, Types
        <4> QED BY <1>5, <2>2, <3>1, <4>1, NoneIsNoRecord
      <3>2. CASE b # view
        <4>1. books'[b] = books[b]
          BY <1>5, <3>2 DEF ReaderInv, Types
        <4> QED BY <2>2, <3>2, <4>1
      <3> QED BY <3>1, <3>2
    <2> QED BY <2>3 DEF FlagsOK
  <1> QED BY <1>7, <1>8, <1>9, <1>11, <1>12, <1>13 DEF ReaderInv, Phases

LEMMA OutcomeIs ==
  ASSUME Types, NEW ok \in BOOLEAN, Outcome(ok)
  PROVE  refusals' \in Nat /\ (refusals' = 0 => refusals = 0 /\ ok)
  BY DEF Types, Outcome

LEMMA SavedKeeps ==
  ASSUME ReaderInv, Saved
  PROVE  ReaderInv'
  <1>q. PICK req : req = Head(queue["books"])
    OBVIOUS
  <1>1. queue["books"] # <<>> /\ req.do = "save" /\ Answered("books")
    BY <1>q DEF Saved, Head1
  <1>2. Turning /\ Open
    BY <1>1, <1>q, TurningIf DEF ReaderInv, Stores
  <1>3. PICK ok \in BOOLEAN : Outcome(ok) /\ Written(ok, req)
    BY <1>q DEF Saved
  <1>4. refusals' \in Nat /\ (refusals' = 0 => refusals = 0 /\ ok)
    BY <1>3, OutcomeIs DEF ReaderInv
  <1>5. UNCHANGED <<files, opening, state, recordRef, view, here, torn, toggled, told>>
    BY DEF Saved, tab, observers
  <1>6. told' \in [Books -> [Places -> Marks]]
    BY <1>5 DEF ReaderInv, Types
  <1> QED BY <1>1, <1>2, <1>3, <1>4, <1>5, <1>6, <1>q, WrittenKeeps

LEMMA MarkedKeeps ==
  ASSUME ReaderInv, Marked
  PROVE  ReaderInv'
  <1>q. PICK req : req = Head(queue["books"])
    OBVIOUS
  <1>1. queue["books"] # <<>> /\ req.do = "mark" /\ Answered("books")
    BY <1>q DEF Marked, Head1
  <1>2. Turning /\ Open
    BY <1>1, <1>q, TurningIf DEF ReaderInv, Stores
  <1>w. PICK w : w = Tail(queue["books"])
    OBVIOUS
  <1>0. queue["books"] \in Seq(Requests) /\ w \in Seq(Requests) /\ DOMAIN w \subseteq Nat \ {0}
    BY <1>1, <1>w DEF ReaderInv, Types, Stores
  <1>l. PICK later \in BOOLEAN : later = \E i \in DOMAIN w : w[i].do = "mark" /\ w[i].place = req.place
    OBVIOUS
  <1>3. PICK ok \in BOOLEAN :
          /\ Outcome(ok) /\ Written(ok, req)
          /\ state' = IF ok THEN [req.was EXCEPT !.record = req.record] ELSE state
          /\ told' = IF ok /\ ~later
                     THEN [told EXCEPT ![req.hash][req.place] = req.record.marks[req.place]]
                     ELSE told
    BY <1>q, <1>w, <1>l DEF Marked
  <1>4. refusals' \in Nat /\ (refusals' = 0 => refusals = 0 /\ ok)
    BY <1>3, OutcomeIs DEF ReaderInv
  <1>5. UNCHANGED <<files, opening, recordRef, view, here, torn, toggled>>
    BY DEF Marked
  <1>6. /\ req \in Requests /\ req.was.kind = "open" /\ req.place \in Places /\ req.record \in Records
        /\ req.hash = view /\ view \in Books
    <2>1. req = queue["books"][1] /\ 1 \in DOMAIN queue["books"] /\ req \in Requests
      BY <1>0, <1>1, <1>q
    <2> QED BY <1>1, <1>2, <2>1 DEF Turning, PendingOK, Requests
  <1>r. ok => state'.record = req.record
    BY <1>3, <1>6 DEF Requests, States
  <1>7. \/ state' = state
        \/ ok /\ state' \in States /\ state'.kind = "open" /\ state'.record = req.record
    BY <1>3, <1>6 DEF Requests, States
  <1>8. later <=> Later(w, 0, req.place)
    BY <1>0, <1>l DEF Later
  <1>9. told' \in [Books -> [Places -> Marks]]
    BY <1>3, <1>6 DEF ReaderInv, Types, Records
  <1>10. \A b \in Books, p \in Places :
            \/ told'[b][p] = told[b][p]
            \/ /\ ok /\ b = view /\ req.do = "mark" /\ p = req.place /\ ~Later(Tail(queue["books"]), 0, p)
               /\ told'[b][p] = req.record.marks[p] /\ state'.record = req.record
    BY <1>1, <1>3, <1>6, <1>8, <1>r, <1>w DEF ReaderInv, Types
  <1>11. Written(ok, req)
    BY <1>3
  <1> QED BY <1>1, <1>2, <1>4, <1>5, <1>7, <1>9, <1>10, <1>11, <1>q, WrittenKeeps

LEMMA InitInv ==
  ASSUME Init
  PROVE  ReaderInv
  <1> "files" \in Stores /\ "books" \in Stores
    BY DEF Stores
  <1>1. Still(queue) /\ opening = {} /\ ~Open
    BY DEF Init, Still, Open
  <1>2. NoMarks \in [Places -> Marks] /\ \A p \in Places : NoMarks[p] = "none"
    BY DEF NoMarks, Marks
  <1>3. Types
    <2>1. queue \in [Stores -> Seq(Requests)] /\ \A s \in Stores : Len(queue[s]) <= MaxPending
      BY <1>1, StillTyped
    <2>2. state \in States /\ state.kind # "open" /\ state.record = None
      BY DEF Init, States
    <2> QED BY <1>1, <1>2, <2>1, <2>2 DEF Init, Types, Open
  <1>4. Phases
    BY <1>1 DEF Phases, Turning, Still
  <1>5. PlaceOK /\ MarksMerge
    BY <1>1 DEF PlaceOK, MarksMerge
  <1>6. MarksOK /\ FlagsOK
    BY <1>1, <1>2 DEF Init, MarksOK, MarksKept, FlagsOK
  <1> QED BY <1>3, <1>4, <1>5, <1>6 DEF ReaderInv

LEMMA NextKeeps ==
  ASSUME ReaderInv, Patient, Next
  PROVE  ReaderInv'
  <1>1. ASSUME NEW b \in Books, OpenFile(b) \/ OpenKept(b) \/ RemoveBook(b) PROVE ReaderInv'
    BY <1>1, OpenFileKeeps, OpenKeptKeeps, RemoveBookKeeps
  <1>2. ASSUME NEW p \in Places, TurnPage(p) PROVE ReaderInv'
    BY <1>2, TurnPageKeeps
  <1>3. ASSUME NEW p \in Places, RemoveBookmark(p) \/ NoteBookmark(p) PROVE ReaderInv'
    BY <1>3, MarkKeeps DEF RemoveBookmark, NoteBookmark
  <1>4. ASSUME AddBookmark PROVE ReaderInv'
    <2>1. here \in Places
      BY <1>4 DEF AddBookmark, ReaderInv, Types
    <2> QED BY <1>4, <2>1, MarkKeeps DEF AddBookmark
  <1>5. ASSUME ToggleKeepFile \/ Reload PROVE ReaderInv'
    BY <1>5, ToggleKeeps, ReloadKeeps
  <1>6. ASSUME NEW l \in opening, Acquired(l) \/ ViewOpened(l) \/ FirstPage(l) \/ FailOpening(l)
        PROVE  ReaderInv'
    BY <1>6, AcquiredKeeps, ViewOpenedKeeps, FirstPageKeeps, FailOpeningKeeps
  <1>7. ASSUME FileRead \/ BookRead \/ Saved \/ Marked \/ Remembered PROVE ReaderInv'
    BY <1>7, FileReadKeeps, BookReadKeeps, SavedKeeps, MarkedKeeps, RememberedKeeps
  <1>8. ASSUME BytesKept \/ BytesForgotten \/ EntryRead \/ Flagged \/ BytesDropped \/ RecordDropped
        PROVE  ReaderInv'
    BY <1>8, FileToggledKeeps, EntryReadKeeps, FlaggedKeeps, BytesDroppedKeeps, RecordDroppedKeeps
       DEF BytesKept, BytesForgotten
  <1> QED BY <1>1, <1>2, <1>3, <1>4, <1>5, <1>6, <1>7, <1>8 DEF Next

LEMMA IdleKeeps ==
  ASSUME ReaderInv, UNCHANGED vars
  PROVE  ReaderInv'
  <1> USE DEF vars, tab, bounds, observers
  <1>1. Types'
    BY DEF ReaderInv, Types, BookOK, Open
  <1>2. Turning => Turning'
    BY DEF Turning, PendingOK, Still, Open
  <1>3. Arriving => Arriving'
    BY DEF Arriving, Knows, Still, Open
  <1>4. \A s, req : Step(s, req) => Step(s, req)'
    BY DEF Step, Toggling, Unmarked, Remembers, Open
  <1>5. Waiting => Waiting'
    BY <1>4 DEF Waiting, Asked
  <1>6. PlaceOK' /\ MarksMerge' /\ (~ReadsFail => MarksOK' /\ FlagsOK')
    BY DEF ReaderInv, PlaceOK, MarksMerge, MarksOK, MarksKept, FlagsOK, Open
  <1> QED BY <1>1, <1>2, <1>3, <1>5, <1>6 DEF ReaderInv, Phases

(* The tab is always in one of the three phases, with everything above.    *)
THEOREM PatientReader ==
  ASSUME Patient
  PROVE  Spec => []ReaderInv
  <1>1. Init => ReaderInv
    BY InitInv
  <1>2. ReaderInv /\ [Next]_vars => ReaderInv'
    BY NextKeeps, IdleKeeps
  <1> QED BY <1>1, <1>2, PTL DEF Spec

(* Where the reader is gets stored: when nothing waits and nothing was     *)
(* refused, storage, the ref and the page agree (withPosition, persist,    *)
(* render).                                                                *)
THEOREM PlaceIsKept ==
  ASSUME Patient
  PROVE  Spec => []PlaceKept
  <1>1. ASSUME ReaderInv PROVE PlaceKept
    <2> SUFFICES ASSUME Open, Quiet, refusals = 0, ~toggled
                 PROVE  recordRef.hash = view /\ books[view] = recordRef /\ books[view].place = here
      BY DEF PlaceKept
    <2>1. queue["books"] = <<>>
      BY DEF Quiet, Stores
    <2> QED BY <1>1, <2>1, EmptyIs DEF ReaderInv, Types, BookOK, PlaceOK
  <1> QED BY <1>1, PatientReader, PTL

(* A bookmark or note the reader was told is stored stays stored, page     *)
(* turns, kept files, reloads and refused writes notwithstanding, as long  *)
(* as no read of storage is refused (addBookmark, noteBookmark,            *)
(* toggleKeepFile, updateEntry).                                           *)
THEOREM MarksAreKept ==
  ASSUME Patient, ~ReadsFail
  PROVE  Spec => []MarksKept
  <1>1. ReaderInv => MarksKept
    BY DEF ReaderInv, MarksOK
  <1> QED BY <1>1, PatientReader, PTL

(* A record says its file is kept exactly when the bytes are there, unless *)
(* it was cut short between the two stores (keepBookFile, forgetBookFile,  *)
(* removeBook).                                                            *)
THEOREM FlagsTellFiles ==
  ASSUME Patient, ~ReadsFail
  PROVE  Spec => []FlagTellsFile
  <1>1. ASSUME ReaderInv PROVE FlagTellsFile
    <2> SUFFICES ASSUME Quiet, NEW b \in Books \ torn PROVE (books[b] # None /\ books[b].keep) <=> b \in files
      BY DEF FlagTellsFile
    <2>1. queue["books"] = <<>>
      BY DEF Quiet, Stores
    <2> QED BY <1>1, <2>1, EmptyIs DEF ReaderInv, FlagsOK
  <1> QED BY <1>1, PatientReader, PTL

LEMMA ReaderInvTypes == ReaderInv => ReaderTypeOK
  BY DEF ReaderInv, Types, ReaderTypeOK

(* Every variable of the reader has its type, an open book its record, and *)
(* no store more requests than it may have.                                *)
THEOREM ReaderTypeCorrect ==
  ASSUME Patient
  PROVE  Spec => []ReaderTypeOK
  BY ReaderInvTypes, PatientReader, PTL

-----------------------------------------------------------------------------
(* The parts of a page. *)

Things == Options \cup Catalogs \cup Genres \cup {"start", "next"}
ShownKinds == {"none", "loading", "loaded", "error", "hidden"}
Shows == [open : BOOLEAN, kind : ShownKinds, of : SUBSET Things]
Flights == [serial : Nat, of : SUBSET Things]

ScreenTypes ==
  /\ screen \in AllScreens /\ want \subseteq Things /\ shown \in Shows
  /\ serial \in Nat /\ flights \subseteq Flights /\ (\A f \in flights : f.serial \in 1..serial)
  /\ ready \in BOOLEAN /\ moves \in 0..MaxMoves

(* What the current request asks for is what is selected, unless nothing   *)
(* is any more.                                                            *)
Selectable == screen \in {"opds", "recommend"}
CurrentAsksWant ==
  \A f \in flights : f.serial = serial => f.of = want \/ (Selectable /\ want = Nothing)
NoCurrent == \A f \in flights : f.serial # serial

(* Closed, a panel waits for nothing; the links it keeps are of the        *)
(* selected country.  Before the addons are there nothing is asked.        *)
ClosedWaitsNot ==
  /\ screen = "links" /\ ~shown.open => NoCurrent
  /\ screen = "prices" /\ shown.kind = "none" => NoCurrent
  /\ ~ready => screen \in Addonful /\ shown = Empty /\ flights = {}
LinksOfWant == screen = "links" /\ shown.kind = "loaded" => shown.of = want

ScreensInv ==
  ScreenTypes /\ CurrentAsksWant /\ ClosedWaitsNot /\ LinksOfWant /\ PanelsTellTrue

LEMMA EmptyShown == Empty \in Shows /\ Empty.kind = "none" /\ Empty.open = FALSE
  BY DEF Empty, Shows, ShownKinds, Nothing

LEMMA LoadingShown ==
  ASSUME NEW v \in Shows
  PROVE  Loading(v) \in Shows /\ Loading(v).kind = "loading" /\ Loading(v).open = v.open
  BY DEF Loading, Shows, ShownKinds, Nothing

LEMMA OpenedShown ==
  ASSUME NEW v \in Shows, NEW o \in BOOLEAN
  PROVE  LET w == [v EXCEPT !.open = o]
         IN w \in Shows /\ w.open = o /\ w.kind = v.kind /\ w.of = v.of
  BY DEF Shows

(* A request is sent for what is selected now. *)
LEMMA LoadKeeps ==
  ASSUME ScreensInv, NEW w \in SUBSET Things, NEW v \in Shows, Load(w, v), want' = w, screen' = screen,
         ready' = TRUE, moves' \in 0..MaxMoves,
         screen = "links" => v.open /\ v.kind # "loaded",
         screen = "prices" => v.kind # "none",
         v.kind = "loaded" => KeepsOlder
  PROVE  ScreensInv'
  <1>n. PICK n : n = [serial |-> serial + 1, of |-> w]
    OBVIOUS
  <1>1. n \in Flights /\ n.serial = serial + 1 /\ n.of = w /\ serial \in Nat
    BY <1>n DEF Flights, ScreensInv, ScreenTypes
  <1>2. flights' = flights \cup {n} /\ serial' = serial + 1 /\ shown' = v
    BY <1>n DEF Load
  <1>3. \A f \in flights : f.serial \in 1..serial
    BY DEF ScreensInv, ScreenTypes
  <1>4. \A f \in flights' : f.serial \in 1..serial'
    BY <1>1, <1>2, <1>3
  <1>5. ScreenTypes'
    BY <1>1, <1>2, <1>4 DEF ScreensInv, ScreenTypes
  <1>6. \A f \in flights' : f.serial = serial' => f = n
    BY <1>1, <1>2, <1>3
  <1>7. CurrentAsksWant'
    BY <1>1, <1>6 DEF CurrentAsksWant
  <1>8. Underway'
    BY <1>1, <1>2 DEF Underway
  <1>9. ClosedWaitsNot' /\ LinksOfWant'
    BY <1>2 DEF ClosedWaitsNot, LinksOfWant
  <1>10. PanelsTellTrue'
    BY <1>2, <1>8 DEF PanelsTellTrue, KeepsOlder
  <1> QED BY <1>5, <1>7, <1>9, <1>10 DEF ScreensInv

(* None is; those under way have lost their number. *)
LEMMA CancelKeeps ==
  ASSUME ScreensInv, NEW w \in SUBSET Things, NEW v \in Shows, Cancel(v), want' = w, screen' = screen,
         ready' = ready, moves' \in 0..MaxMoves,
         v.kind = "loading" => ~Visible',
         v.kind = "loaded" => v.of = w \/ (Selectable /\ w = Nothing),
         ~ready => v = Empty
  PROVE  ScreensInv'
  <1>1. serial' = serial + 1 /\ shown' = v /\ flights' = flights /\ serial \in Nat
    BY DEF Cancel, ScreensInv, ScreenTypes
  <1>2. \A f \in flights' : f.serial \in 1..serial' /\ f.serial # serial'
    BY <1>1 DEF ScreensInv, ScreenTypes
  <1>3. ScreenTypes'
    BY <1>1, <1>2 DEF ScreensInv, ScreenTypes
  <1>4. CurrentAsksWant' /\ NoCurrent'
    BY <1>2 DEF CurrentAsksWant, NoCurrent
  <1>5. ClosedWaitsNot' /\ LinksOfWant'
    BY <1>1, <1>4 DEF ClosedWaitsNot, LinksOfWant, Selectable, ScreensInv
  <1>6. PanelsTellTrue'
    BY <1>1 DEF PanelsTellTrue, Visible, Selectable
  <1> QED BY <1>3, <1>4, <1>5, <1>6 DEF ScreensInv

LEMMA MoveIs ==
  ASSUME ScreensInv, Move
  PROVE  moves' \in 0..MaxMoves
  BY OptionsAssumption DEF Move, ScreensInv, ScreenTypes

LEMMA ToggleLinksKeeps ==
  ASSUME ScreensInv, ToggleLinks
  PROVE  ScreensInv'
  <1>1. /\ screen = "links" /\ moves' \in 0..MaxMoves /\ shown \in Shows /\ want \in SUBSET Things
        /\ UNCHANGED <<screen, want, ready>> /\ ready = TRUE
    BY MoveIs DEF ToggleLinks, ScreensInv, ScreenTypes, ClosedWaitsNot, Addonful
  <1>2. CASE shown.open /\ Cancel([shown EXCEPT !.open = FALSE])
    <2>v. PICK v : v = [shown EXCEPT !.open = FALSE]
      OBVIOUS
    <2>1. v \in Shows /\ v.open = FALSE /\ v.kind = shown.kind /\ v.of = shown.of
      BY <1>1, <2>v, OpenedShown
    <2>2. Cancel(v) /\ shown' = v
      BY <1>2, <2>v DEF Cancel
    <2>3. ~Visible'
      BY <1>1, <2>1, <2>2 DEF Visible
    <2>4. v.kind = "loaded" => v.of = want
      BY <1>1, <2>1 DEF ScreensInv, LinksOfWant
    <2> QED BY <1>1, <2>1, <2>2, <2>3, <2>4, CancelKeeps
  <1>3. CASE ~shown.open /\ shown.kind = "loaded" /\ Keep([shown EXCEPT !.open = TRUE])
    <2>v. PICK v : v = [shown EXCEPT !.open = TRUE]
      OBVIOUS
    <2>1. v \in Shows /\ v.open = TRUE /\ v.kind = "loaded" /\ v.of = want
      BY <1>1, <1>3, <2>v, OpenedShown DEF ScreensInv, LinksOfWant
    <2>2. shown' = v /\ UNCHANGED <<serial, flights>>
      BY <1>3, <2>v DEF Keep
    <2>4. ScreenTypes' /\ CurrentAsksWant'
      BY <1>1, <2>1, <2>2 DEF ScreensInv, ScreenTypes, CurrentAsksWant, Selectable
    <2>5. ClosedWaitsNot' /\ LinksOfWant' /\ PanelsTellTrue'
      BY <1>1, <2>1, <2>2 DEF ClosedWaitsNot, LinksOfWant, PanelsTellTrue
    <2> QED BY <2>4, <2>5 DEF ScreensInv
  <1>4. CASE ~shown.open /\ shown.kind # "loaded" /\ Load(want, Loading([shown EXCEPT !.open = TRUE]))
    <2>u. PICK u : u = [shown EXCEPT !.open = TRUE]
      OBVIOUS
    <2>v. PICK v : v = Loading(u)
      OBVIOUS
    <2>1. u \in Shows /\ u.open = TRUE
      BY <1>1, <2>u, OpenedShown
    <2>2. v \in Shows /\ v.open = TRUE /\ v.kind = "loading"
      BY <2>1, <2>v, LoadingShown
    <2>3. Load(want, v)
      BY <1>4, <2>u, <2>v
    <2> QED BY <1>1, <2>2, <2>3, LoadKeeps
  <1> QED BY <1>2, <1>3, <1>4 DEF ToggleLinks

LEMMA TogglePricesKeeps ==
  ASSUME ScreensInv, TogglePrices
  PROVE  ScreensInv'
  <1>1. /\ screen = "prices" /\ moves' \in 0..MaxMoves /\ shown \in Shows /\ want \in SUBSET Things
        /\ UNCHANGED <<screen, want, ready>> /\ ready = TRUE
    BY MoveIs DEF TogglePrices, ScreensInv, ScreenTypes, ClosedWaitsNot, Addonful
  <1>2. CASE Load(want, Loading(shown))
    <2>1. Loading(shown) \in Shows /\ Loading(shown).kind = "loading"
      BY <1>1, LoadingShown
    <2> QED BY <1>1, <1>2, <2>1, LoadKeeps
  <1>3. CASE Cancel(Empty)
    BY <1>1, <1>3, EmptyShown, CancelKeeps
  <1> QED BY <1>2, <1>3 DEF TogglePrices

LEMMA ChangeCountryKeeps ==
  ASSUME ScreensInv, NEW c \in Options, ChangeCountry(c)
  PROVE  ScreensInv'
  <1>1. /\ screen \in Panels /\ moves' \in 0..MaxMoves /\ shown \in Shows /\ want' \in SUBSET Things
        /\ screen' = screen /\ ready' = TRUE /\ ready = TRUE
    BY MoveIs DEF ChangeCountry, ScreensInv, ScreenTypes, ClosedWaitsNot, Addonful, Panels, Things
  <1>2. \/ /\ (screen = "links" /\ shown.open) \/ (screen = "prices" /\ shown.kind # "none")
           /\ Load(want', Loading(shown))
        \/ screen = "links" /\ ~shown.open /\ Keep([shown EXCEPT !.kind = "none", !.of = Nothing])
        \/ screen = "prices" /\ shown.kind = "none" /\ Keep(shown)
    BY <1>1 DEF ChangeCountry, Panels
  <1>3. CASE /\ (screen = "links" /\ shown.open) \/ (screen = "prices" /\ shown.kind # "none")
             /\ Load(want', Loading(shown))
    <2>v. PICK v : v = Loading(shown)
      OBVIOUS
    <2>w. PICK w : w = want'
      OBVIOUS
    <2>1. v \in Shows /\ v.kind = "loading" /\ v.open = shown.open /\ w \in SUBSET Things
      BY <1>1, <2>v, <2>w, LoadingShown
    <2> QED BY <1>1, <1>3, <2>v, <2>w, <2>1, LoadKeeps
  <1>4. CASE screen = "links" /\ ~shown.open /\ Keep([shown EXCEPT !.kind = "none", !.of = Nothing])
    <2>v. PICK v : v = [shown EXCEPT !.kind = "none", !.of = Nothing]
      OBVIOUS
    <2>1. v \in Shows /\ v.kind = "none" /\ v.open = FALSE
      BY <1>1, <1>4, <2>v DEF Shows, ShownKinds, Nothing
    <2>2. shown' = v /\ UNCHANGED <<serial, flights>>
      BY <1>4, <2>v DEF Keep
    <2>3. NoCurrent
      BY <1>4 DEF ScreensInv, ClosedWaitsNot
    <2>4. ScreenTypes' /\ NoCurrent' /\ CurrentAsksWant'
      BY <1>1, <2>1, <2>2, <2>3 DEF ScreensInv, ScreenTypes, NoCurrent, CurrentAsksWant
    <2>5. ClosedWaitsNot' /\ LinksOfWant' /\ PanelsTellTrue'
      BY <1>1, <2>1, <2>2, <2>4 DEF ClosedWaitsNot, LinksOfWant, PanelsTellTrue
    <2> QED BY <2>4, <2>5 DEF ScreensInv
  <1>5. CASE screen = "prices" /\ shown.kind = "none" /\ Keep(shown)
    <2>2. UNCHANGED <<shown, serial, flights>>
      BY <1>5 DEF Keep
    <2>3. NoCurrent
      BY <1>5 DEF ScreensInv, ClosedWaitsNot
    <2>4. ScreenTypes' /\ NoCurrent' /\ CurrentAsksWant'
      BY <1>1, <2>2, <2>3 DEF ScreensInv, ScreenTypes, NoCurrent, CurrentAsksWant
    <2>5. ClosedWaitsNot' /\ LinksOfWant' /\ PanelsTellTrue'
      BY <1>1, <1>5, <2>2, <2>4 DEF ClosedWaitsNot, LinksOfWant, PanelsTellTrue
    <2> QED BY <2>4, <2>5 DEF ScreensInv
  <1> QED BY <1>2, <1>3, <1>4, <1>5

LEMMA OpenFeedKeeps ==
  ASSUME ScreensInv, NEW c \in Catalogs, NEW page \in {"start", "next"}, OpenFeed(c, page)
  PROVE  ScreensInv'
  <1>v. PICK v : v = Loading(shown)
    OBVIOUS
  <1>w. PICK w : w = {c, page}
    OBVIOUS
  <1>1. /\ screen = "opds" /\ moves' \in 0..MaxMoves /\ v \in Shows /\ v.kind = "loading" /\ w \in SUBSET Things
        /\ screen' = screen /\ want' = w /\ ready' = TRUE
    BY <1>v, <1>w, MoveIs, LoadingShown
       DEF OpenFeed, ScreensInv, ScreenTypes, ClosedWaitsNot, Addonful, Things
  <1>2. Load(w, v)
    BY <1>v, <1>w, <1>1 DEF OpenFeed
  <1> QED BY <1>1, <1>2, LoadKeeps

(* Nothing is selected any more: an answer may still come, and not be seen. *)
LEMMA ForgottenKeeps ==
  ASSUME ScreensInv, Selectable, want' = Nothing, Keep(Empty), screen' = screen, ready' = ready,
         moves' \in 0..MaxMoves
  PROVE  ScreensInv'
  <1>1. shown' = Empty /\ UNCHANGED <<serial, flights>>
    BY DEF Keep
  <1>2. ScreenTypes'
    BY <1>1, EmptyShown DEF ScreensInv, ScreenTypes, Nothing
  <1>3. CurrentAsksWant'
    BY <1>1 DEF CurrentAsksWant, Selectable
  <1>4. ClosedWaitsNot' /\ LinksOfWant' /\ PanelsTellTrue'
    BY <1>1, EmptyShown DEF ScreensInv, ClosedWaitsNot, LinksOfWant, PanelsTellTrue, Selectable
  <1> QED BY <1>2, <1>3, <1>4 DEF ScreensInv

LEMMA StandingKeeps ==
  ASSUME ScreensInv, UNCHANGED <<screen, want, shown, serial, flights, ready>>, moves' \in 0..MaxMoves
  PROVE  ScreensInv'
  BY DEF ScreensInv, ScreenTypes, CurrentAsksWant, Selectable, ClosedWaitsNot, NoCurrent, LinksOfWant,
         PanelsTellTrue, Underway, Visible, KeepsOlder

LEMMA FeedsListedKeep ==
  ASSUME ScreensInv, NEW c \in Catalogs, RemoveFeed(c) \/ AddFeed(c)
  PROVE  ScreensInv'
  <1>1. moves' \in 0..MaxMoves
    BY MoveIs DEF RemoveFeed, AddFeed
  <1>2. CASE AddFeed(c) \/ (RemoveFeed(c) /\ c \notin want)
    BY <1>1, <1>2, StandingKeeps DEF AddFeed, RemoveFeed
  <1>3. CASE RemoveFeed(c) /\ c \in want
    BY <1>1, <1>3, ForgottenKeeps DEF RemoveFeed, Selectable
  <1> QED BY <1>2, <1>3

LEMMA HeldShown ==
  ASSUME ScreensInv
  PROVE  /\ Held \in Shows
         /\ screen = "ratings" => Held.kind = "loading"
         /\ screen = "found" => Held = Empty
         /\ screen \notin {"ratings", "found"} => Held = shown
  BY EmptyShown, LoadingShown DEF Held, ScreensInv, ScreenTypes

LEMMA EffectKeeps ==
  ASSUME ScreensInv, NEW w, Select(w), w \in SUBSET Things
  PROVE  ScreensInv'
  <1>v. PICK v : v = Held
    OBVIOUS
  <1>1. /\ screen \in ByProp /\ moves' \in 0..MaxMoves /\ v \in Shows
        /\ screen' = screen /\ want' = w /\ ready' = ready /\ ready \in BOOLEAN
    BY <1>v, MoveIs, HeldShown DEF Select, ScreensInv, ScreenTypes
  <1>2. CASE screen \in Addonful /\ ~ready
    <2>1. v = Empty
      BY <1>2, <1>v, HeldShown DEF ScreensInv, ClosedWaitsNot, Addonful
    <2>2. Cancel(v)
      BY <1>2, <1>v DEF Select, RunEffect
    <2> QED BY <1>1, <2>1, <2>2, EmptyShown, CancelKeeps
  <1>3. CASE ~(screen \in Addonful /\ ~ready)
    <2>1. Load(w, v) /\ ready' = TRUE
      BY <1>1, <1>3, <1>v DEF Select, RunEffect, ScreensInv, ClosedWaitsNot
    <2>2. v.kind = "loaded" => KeepsOlder
      BY <1>1, <1>v, HeldShown, EmptyShown DEF ByProp, Addonful, KeepsOlder
    <2>3. screen # "links" /\ screen # "prices"
      BY <1>1 DEF ByProp, Addonful
    <2> QED BY <1>1, <2>1, <2>2, <2>3, LoadKeeps
  <1> QED BY <1>2, <1>3

LEMMA AddonsLoadKeeps ==
  ASSUME ScreensInv, AddonsLoad
  PROVE  ScreensInv'
  <1>v. PICK v : v = Held
    OBVIOUS
  <1>1. /\ screen \in Addonful /\ ~ready /\ moves' \in 0..MaxMoves /\ v \in Shows /\ Load(want, v)
        /\ UNCHANGED <<screen, want>> /\ ready' = TRUE /\ want \in SUBSET Things
    BY <1>v, HeldShown DEF AddonsLoad, ScreensInv, ScreenTypes
  <1>2. v = Empty
    BY <1>1, <1>v, HeldShown DEF ScreensInv, ClosedWaitsNot, Addonful
  <1> QED BY <1>1, <1>2, EmptyShown, LoadKeeps DEF Addonful

LEMMA GenresKeep ==
  ASSUME ScreensInv, NEW g \in Genres, HideGenre(g) \/ RestoreGenre(g)
  PROVE  ScreensInv'
  <1>w. PICK w : w = Profile(listed')
    OBVIOUS
  <1>1. /\ screen = "recommend" /\ OnPage /\ moves' \in 0..MaxMoves /\ Rerun(w)
        /\ UNCHANGED <<screen, ready>> /\ w \in SUBSET Things /\ want' = w /\ ready = TRUE /\ shown \in Shows
    BY <1>w, MoveIs DEF HideGenre, RestoreGenre, Rerun, Profile, Things, ScreensInv, ScreenTypes,
                        ClosedWaitsNot, Addonful
  <1>2. CASE w = Nothing
    BY <1>1, <1>2, CancelKeeps DEF Rerun, OnPage, Selectable
  <1>3. CASE w # Nothing
    BY <1>1, <1>3, LoadKeeps DEF Rerun, KeepsOlder
  <1> QED BY <1>2, <1>3

LEMMA ForgetKeeps ==
  ASSUME ScreensInv, ForgetHistory
  PROVE  ScreensInv'
  BY MoveIs, ForgottenKeeps DEF ForgetHistory, Selectable

LEMMA LandedShown ==
  ASSUME ScreensInv, NEW f \in flights
  PROVE  /\ Loaded(f) \in Shows /\ Loaded(f).open = shown.open
         /\ \/ Loaded(f).kind = "loaded" /\ Loaded(f).of = f.of
            \/ Loaded(f).kind = "hidden"
         /\ Failed \in Shows /\ Failed.kind \notin {"loading", "loaded"}
         /\ screen \in {"links", "prices"} => Failed.kind = "error" /\ Failed.open = shown.open
  <1>1. shown \in Shows /\ f \in Flights
    BY DEF ScreensInv, ScreenTypes
  <1>2. /\ Loaded(f) \in Shows /\ Loaded(f).open = shown.open
        /\ \/ Loaded(f).kind = "loaded" /\ Loaded(f).of = f.of
           \/ Loaded(f).kind = "hidden"
    BY <1>1 DEF Loaded, Shows, ShownKinds, Flights
  <1>v. PICK v : v = Failed
    OBVIOUS
  <1>3. CASE screen = "featured"
    <2>e. PICK e : e = Empty
      OBVIOUS
    <2>1. v = [e EXCEPT !.kind = "hidden"] /\ e \in Shows
      BY <1>3, <1>v, <2>e, EmptyShown DEF Failed
    <2>2. v \in Shows /\ v.kind = "hidden"
      BY <2>1 DEF Shows, ShownKinds
    <2> QED BY <1>2, <1>3, <1>v, <2>2
  <1>4. CASE screen = "recommend"
    <2>1. v = Empty
      BY <1>4, <1>v DEF Failed
    <2> QED BY <1>2, <1>4, <1>v, <2>1, EmptyShown
  <1>5. CASE screen \notin {"featured", "recommend"}
    <2>1. v = [shown EXCEPT !.kind = "error", !.of = Nothing]
      BY <1>5, <1>v DEF Failed
    <2>2. v \in Shows /\ v.kind = "error" /\ v.open = shown.open
      BY <1>1, <2>1 DEF Shows, ShownKinds, Nothing
    <2> QED BY <1>2, <1>5, <1>v, <2>2
  <1> QED BY <1>3, <1>4, <1>5

LEMMA LandKeeps ==
  ASSUME ScreensInv, NEW f \in flights, NEW ok \in BOOLEAN, Land(f, ok)
  PROVE  ScreensInv'
  <1>1. flights' = flights \ {f} /\ UNCHANGED <<screen, want, serial, ready, moves>>
    BY DEF Land
  <1>r. ready
    BY DEF ScreensInv, ClosedWaitsNot, ScreenTypes
  <1>2. CASE f.serial # serial
    <2>1. shown' = shown
      BY <1>2 DEF Land
    <2>2. ScreenTypes' /\ CurrentAsksWant' /\ ClosedWaitsNot' /\ LinksOfWant'
      BY <1>1, <2>1 DEF ScreensInv, ScreenTypes, CurrentAsksWant, Selectable, ClosedWaitsNot, NoCurrent, LinksOfWant
    <2>3. Underway => Underway'
      BY <1>1, <1>2 DEF Underway
    <2>4. PanelsTellTrue'
      BY <1>1, <2>1, <2>3 DEF ScreensInv, PanelsTellTrue, Visible, KeepsOlder
    <2> QED BY <2>2, <2>4 DEF ScreensInv
  <1>3. CASE f.serial = serial
    <2>1. shown' = IF ok THEN Loaded(f) ELSE Failed
      BY <1>3 DEF Land
    <2>2. /\ shown' \in Shows /\ shown'.kind # "loading"
          /\ shown'.kind = "loaded" => shown'.of = f.of
          /\ screen = "links" => shown'.open = shown.open
          /\ screen = "prices" => shown'.kind # "none"
      BY <2>1, LandedShown DEF ShownKinds
    <2>3. f.of = want \/ (Selectable /\ want = Nothing)
      BY <1>3 DEF ScreensInv, CurrentAsksWant
    <2>4. ScreenTypes' /\ CurrentAsksWant'
      BY <1>1, <2>2 DEF ScreensInv, ScreenTypes, CurrentAsksWant, Selectable
    <2>5. ClosedWaitsNot'
      BY <1>1, <1>r, <2>2 DEF ScreensInv, ClosedWaitsNot, NoCurrent
    <2>6. LinksOfWant' /\ PanelsTellTrue'
      BY <1>1, <2>2, <2>3 DEF LinksOfWant, PanelsTellTrue, Visible, Selectable
    <2> QED BY <2>4, <2>5, <2>6 DEF ScreensInv
  <1> QED BY <1>2, <1>3

LEMMA ScreensInitInv ==
  ASSUME ScreensInit
  PROVE  ScreensInv
  <1>1. /\ screen \in AllScreens /\ moves \in 0..MaxMoves /\ ready \in BOOLEAN /\ (~ready => screen \in Addonful)
        /\ shown \in Shows /\ shown.kind \in {"none", "loading"} /\ (shown.kind = "loading" => screen = "ratings")
        /\ ~ready => shown = Empty
    <2>1. /\ screen \in AllScreens /\ moves \in 0..MaxMoves
          /\ ready = (screen \notin Addonful)
      BY OptionsAssumption DEF ScreensInit
    <2>2. shown = IF screen = "ratings" THEN Loading(Empty) ELSE Empty
      BY DEF ScreensInit
    <2>3. "ratings" \notin Addonful
      BY DEF Addonful
    <2> QED BY <2>1, <2>2, <2>3, EmptyShown, LoadingShown
  <1>2. want \in SUBSET Things
    BY DEF ScreensInit, Things, Profile, Nothing
  <1>3. CASE screen \in {"featured", "ratings", "recommend"}
    <2>1. serial = 1 /\ flights = {[serial |-> 1, of |-> want]}
      BY <1>3 DEF ScreensInit
    <2>2. ScreenTypes
      BY <1>1, <1>2, <2>1 DEF ScreenTypes, Flights
    <2>3. ready
      BY <1>1, <1>3 DEF Addonful
    <2>4. CurrentAsksWant /\ ClosedWaitsNot /\ LinksOfWant /\ PanelsTellTrue
      BY <1>1, <1>3, <2>1, <2>3 DEF CurrentAsksWant, ClosedWaitsNot, LinksOfWant, PanelsTellTrue, Underway
    <2> QED BY <2>2, <2>4 DEF ScreensInv
  <1>4. CASE screen \notin {"featured", "ratings", "recommend"}
    <2>1. serial = 0 /\ flights = {}
      BY <1>4 DEF ScreensInit
    <2> QED BY <1>1, <1>2, <1>4, <2>1 DEF ScreensInv, ScreenTypes, CurrentAsksWant, ClosedWaitsNot, NoCurrent,
                                        LinksOfWant, PanelsTellTrue
  <1> QED BY <1>3, <1>4

LEMMA ScreensNextKeeps ==
  ASSUME ScreensInv, [ScreensNext]_screenVars
  PROVE  ScreensInv'
  <1>1. ASSUME ToggleLinks \/ TogglePrices \/ AddonsLoad \/ ForgetHistory PROVE ScreensInv'
    BY <1>1, ToggleLinksKeeps, TogglePricesKeeps, AddonsLoadKeeps, ForgetKeeps
  <1>2. ASSUME NEW c \in Options, ChangeCountry(c) PROVE ScreensInv'
    BY <1>2, ChangeCountryKeeps
  <1>3. ASSUME NEW c \in Catalogs, NEW page \in {"start", "next"}, OpenFeed(c, page) PROVE ScreensInv'
    BY <1>3, OpenFeedKeeps
  <1>4. ASSUME NEW c \in Catalogs, RemoveFeed(c) \/ AddFeed(c) PROVE ScreensInv'
    BY <1>4, FeedsListedKeep
  <1>5. ASSUME NEW w \in Options, Select({w}) PROVE ScreensInv'
    <2>1. {w} \in SUBSET Things
      BY DEF Things
    <2> QED BY <1>5, <2>1, EffectKeeps
  <1>6. ASSUME NEW g \in Genres, HideGenre(g) \/ RestoreGenre(g) PROVE ScreensInv'
    BY <1>6, GenresKeep
  <1>7. ASSUME NEW f \in flights, NEW ok \in BOOLEAN, Land(f, ok) PROVE ScreensInv'
    BY <1>7, LandKeeps
  <1>8. ASSUME UNCHANGED screenVars PROVE ScreensInv'
    <2>1. moves \in 0..MaxMoves
      BY DEF ScreensInv, ScreenTypes
    <2> QED BY <1>8, <2>1, StandingKeeps DEF screenVars
  <1> QED BY <1>1, <1>2, <1>3, <1>4, <1>5, <1>6, <1>7, <1>8 DEF ScreensNext

(* What a part of the page shows belongs to what is selected now, and one  *)
(* that says it is loading is, under any order of answers and failures     *)
(* (EditionLinks, EditionPrices, OpdsShelf, FeaturedBooks,                 *)
(* Recommendations, TranslationRatings, AddonSearchResults, AddonSources).     *)
THEOREM PanelsAreTrue == ScreensSpec => []PanelsTellTrue
  <1>1. ScreensInit => ScreensInv
    BY ScreensInitInv
  <1>2. ScreensInv /\ [ScreensNext]_screenVars => ScreensInv'
    BY ScreensNextKeeps
  <1>3. ScreensInv => PanelsTellTrue
    BY DEF ScreensInv
  <1> QED BY <1>1, <1>2, <1>3, PTL DEF ScreensSpec

LEMMA ScreensInvTypes == ScreensInv => ScreensTypeOK
  BY DEF ScreensInv, ScreenTypes, ScreensTypeOK, Shows, ShownKinds

(* A part of the page has its type, and no request a number not yet given. *)
THEOREM ScreensTypeCorrect == ScreensSpec => []ScreensTypeOK
  BY ScreensInvTypes, ScreensInitInv, ScreensNextKeeps, PTL DEF ScreensSpec

-----------------------------------------------------------------------------
(* What the API answers the panels. *)

About == {"prices", "ratings"}
Whom == Pricers \cup Raters \cup {"reviews"}
KeptAnswers == [failed : SUBSET Whom, age : 0..LongLife]
IsQuestion(q) ==
  \E about \in About \cup {"none"}, failed \in SUBSET Whom : \E todo, sent :
    /\ q = [about |-> about, todo |-> todo, asking |-> sent, failed |-> failed]
    /\ about = "prices" => todo \cup sent \subseteq Pricers
QuoteTypes ==
  /\ kept \in [About -> KeptAnswers]
  /\ \A s \in DOMAIN questions : IsQuestion(questions[s])

PanelKeys == (DOMAIN Printings) \X Countries
IsAnswer(a) ==
  \E own, via, shops, had, crossed :
    a = [own |-> own, via |-> via, shops |-> shops, had |-> had, crossed |-> crossed]
IsReader(r) ==
  \E pc, key, own, via, had, crossed :
    /\ pc \in {"own", "siblings", "keep"} /\ key \in PanelKeys
    /\ r = [pc |-> pc, key |-> key, own |-> own, via |-> via, had |-> had, crossed |-> crossed]
LinkTypes ==
  /\ DOMAIN rows \subseteq RowKeys
  /\ linkSync = NoSync \/ \E p \in DOMAIN Printings, c \in Claims : linkSync = [of |-> {p}, claim |-> {c}]
  /\ DOMAIN panels \subseteq PanelKeys
  /\ \A k \in DOMAIN panels : IsAnswer(panels[k])
  /\ \A s \in DOMAIN readers : readers[s] = NoReader \/ IsReader(readers[s])

(* Each copy stored is one the policy lets through, and free: so a copy    *)
(* stays one, whatever is synced later.                                    *)
Permitted(provider, rights, first) ==
  /\ provider \in DownloadAllowlist /\ rights \in {"public_domain", "open_license"}
  /\ rights = "open_license" \/ provider \in Chartered \/ first = Unstated \/ first <= ThisYear - Window
CopiesPermitted == \A r \in DOMAIN rows : r[3] \in Copies => Permitted(r[2], rows[r].rights, rows[r].first)
CopiesFree == \A r \in DOMAIN rows : r[3] \in Copies => rows[r].free

(* What is read for an answer is stored; and what has yet to be read holds *)
(* the copy there was when it was asked for.                               *)
Grounded(p, a) ==
  /\ DOMAIN a.own \subseteq Own(p)
  /\ \A r \in a.via : r \in DOMAIN rows /\ r[1] \in Siblings(p) /\ IsCopy(r)
ToFind(r) ==
  CASE r.pc = "own" -> \E q \in Family(r.key[1]) : HasCopy(q)
    [] r.pc = "siblings" -> \E q \in Siblings(r.key[1]) : HasCopy(q)
    [] OTHER -> GivesCopy(r)
ReadSoFar(r) ==
  CASE r.pc = "own" -> TRUE
    [] r.pc = "siblings" -> r.own = OwnLinks(r.key[1]) /\ ~HasCopy(r.key[1])
    [] OTHER -> AsNow(r.key[1], r)
ReaderRight(r) ==
  /\ Grounded(r.key[1], r)
  /\ r.pc # "keep" => r.via = {}
  /\ r.had => ToFind(r)
  /\ ~r.crossed => ReadSoFar(r)
PanelRight(k, a) ==
  /\ a.shops = Bookstores(k[1], k[2]) /\ Grounded(k[1], a)
  /\ a.had => GivesCopy(a)
  /\ ~a.crossed => AsNow(k[1], a)

(* Who was at it when a sync deleted, or came before its end, is marked.   *)
OpenCrosses ==
  linkSync # NoSync =>
    /\ \A k \in DOMAIN panels : panels[k].crossed
    /\ \A s \in DOMAIN readers : readers[s] = NoReader \/ readers[s].crossed

LinksInv ==
  /\ LinkTypes /\ CopiesPermitted /\ CopiesFree /\ OpenCrosses
  /\ \A s \in DOMAIN readers : readers[s] = NoReader \/ ReaderRight(readers[s])
  /\ \A k \in DOMAIN panels : PanelRight(k, panels[k])
PanelsInv == LinksInv /\ QuoteTypes /\ QuotesFresh

LEMMA NotKeptIs == NotKept \in KeptAnswers /\ NotKept.failed = {}
  BY PanelBounds DEF NotKept, KeptAnswers

LEMMA AllowedIsPermitted ==
  ASSUME NEW c, Allowed(c), c.type \in Copies
  PROVE  Permitted(c.provider, c.rights, c.first)
  BY DEF Allowed, Permitted, Granted, Plausible, Copies

LEMMA StoredIs ==
  ASSUME LinksInv, NEW p \in DOMAIN Printings, NEW claim \in Claims, rows' = Stored(p, claim)
  PROVE  /\ DOMAIN rows' \subseteq RowKeys /\ CopiesPermitted' /\ CopiesFree'
         /\ DOMAIN rows \subseteq DOMAIN rows'
  <1>new. PICK new : new = {RowKey(p, c) : c \in Accepted(claim)}
    OBVIOUS
  <1>1. /\ DOMAIN rows' = DOMAIN rows \cup new
        /\ \A k \in DOMAIN rows' :
             rows'[k] = IF k \in new THEN Row(CHOOSE c \in Accepted(claim) : RowKey(p, c) = k) ELSE rows[k]
    BY <1>new DEF Stored
  <1>2. ASSUME NEW k \in new
        PROVE  \E c \in Accepted(claim) : RowKey(p, c) = k /\ rows'[k] = Row(c)
    <2>1. \E c \in Accepted(claim) : RowKey(p, c) = k
      BY <1>new
    <2> QED BY <1>1, <2>1
  <1>3. new \subseteq RowKeys
    BY <1>new DEF RowKeys, Accepted
  <1>4. ASSUME NEW k \in DOMAIN rows', k[3] \in Copies
        PROVE  Permitted(k[2], rows'[k].rights, rows'[k].first) /\ rows'[k].free
    <2>1. CASE k \in new
      <3>1. PICK c \in Accepted(claim) : RowKey(p, c) = k /\ rows'[k] = Row(c)
        BY <1>2, <2>1
      <3>2. k[2] = c.provider /\ k[3] = c.type
        BY <3>1 DEF RowKey
      <3>3. rows'[k].rights = c.rights /\ rows'[k].first = c.first /\ rows'[k].free = Granted(c)
        BY <3>1 DEF Row
      <3>4. Allowed(c)
        BY DEF Accepted
      <3>5. Granted(c)
        BY <1>4, <3>2, <3>4 DEF Allowed
      <3> QED BY <1>4, <3>2, <3>3, <3>4, <3>5, AllowedIsPermitted
    <2>2. CASE k \notin new
      <3>1. k \in DOMAIN rows /\ rows'[k] = rows[k]
        BY <1>1, <2>2
      <3> QED BY <1>4, <3>1 DEF LinksInv, CopiesPermitted, CopiesFree
    <2> QED BY <2>1, <2>2
  <1> QED BY <1>1, <1>3, <1>4 DEF LinksInv, LinkTypes, CopiesPermitted, CopiesFree

(* Where no row changes, no answer becomes another.                        *)
LEMMA RowsStand ==
  ASSUME UNCHANGED rows
  PROVE  /\ \A r : ReaderRight(r)' = ReaderRight(r)
         /\ \A k, a : PanelRight(k, a)' = PanelRight(k, a)
  <1>1. \A r : IsCopy(r)' = IsCopy(r)
    BY DEF IsCopy
  <1>2. \A p : Own(p)' = Own(p) /\ OwnLinks(p)' = OwnLinks(p)
    BY DEF Own, OwnLinks
  <1>3. \A p : HasCopy(p)' = HasCopy(p)
    BY <1>1, <1>2 DEF HasCopy
  <1>4. \A p : SiblingCopies(p)' = SiblingCopies(p)
    BY DEF SiblingCopies, HasCopy, IsCopy, Own, Siblings, Oldest, Before
  <1>5. \A p, a : Grounded(p, a)' = Grounded(p, a) /\ AsNow(p, a)' = AsNow(p, a)
    BY <1>1, <1>2, <1>3, <1>4 DEF Grounded, AsNow, Siblings
  <1>6. \A a : GivesCopy(a)' = GivesCopy(a)
    BY <1>1 DEF GivesCopy
  <1>7. \A r : ToFind(r)' = ToFind(r) /\ ReadSoFar(r)' = ReadSoFar(r)
    BY <1>2, <1>3, <1>5, <1>6 DEF ToFind, ReadSoFar, Family, Siblings
  <1> QED BY <1>5, <1>6, <1>7 DEF ReaderRight, PanelRight, Bookstores, GroupOf

LEMMA LinksStand ==
  ASSUME LinksInv, UNCHANGED linkVars PROVE LinksInv'
  <1>1. UNCHANGED rows
    BY DEF linkVars
  <1> QED BY <1>1, RowsStand DEF linkVars, LinksInv, LinkTypes, CopiesPermitted, CopiesFree, OpenCrosses

(* Rows are added and none is taken, and a copy stays a copy.              *)
LEMMA CopiesStay ==
  ASSUME CopiesFree', DOMAIN rows \subseteq DOMAIN rows'
  PROVE  /\ \A r \in DOMAIN rows : IsCopy(r) => IsCopy(r)'
         /\ \A p : HasCopy(p) => HasCopy(p)'
         /\ \A p, a : Grounded(p, a) => Grounded(p, a)'
         /\ \A p, a : Grounded(p, a) /\ GivesCopy(a) => GivesCopy(a)'
  <1>1. \A r \in DOMAIN rows : IsCopy(r) => IsCopy(r)'
    BY DEF CopiesFree, IsCopy
  <1>2. \A p : Own(p) \subseteq DOMAIN rows /\ Own(p) \subseteq Own(p)'
    BY DEF Own
  <1>3. \A p : HasCopy(p) => HasCopy(p)'
    BY <1>1, <1>2 DEF HasCopy
  <1>4. \A p, a : Grounded(p, a) => Grounded(p, a)'
    BY <1>1, <1>2 DEF Grounded, Siblings
  <1>5. \A p, a : Grounded(p, a) /\ GivesCopy(a) => GivesCopy(a)'
    BY <1>1, <1>2 DEF Grounded, GivesCopy
  <1> QED BY <1>1, <1>3, <1>4, <1>5

LEMMA CrossedIs ==
  ASSUME NEW r, IsReader(r)
  PROVE  /\ IsReader([r EXCEPT !.crossed = TRUE])
         /\ [r EXCEPT !.crossed = TRUE].crossed
         /\ ReaderRight(r) => ReaderRight([r EXCEPT !.crossed = TRUE])
  <1>1. PICK pc, key, own, via, had, crossed :
          /\ pc \in {"own", "siblings", "keep"} /\ key \in PanelKeys
          /\ r = [pc |-> pc, key |-> key, own |-> own, via |-> via, had |-> had, crossed |-> crossed]
    BY DEF IsReader
  <1>c. PICK c : c = [r EXCEPT !.crossed = TRUE]
    OBVIOUS
  <1>2. c = [pc |-> pc, key |-> key, own |-> own, via |-> via, had |-> had, crossed |-> c.crossed] /\ c.crossed
    BY <1>1, <1>c
  <1>3. IsReader(c)
    BY <1>1, <1>2 DEF IsReader
  <1>4. /\ c.pc = r.pc /\ c.key = r.key /\ c.own = r.own /\ c.via = r.via
        /\ c.had = r.had /\ c.crossed
    BY <1>1, <1>2
  <1>5. ReaderRight(r) => ReaderRight(c)
    BY <1>4 DEF ReaderRight, Grounded, ToFind, GivesCopy
  <1> QED BY <1>c, <1>3, <1>4, <1>5

LEMMA DeletePanelsKeeps ==
  ASSUME PanelsInv, NEW p \in DOMAIN Printings, NEW claim \in Claims, DeletePanels(p, claim)
  PROVE  PanelsInv'
  <1>1. /\ UNCHANGED <<rows, questions>> /\ panels' = << >> /\ DOMAIN panels' = {}
        /\ linkSync' = [of |-> {p}, claim |-> {claim}] /\ readers' = Crossed
    BY DEF DeletePanels
  <1>2. ASSUME NEW s \in DOMAIN readers'
        PROVE  readers'[s] = NoReader \/ (/\ IsReader(readers'[s]) /\ readers'[s].crossed
                                          /\ ReaderRight(readers'[s]))
    <2>1. s \in DOMAIN readers
      BY <1>1 DEF Crossed
    <2>2. CASE readers[s] = NoReader
      BY <1>1, <2>1, <2>2 DEF Crossed
    <2>3. CASE readers[s] # NoReader
      <3>1. IsReader(readers[s]) /\ ReaderRight(readers[s])
        BY <2>1, <2>3 DEF PanelsInv, LinksInv, LinkTypes
      <3>2. readers'[s] = [readers[s] EXCEPT !.crossed = TRUE]
        BY <1>1, <2>1, <2>3 DEF Crossed
      <3> QED BY <3>1, <3>2, CrossedIs
    <2> QED BY <2>2, <2>3
  <1>3. LinkTypes' /\ OpenCrosses'
    BY <1>1, <1>2 DEF PanelsInv, LinksInv, LinkTypes, OpenCrosses
  <1>4. CopiesPermitted' /\ CopiesFree'
    BY <1>1 DEF PanelsInv, LinksInv, CopiesPermitted, CopiesFree
  <1>5. (\A s \in DOMAIN readers : readers[s] = NoReader \/ ReaderRight(readers[s]))'
    BY <1>1, <1>2, RowsStand
  <1>6. LinksInv'
    BY <1>1, <1>3, <1>4, <1>5 DEF LinksInv
  <1>7. /\ kept' \in [About -> KeptAnswers]
        /\ \A a \in DOMAIN kept' : kept'[a].failed = {}
    BY NotKeptIs DEF DeletePanels, PanelsInv, QuoteTypes
  <1>8. QuoteTypes' /\ QuotesFresh'
    BY <1>1, <1>7 DEF PanelsInv, QuoteTypes, QuotesFresh
  <1> QED BY <1>6, <1>8 DEF PanelsInv

LEMMA QuotesStand ==
  ASSUME PanelsInv, LinksInv', UNCHANGED <<kept, questions>> PROVE PanelsInv'
  BY DEF PanelsInv, QuoteTypes, QuotesFresh

LEMMA CommitSyncKeeps ==
  ASSUME PanelsInv, CommitSync PROVE PanelsInv'
  <1>1. PICK p \in linkSync.of, claim \in linkSync.claim : rows' = Stored(p, claim)
    BY DEF CommitSync
  <1>2. UNCHANGED <<panels, readers, kept, questions>> /\ linkSync' = NoSync
    BY DEF CommitSync
  <1>3. linkSync # NoSync
    BY <1>1 DEF NoSync
  <1>4. p \in DOMAIN Printings /\ claim \in Claims
    BY <1>1, <1>3 DEF PanelsInv, LinksInv, LinkTypes
  <1>5. /\ DOMAIN rows' \subseteq RowKeys /\ CopiesPermitted' /\ CopiesFree'
        /\ DOMAIN rows \subseteq DOMAIN rows'
    BY <1>1, <1>4, StoredIs DEF PanelsInv
  <1>6. LinkTypes' /\ OpenCrosses'
    BY <1>2, <1>5 DEF PanelsInv, LinksInv, LinkTypes, OpenCrosses
  <1>7. ASSUME NEW s \in DOMAIN readers, readers[s] # NoReader
        PROVE  ReaderRight(readers[s])'
    <2>r. PICK r : r = readers[s]
      OBVIOUS
    <2>1. ReaderRight(r) /\ r.crossed
      BY <1>3, <1>7, <2>r DEF PanelsInv, LinksInv, OpenCrosses
    <2>2. Grounded(r.key[1], r)' /\ (r.had => ToFind(r)')
      BY <1>5, <2>1, CopiesStay DEF ReaderRight, ToFind, Family, Siblings
    <2>3. ReaderRight(r)'
      BY <2>1, <2>2 DEF ReaderRight
    <2> QED BY <1>2, <2>r, <2>3
  <1>8. ASSUME NEW k \in DOMAIN panels PROVE PanelRight(k, panels[k])'
    <2>a. PICK a : a = panels[k]
      OBVIOUS
    <2>1. PanelRight(k, a) /\ a.crossed
      BY <1>3, <2>a DEF PanelsInv, LinksInv, OpenCrosses
    <2>2. Grounded(k[1], a)' /\ (a.had => GivesCopy(a)')
      BY <1>5, <2>1, CopiesStay DEF PanelRight
    <2>3. PanelRight(k, a)'
      BY <2>1, <2>2 DEF PanelRight, Bookstores, GroupOf
    <2> QED BY <1>2, <2>a, <2>3
  <1>9. LinksInv'
    BY <1>2, <1>5, <1>6, <1>7, <1>8 DEF LinksInv
  <1> QED BY <1>2, <1>9, QuotesStand

LEMMA RollBackKeeps ==
  ASSUME PanelsInv, RollBack PROVE PanelsInv'
  <1>1. linkSync' = NoSync /\ UNCHANGED <<rows, panels, readers, kept, questions>>
    BY DEF RollBack
  <1>2. LinkTypes' /\ OpenCrosses'
    BY <1>1 DEF PanelsInv, LinksInv, LinkTypes, OpenCrosses
  <1>3. LinksInv'
    BY <1>1, <1>2, RowsStand DEF PanelsInv, LinksInv, CopiesPermitted, CopiesFree
  <1> QED BY <1>1, <1>3, QuotesStand

(* A request takes a step and nothing else changes.                        *)
LEMMA OneReaderKeeps ==
  ASSUME PanelsInv, UNCHANGED <<rows, linkSync, panels, kept, questions>>,
         NEW s \in DOMAIN readers, NEW r, readers' = [readers EXCEPT ![s] = r],
         r = NoReader \/ (IsReader(r) /\ ReaderRight(r) /\ (linkSync # NoSync => r.crossed))
  PROVE  PanelsInv'
  <1>1. \A t \in DOMAIN readers' : t \in DOMAIN readers /\ readers'[t] = IF t = s THEN r ELSE readers[t]
    OBVIOUS
  <1>2. LinkTypes' /\ OpenCrosses'
    BY <1>1 DEF PanelsInv, LinksInv, LinkTypes, OpenCrosses
  <1>3. \A t \in DOMAIN readers' : readers'[t] = NoReader \/ ReaderRight(readers'[t])
    BY <1>1 DEF PanelsInv, LinksInv
  <1>4. LinksInv'
    BY <1>2, <1>3, RowsStand DEF PanelsInv, LinksInv, CopiesPermitted, CopiesFree
  <1> QED BY <1>4, QuotesStand

LEMMA AskLinksKeeps ==
  ASSUME PanelsInv, NEW s \in DOMAIN readers, NEW p \in DOMAIN Printings, NEW country \in Countries,
         AskLinks(s, p, country)
  PROVE  PanelsInv'
  <1>h. PICK had : had = \E q \in Family(p) : HasCopy(q)
    OBVIOUS
  <1>c. PICK crossed : crossed = (linkSync # NoSync)
    OBVIOUS
  <1>r. PICK r : r = [pc |-> "own", key |-> <<p, country>>, own |-> << >>, via |-> {},
                      had |-> had, crossed |-> crossed]
    OBVIOUS
  <1>1. readers' = [readers EXCEPT ![s] = r] /\ UNCHANGED <<rows, linkSync, panels, kept, questions>>
    BY <1>h, <1>c, <1>r DEF AskLinks
  <1>2. IsReader(r)
    BY <1>r DEF IsReader, PanelKeys
  <1>3. /\ r.pc = "own" /\ r.key[1] = p /\ DOMAIN r.own = {} /\ r.via = {}
        /\ r.had = had /\ r.crossed = crossed
    BY <1>r
  <1>4. ReaderRight(r)
    BY <1>3, <1>h DEF ReaderRight, Grounded, ToFind, ReadSoFar
  <1> QED BY <1>1, <1>2, <1>3, <1>4, <1>c, OneReaderKeeps

(* What a request that is under way has.                                   *)
LEMMA ReaderHas ==
  ASSUME PanelsInv, NEW s \in DOMAIN readers, readers[s].pc # "idle"
  PROVE  /\ IsReader(readers[s]) /\ ReaderRight(readers[s])
         /\ linkSync # NoSync => readers[s].crossed
  <1>1. readers[s] # NoReader
    BY DEF NoReader
  <1> QED BY <1>1 DEF PanelsInv, LinksInv, LinkTypes, OpenCrosses

LEMMA ReadOwnKeeps ==
  ASSUME PanelsInv, NEW s \in DOMAIN readers, ReadOwn(s)
  PROVE  PanelsInv'
  <1>1. /\ readers[s].pc = "own" /\ IsReader(readers[s]) /\ ReaderRight(readers[s])
        /\ linkSync # NoSync => readers[s].crossed
    BY ReaderHas DEF ReadOwn
  <1>2. PICK pc, key, own, via, had, crossed :
          /\ pc \in {"own", "siblings", "keep"} /\ key \in PanelKeys
          /\ readers[s] = [pc |-> pc, key |-> key, own |-> own, via |-> via, had |-> had, crossed |-> crossed]
    BY <1>1 DEF IsReader
  <1>p. PICK p : p = key[1]
    OBVIOUS
  <1>n. PICK next \in {"keep", "siblings"} : next = IF HasCopy(p) THEN "keep" ELSE "siblings"
    OBVIOUS
  <1>r. PICK r : r = [pc |-> next, key |-> key, own |-> OwnLinks(p), via |-> via, had |-> had, crossed |-> crossed]
    OBVIOUS
  <1>4. readers' = [readers EXCEPT ![s].pc = next, ![s].own = OwnLinks(p)]
    BY <1>2, <1>p, <1>n DEF ReadOwn
  <1>5. readers' = [readers EXCEPT ![s] = r] /\ UNCHANGED <<rows, linkSync, panels, kept, questions>>
    <2>1. PICK r1 : r1 = [readers[s] EXCEPT !.pc = next]
      OBVIOUS
    <2>2. r1 = [pc |-> next, key |-> key, own |-> own, via |-> via, had |-> had, crossed |-> crossed]
      BY <1>2, <2>1
    <2>3. [r1 EXCEPT !.own = OwnLinks(p)] = r
      BY <1>r, <2>2
    <2> QED BY <1>4, <2>1, <2>3 DEF ReadOwn
  <1>6. IsReader(r)
    BY <1>2, <1>r, <1>n DEF IsReader
  <1>7. /\ r.pc = next /\ r.key[1] = p /\ r.own = OwnLinks(p) /\ r.via = {}
        /\ r.had = had /\ r.crossed = crossed
        /\ readers[s].key[1] = p /\ readers[s].had = had /\ readers[s].crossed = crossed
    BY <1>1, <1>2, <1>p, <1>r DEF ReaderRight
  <1>8. Grounded(p, r)
    BY <1>7 DEF Grounded, OwnLinks
  <1>9. had => ToFind(r)
    <2>1. had => \E q \in Family(p) : HasCopy(q)
      BY <1>1, <1>7 DEF ReaderRight, ToFind
    <2>2. CASE HasCopy(p)
      <3>1. GivesCopy(r)
        BY <1>7, <2>2 DEF GivesCopy, HasCopy, OwnLinks
      <3> QED BY <1>7, <1>n, <2>2, <3>1 DEF ToFind
    <2>3. CASE ~HasCopy(p)
      BY <1>7, <1>n, <2>1, <2>3 DEF ToFind, Family
    <2> QED BY <2>2, <2>3
  <1>10. ReadSoFar(r)
    BY <1>7, <1>n DEF ReadSoFar, AsNow
  <1>11. ReaderRight(r)
    BY <1>7, <1>8, <1>9, <1>10 DEF ReaderRight
  <1> QED BY <1>1, <1>5, <1>6, <1>7, <1>11, OneReaderKeeps

(* A sibling's copies are stored in the language, and are some if one has. *)
LEMMA SiblingCopiesAre ==
  ASSUME NEW p, NEW via \in SiblingCopies(p)
  PROVE  /\ \A r \in via : r \in DOMAIN rows /\ r[1] \in Siblings(p) /\ IsCopy(r)
         /\ (via # {}) <=> \E q \in Siblings(p) : HasCopy(q)
  <1>g. PICK giving : giving = {q \in Siblings(p) : HasCopy(q)}
    OBVIOUS
  <1>1. CASE giving = {}
    BY <1>1, <1>g DEF SiblingCopies
  <1>2. CASE giving # {}
    <2>1. PICK q \in Oldest(giving) : via = {k \in Own(q) : IsCopy(k)}
      BY <1>2, <1>g DEF SiblingCopies
    <2>2. q \in Siblings(p) /\ HasCopy(q)
      BY <1>g DEF Oldest
    <2> QED BY <2>1, <2>2 DEF HasCopy, Own
  <1> QED BY <1>1, <1>2

LEMMA ReadSiblingsKeeps ==
  ASSUME PanelsInv, NEW s \in DOMAIN readers, ReadSiblings(s)
  PROVE  PanelsInv'
  <1>1. /\ readers[s].pc = "siblings" /\ IsReader(readers[s]) /\ ReaderRight(readers[s])
        /\ linkSync # NoSync => readers[s].crossed
    BY ReaderHas DEF ReadSiblings
  <1>2. PICK pc, key, own, old, had, crossed :
          /\ pc \in {"own", "siblings", "keep"} /\ key \in PanelKeys
          /\ readers[s] = [pc |-> pc, key |-> key, own |-> own, via |-> old, had |-> had, crossed |-> crossed]
    BY <1>1 DEF IsReader
  <1>p. PICK p : p = key[1]
    OBVIOUS
  <1>k. readers[s].key[1] = p
    BY <1>2, <1>p
  <1>4. PICK via \in SiblingCopies(p) : readers' = [readers EXCEPT ![s].pc = "keep", ![s].via = via]
    BY <1>k DEF ReadSiblings
  <1>r. PICK r : r = [pc |-> "keep", key |-> key, own |-> own, via |-> via, had |-> had, crossed |-> crossed]
    OBVIOUS
  <1>5. readers' = [readers EXCEPT ![s] = r] /\ UNCHANGED <<rows, linkSync, panels, kept, questions>>
    <2>1. PICK r1 : r1 = [readers[s] EXCEPT !.pc = "keep"]
      OBVIOUS
    <2>2. r1 = [pc |-> "keep", key |-> key, own |-> own, via |-> old, had |-> had, crossed |-> crossed]
      BY <1>2, <2>1
    <2>3. [r1 EXCEPT !.via = via] = r
      BY <1>r, <2>2
    <2> QED BY <1>4, <2>1, <2>3 DEF ReadSiblings
  <1>6. IsReader(r)
    BY <1>2, <1>r DEF IsReader
  <1>7. /\ r.pc = "keep" /\ r.key[1] = p /\ r.own = own /\ r.via = via
        /\ r.had = had /\ r.crossed = crossed /\ readers[s].key[1] = p
        /\ readers[s].own = own /\ readers[s].had = had /\ readers[s].crossed = crossed
    BY <1>2, <1>p, <1>r
  <1>8. Grounded(p, r)
    BY <1>1, <1>7, SiblingCopiesAre DEF ReaderRight, Grounded
  <1>9. had => ToFind(r)
    <2>1. had => \E q \in Siblings(p) : HasCopy(q)
      BY <1>1, <1>7 DEF ReaderRight, ToFind
    <2> QED BY <1>7, <2>1, SiblingCopiesAre DEF ToFind, GivesCopy
  <1>10. ~crossed => ReadSoFar(r)
    BY <1>1, <1>7 DEF ReaderRight, ReadSoFar, AsNow
  <1>11. ReaderRight(r)
    BY <1>7, <1>8, <1>9, <1>10 DEF ReaderRight
  <1> QED BY <1>1, <1>5, <1>6, <1>7, <1>11, OneReaderKeeps

(* A panel comes to Redis or leaves it, and a request ends or goes on.     *)
LEMMA OnePanelKeeps ==
  ASSUME PanelsInv, UNCHANGED <<rows, linkSync, kept, questions>>, DOMAIN readers' \subseteq DOMAIN readers,
         \A s \in DOMAIN readers' : readers'[s] = NoReader \/ readers'[s] = readers[s],
         DOMAIN panels' \subseteq PanelKeys,
         \A k \in DOMAIN panels' :
           \/ k \in DOMAIN panels /\ panels'[k] = panels[k]
           \/ /\ IsAnswer(panels'[k]) /\ PanelRight(k, panels'[k])
              /\ linkSync # NoSync => panels'[k].crossed
  PROVE  PanelsInv'
  <1>1. LinkTypes' /\ OpenCrosses'
    BY DEF PanelsInv, LinksInv, LinkTypes, OpenCrosses
  <1>2. /\ \A s \in DOMAIN readers' : readers'[s] = NoReader \/ ReaderRight(readers'[s])
        /\ \A k \in DOMAIN panels' : PanelRight(k, panels'[k])
    BY DEF PanelsInv, LinksInv
  <1>3. LinksInv'
    BY <1>1, <1>2, RowsStand DEF PanelsInv, LinksInv, CopiesPermitted, CopiesFree
  <1> QED BY <1>3, QuotesStand

LEMMA KeepPanelKeeps ==
  ASSUME PanelsInv, NEW s \in DOMAIN readers, KeepPanel(s)
  PROVE  PanelsInv'
  <1>r. PICK r : r = readers[s]
    OBVIOUS
  <1>1. /\ r.pc = "keep" /\ IsReader(r) /\ ReaderRight(r)
        /\ linkSync # NoSync => r.crossed
    BY <1>r, ReaderHas DEF KeepPanel
  <1>k. PICK key \in PanelKeys : key = r.key
    BY <1>1 DEF IsReader
  <1>b. PICK b : b = [own |-> r.own, via |-> r.via, shops |-> Bookstores(key[1], key[2]),
                      had |-> r.had, crossed |-> r.crossed]
    OBVIOUS
  <1>2. /\ panels' = [k \in DOMAIN panels \cup {key} |-> IF k = key THEN b ELSE panels[k]]
        /\ readers' = [readers EXCEPT ![s] = NoReader] /\ UNCHANGED <<rows, linkSync, kept, questions>>
    BY <1>r, <1>k, <1>b DEF KeepPanel
  <1>3. IsAnswer(b)
    BY <1>b DEF IsAnswer
  <1>4. /\ b.own = r.own /\ b.via = r.via /\ b.had = r.had /\ b.crossed = r.crossed
        /\ b.shops = Bookstores(key[1], key[2])
    BY <1>b
  <1>5. PanelRight(key, b)
    BY <1>1, <1>k, <1>4 DEF ReaderRight, PanelRight, ToFind, ReadSoFar, Grounded, GivesCopy, AsNow
  <1>6. DOMAIN panels' = DOMAIN panels \cup {key} /\ DOMAIN panels \subseteq PanelKeys
    BY <1>2 DEF PanelsInv, LinksInv, LinkTypes
  <1> QED BY <1>1, <1>2, <1>3, <1>4, <1>5, <1>6, OnePanelKeeps

LEMMA LinksKeep ==
  ASSUME PanelsInv, LinksNext PROVE PanelsInv'
  <1>1. ASSUME NEW s \in DOMAIN readers, AskFails(s) PROVE PanelsInv'
    BY <1>1, OneReaderKeeps DEF AskFails
  <1>2. ASSUME NEW k \in DOMAIN panels, PanelExpires(k) PROVE PanelsInv'
    <2>1. UNCHANGED <<rows, linkSync, readers, kept, questions>> /\ panels' = [j \in DOMAIN panels \ {k} |-> panels[j]]
      BY <1>2 DEF PanelExpires
    <2>2. DOMAIN panels' \subseteq PanelKeys /\ \A j \in DOMAIN panels' : j \in DOMAIN panels /\ panels'[j] = panels[j]
      BY <2>1 DEF PanelsInv, LinksInv, LinkTypes
    <2> QED BY <2>1, <2>2, OnePanelKeeps
  <1> QED BY <1>1, <1>2, DeletePanelsKeeps, CommitSyncKeeps, RollBackKeeps, AskLinksKeeps, ReadOwnKeeps,
             ReadSiblingsKeeps, KeepPanelKeeps DEF LinksNext

LEMMA QuestionFrom ==
  ASSUME NEW about \in About \cup {"none"}, NEW failed \in SUBSET Whom, NEW todo, NEW sent,
         about = "prices" => todo \cup sent \subseteq Pricers,
         NEW q, q = [about |-> about, todo |-> todo, asking |-> sent, failed |-> failed]
  PROVE  IsQuestion(q)
  BY DEF IsQuestion

LEMMA NoQuestionIs == IsQuestion(NoQuestion)
  <1>1. {} \in SUBSET Whom /\ "none" \in About \cup {"none"}
    OBVIOUS
  <1> QED BY <1>1, QuestionFrom DEF NoQuestion

(* A question, a look-up or an answer changes one question. *)
LEMMA AskedIs ==
  ASSUME NEW q, IsQuestion(q)
  PROVE  /\ q.about \in About \cup {"none"} /\ q.failed \subseteq Whom
         /\ q.about = "prices" => q.todo \cup q.asking \subseteq Pricers
         /\ \A x \in q.todo : IsQuestion([[q EXCEPT !.todo = @ \ {x}] EXCEPT !.asking = @ \cup {x}])
         /\ \A x, f : f \subseteq Whom => IsQuestion([[q EXCEPT !.asking = @ \ {x}] EXCEPT !.failed = @ \cup f])
  <1>1. PICK about \in About \cup {"none"}, failed \in SUBSET Whom : \E todo, sent :
          /\ q = [about |-> about, todo |-> todo, asking |-> sent, failed |-> failed]
          /\ about = "prices" => todo \cup sent \subseteq Pricers
    BY DEF IsQuestion
  <1>2. PICK todo, sent :
          /\ q = [about |-> about, todo |-> todo, asking |-> sent, failed |-> failed]
          /\ about = "prices" => todo \cup sent \subseteq Pricers
    BY <1>1
  <1>3. ASSUME NEW x \in q.todo
        PROVE  IsQuestion([[q EXCEPT !.todo = @ \ {x}] EXCEPT !.asking = @ \cup {x}])
    <2>1. PICK q1 : q1 = [q EXCEPT !.todo = @ \ {x}]
      OBVIOUS
    <2>2. q1 = [about |-> about, todo |-> todo \ {x}, asking |-> sent, failed |-> failed]
      BY <1>2, <2>1
    <2>3. PICK q2 : q2 = [q1 EXCEPT !.asking = @ \cup {x}]
      OBVIOUS
    <2>4. q2 = [about |-> about, todo |-> todo \ {x}, asking |-> sent \cup {x}, failed |-> failed]
      BY <2>2, <2>3
    <2>5. about = "prices" => (todo \ {x}) \cup (sent \cup {x}) \subseteq Pricers
      BY <1>2, <1>3
    <2>6. IsQuestion(q2)
      BY <2>4, <2>5, QuestionFrom
    <2> QED BY <2>1, <2>3, <2>6
  <1>4. ASSUME NEW x, NEW f \in SUBSET Whom
        PROVE  IsQuestion([[q EXCEPT !.asking = @ \ {x}] EXCEPT !.failed = @ \cup f])
    <2>1. PICK q1 : q1 = [q EXCEPT !.asking = @ \ {x}]
      OBVIOUS
    <2>2. q1 = [about |-> about, todo |-> todo, asking |-> sent \ {x}, failed |-> failed]
      BY <1>2, <2>1
    <2>3. PICK q2 : q2 = [q1 EXCEPT !.failed = @ \cup f]
      OBVIOUS
    <2>4. q2 = [about |-> about, todo |-> todo, asking |-> sent \ {x}, failed |-> failed \cup f]
      BY <2>2, <2>3
    <2>5. failed \cup f \in SUBSET Whom /\ (about = "prices" => todo \cup (sent \ {x}) \subseteq Pricers)
      BY <1>2
    <2>6. IsQuestion(q2)
      BY <2>4, <2>5, QuestionFrom
    <2> QED BY <2>1, <2>3, <2>6
  <1> QED BY <1>2, <1>3, <1>4

LEMMA OneQuestionKeeps ==
  ASSUME PanelsInv, UNCHANGED linkVars, kept' \in [About -> KeptAnswers],
         NEW s \in DOMAIN questions, NEW q, IsQuestion(q), questions' = [questions EXCEPT ![s] = q],
         QuotesFresh'
  PROVE  PanelsInv'
  <1>1. QuoteTypes'
    BY DEF PanelsInv, QuoteTypes
  <1> QED BY <1>1, LinksStand DEF PanelsInv

LEMMA QuestionKeeps ==
  ASSUME PanelsInv, NEW s \in DOMAIN questions, NEW about \in DOMAIN kept, Question(s, about)
  PROVE  PanelsInv'
  <1>q. PICK q : q = [about |-> about, todo |-> Looked(about), failed |-> {},
                      asking |-> IF about = "ratings" THEN {"reviews"} ELSE {}]
    OBVIOUS
  <1>1. about \in About
    BY DEF PanelsInv, QuoteTypes
  <1>2. IsQuestion(q)
    <2>1. about = "prices" => Looked(about) \cup (IF about = "ratings" THEN {"reviews"} ELSE {}) \subseteq Pricers
      BY DEF Looked
    <2> QED BY <1>q, <1>1, <2>1 DEF IsQuestion
  <1>3. questions' = [questions EXCEPT ![s] = q] /\ UNCHANGED <<linkVars, kept>>
    BY <1>q DEF Question
  <1>4. kept' \in [About -> KeptAnswers] /\ QuotesFresh'
    BY <1>3 DEF PanelsInv, QuoteTypes, QuotesFresh
  <1> QED BY <1>2, <1>3, <1>4, OneQuestionKeeps

LEMMA LookUpKeeps ==
  ASSUME PanelsInv, NEW s \in DOMAIN questions, LookUp(s)
  PROVE  PanelsInv'
  <1>1. PICK x \in questions[s].todo :
          questions' = [questions EXCEPT ![s].todo = @ \ {x}, ![s].asking = @ \cup {x}]
    BY DEF LookUp, NextUp
  <1>q. PICK q : q = [[questions[s] EXCEPT !.todo = @ \ {x}] EXCEPT !.asking = @ \cup {x}]
    OBVIOUS
  <1>2. IsQuestion(questions[s])
    BY DEF PanelsInv, QuoteTypes
  <1>3. IsQuestion(q)
    BY <1>q, <1>2, AskedIs
  <1>4. questions' = [questions EXCEPT ![s] = q]
    BY <1>1, <1>q
  <1>5. UNCHANGED <<linkVars, kept>>
    BY DEF LookUp
  <1>6. kept' \in [About -> KeptAnswers] /\ QuotesFresh'
    BY <1>5 DEF PanelsInv, QuoteTypes, QuotesFresh
  <1> QED BY <1>3, <1>4, <1>5, <1>6, OneQuestionKeeps

LEMMA LookedUpKeeps ==
  ASSUME PanelsInv, NEW s \in DOMAIN questions, NEW x \in questions[s].asking,
         NEW failed \in SUBSET Sources(questions[s].about, x), LookedUp(s, x, failed)
  PROVE  PanelsInv'
  <1>q. PICK q : q = [[questions[s] EXCEPT !.asking = @ \ {x}] EXCEPT !.failed = @ \cup failed]
    OBVIOUS
  <1>2. IsQuestion(questions[s])
    BY DEF PanelsInv, QuoteTypes
  <1>f. failed \subseteq Whom
    <2>1. x \in Pricers \/ questions[s].about # "prices"
      BY <1>2, AskedIs
    <2> QED BY <2>1 DEF Sources, Whom
  <1>3. IsQuestion(q)
    BY <1>q, <1>2, <1>f, AskedIs
  <1>4. questions' = [questions EXCEPT ![s] = q] /\ UNCHANGED <<linkVars, kept>>
    BY <1>q DEF LookedUp
  <1>5. kept' \in [About -> KeptAnswers] /\ QuotesFresh'
    BY <1>4 DEF PanelsInv, QuoteTypes, QuotesFresh
  <1> QED BY <1>3, <1>4, <1>5, OneQuestionKeeps

LEMMA KeepAnswerKeeps ==
  ASSUME PanelsInv, NEW s \in DOMAIN questions, KeepAnswer(s)
  PROVE  PanelsInv'
  <1>f. PICK r : r = [failed |-> questions[s].failed, age |-> 0]
    OBVIOUS
  <1>1. IsQuestion(questions[s])
    BY DEF PanelsInv, QuoteTypes
  <1>2. questions[s].about \in About /\ r \in KeptAnswers /\ r.age = 0
    <2>1. questions[s].about \in About /\ questions[s].failed \in SUBSET Whom
      BY <1>1, AskedIs DEF KeepAnswer
    <2>2. 0 \in 0..LongLife
      BY PanelBounds
    <2> QED BY <1>f, <2>1, <2>2 DEF KeptAnswers
  <1>3. IsQuestion(NoQuestion)
    BY NoQuestionIs
  <1>4. /\ questions' = [questions EXCEPT ![s] = NoQuestion] /\ UNCHANGED linkVars
        /\ kept' = [kept EXCEPT ![questions[s].about] = r]
    BY <1>f DEF KeepAnswer
  <1>5. kept' \in [About -> KeptAnswers] /\ QuotesFresh'
    BY <1>2, <1>4, PanelBounds DEF PanelsInv, QuoteTypes, QuotesFresh
  <1> QED BY <1>3, <1>4, <1>5, OneQuestionKeeps

LEMMA TickKeeps ==
  ASSUME PanelsInv, Tick
  PROVE  PanelsInv'
  <1>1. UNCHANGED <<linkVars, questions>>
    BY DEF Tick
  <1>2. DOMAIN kept = About /\ kept' = [a \in About |-> IF kept[a] = NotKept THEN NotKept ELSE Aged(kept[a])]
    BY DEF Tick, PanelsInv, QuoteTypes
  <1>3. ASSUME NEW k \in KeptAnswers
        PROVE  Aged(k) \in KeptAnswers /\ (Aged(k).age >= ShortLife => Aged(k).failed = {})
    <2>1. CASE k.age + 1 >= Life(k)
      BY <2>1, NotKeptIs DEF Aged
    <2>2. CASE ~(k.age + 1 >= Life(k))
      <3>1. Life(k) \in Nat /\ Life(k) <= LongLife /\ (k.failed # {} => Life(k) = ShortLife)
        BY PanelBounds DEF Life
      <3>2. PICK n : n = [k EXCEPT !.age = @ + 1]
        OBVIOUS
      <3>3. k.age \in Nat /\ k.age + 1 < Life(k)
        BY <2>2, <3>1 DEF KeptAnswers
      <3>4. n \in KeptAnswers /\ n.age = k.age + 1 /\ n.failed = k.failed
        BY <3>1, <3>2, <3>3, PanelBounds DEF KeptAnswers
      <3>5. Aged(k) = n
        BY <2>2, <3>2 DEF Aged
      <3>6. n.age >= ShortLife => n.failed = {}
        BY <3>1, <3>3, <3>4, PanelBounds
      <3> QED BY <3>4, <3>5, <3>6
    <2> QED BY <2>1, <2>2
  <1>4. kept' \in [About -> KeptAnswers] /\ QuotesFresh'
    BY <1>2, <1>3, NotKeptIs DEF PanelsInv, QuoteTypes, QuotesFresh
  <1>5. QuoteTypes'
    BY <1>1, <1>4 DEF PanelsInv, QuoteTypes
  <1> QED BY <1>1, <1>4, <1>5, LinksStand DEF PanelsInv

(* A panel offers a copy exactly when a printing in the language has one.  *)
LEMMA CopyOffered ==
  ASSUME NEW p \in DOMAIN Printings, NEW a, AsNow(p, a)
  PROVE  GivesCopy(a) <=> \E q \in Family(p) : HasCopy(q)
  <1>1. a.own = OwnLinks(p) /\ DOMAIN a.own = Own(p)
    BY DEF AsNow, OwnLinks
  <1>2. (\E r \in DOMAIN a.own : IsCopy(r)) <=> HasCopy(p)
    BY <1>1 DEF HasCopy
  <1>3. ~HasCopy(p) => (a.via # {} <=> \E q \in Siblings(p) : HasCopy(q))
    BY SiblingCopiesAre DEF AsNow
  <1> QED BY <1>2, <1>3 DEF GivesCopy, Family

LEMMA PanelsStart ==
  ASSUME PanelsInit PROVE PanelsInv
  <1>1. kept \in [About -> KeptAnswers] /\ \A a \in DOMAIN kept : kept[a].failed = {}
    BY NotKeptIs DEF PanelsInit, About
  <1>2. IsQuestion(NoQuestion)
    BY NoQuestionIs
  <1>3. QuoteTypes /\ QuotesFresh
    BY <1>1, <1>2 DEF PanelsInit, QuoteTypes, QuotesFresh
  <1>4. /\ DOMAIN rows = {} /\ DOMAIN panels = {} /\ linkSync = NoSync
        /\ \A s \in DOMAIN readers : readers[s] = NoReader
    BY DEF PanelsInit
  <1>5. LinksInv
    BY <1>4 DEF LinksInv, LinkTypes, CopiesPermitted, CopiesFree, OpenCrosses
  <1> QED BY <1>3, <1>5 DEF PanelsInv

LEMMA PanelsKeep ==
  ASSUME PanelsInv, [LinksNext \/ QuotesNext]_panelVars PROVE PanelsInv'
  <1>1. ASSUME LinksNext PROVE PanelsInv'
    BY <1>1, LinksKeep
  <1>2. ASSUME QuotesNext PROVE PanelsInv'
    BY <1>2, QuestionKeeps, LookUpKeeps, LookedUpKeeps, KeepAnswerKeeps, TickKeeps DEF QuotesNext
  <1>3. ASSUME UNCHANGED panelVars PROVE PanelsInv'
    <2>1. UNCHANGED linkVars /\ UNCHANGED <<kept, questions>>
      BY <1>3 DEF panelVars, linkVars
    <2> QED BY <2>1, LinksStand, QuotesStand DEF PanelsInv
  <1> QED BY <1>1, <1>2, <1>3

(* Panels and the requests for them are grounded in what is stored, as of  *)
(* now unless they crossed a sync's gap; what is stored of a copy is       *)
(* permitted, and half an answer is young.                                 *)
THEOREM PanelsInvariant == PanelsSpec => []PanelsInv
  BY PanelsStart, PanelsKeep, PTL DEF PanelsSpec

(* However the reads of a links panel fall among syncs' deletions and      *)
(* commits: what it offers is stored, in the language and permitted, a     *)
(* copy there was when it was asked for is offered, and a panel kept       *)
(* outside of any sync's gap answers what would be answered now.  A price  *)
(* or rating somebody failed to give is not answered beyond its short life *)
(* (GetEditionLinks, SyncWorkFromSource, LinkPolicy, AggregateEditionPrices, *)
(* AggregateTranslationRatings).                                           *)
THEOREM PanelsAnswerHonestly == PanelsSpec => []AnswersAreHonest
  <1>1. ASSUME PanelsInv PROVE AnswersAreHonest
    <2>1. ASSUME NEW k \in DOMAIN panels
          PROVE  /\ PanelRight(k, panels[k])
                 /\ ~panels[k].crossed => (GivesCopy(panels[k]) <=> \E q \in Family(k[1]) : HasCopy(q))
      <3>1. k[1] \in DOMAIN Printings /\ PanelRight(k, panels[k])
        BY <1>1 DEF PanelsInv, LinksInv, LinkTypes, PanelKeys
      <3> QED BY <3>1, CopyOffered DEF PanelRight
    <2>2. PanelsTrue
      BY <2>1 DEF PanelsTrue, PanelRight, Grounded
    <2>3. CopiesAllowed
      BY <1>1 DEF PanelsInv, LinksInv, CopiesPermitted, Permitted, CopiesAllowed
    <2> QED BY <1>1, <2>2, <2>3 DEF PanelsInv, AnswersAreHonest
  <1> QED BY <1>1, PanelsInvariant, PTL

LEMMA PanelsInvTypes ==
  ASSUME PanelsInv PROVE PanelsTypeOK
  <1>1. \A s \in DOMAIN questions : questions[s].about \in About \cup {"none"}
    BY AskedIs DEF PanelsInv, QuoteTypes
  <1>2. /\ \A a \in DOMAIN kept : kept[a].failed \subseteq Whom /\ kept[a].age \in 0..LongLife
        /\ DOMAIN kept = About
    BY DEF PanelsInv, QuoteTypes, KeptAnswers
  <1>3. linkSync.of \subseteq DOMAIN Printings /\ linkSync.claim \subseteq Claims
    BY DEF PanelsInv, LinksInv, LinkTypes, NoSync
  <1>4. ASSUME NEW s \in DOMAIN readers, readers[s] # NoReader
        PROVE  readers[s].pc \in {"own", "siblings", "keep"} /\ readers[s].key \in PanelKeys
    BY <1>4 DEF PanelsInv, LinksInv, LinkTypes, IsReader
  <1>5. DOMAIN rows \subseteq RowKeys /\ DOMAIN panels \subseteq PanelKeys
    BY DEF PanelsInv, LinksInv, LinkTypes
  <1> QED BY <1>1, <1>2, <1>3, <1>4, <1>5 DEF PanelsTypeOK, Whom, PanelKeys

(* The keys and answers kept are of the work's printings, and a question   *)
(* is about prices or ratings.                                             *)
THEOREM PanelsTypeCorrect == PanelsSpec => []PanelsTypeOK
  BY PanelsInvTypes, PanelsInvariant, PTL

-----------------------------------------------------------------------------
(* The onboarding tour: its walks from page to page.                       *)

Steps == DOMAIN TOUR_STEPS
Progresses == {Unseen, Finished} \cup {[status |-> "running", step |-> s] : s \in Steps}
Tours == [active : BOOLEAN, current : Steps \cup {0}, up : SUBSET Steps, coming : SUBSET Steps, late : SUBSET Steps]
Visits == [pc : {"away", "importing", "ready"}, route : Routes \cup {Anywhere}, rendered : BOOLEAN, start : BOOLEAN]
TourTypes ==
  /\ tourKept \in Progresses /\ refuses \in BOOLEAN /\ tour \in Tours /\ visit \in Visits
  /\ waitingForRoute \in BOOLEAN /\ pendingResume \in Steps \cup {0}
  /\ tourTold \in [of : SUBSET {"finished", "skipped", "restarted"}, saved : BOOLEAN] /\ overtaken \in BOOLEAN

(* A walk has a step, and a built page; without one nothing is shown, and  *)
(* what is still to come was overtaken.                                    *)
WalkOn ==
  IF tour.active THEN tour.current \in Steps /\ visit.pc = "ready"
  ELSE visit.pc # "ready" \/ ~overtaken => tour.up = {} /\ tour.coming = {}
(* A step held for its page is all there is of the walk. *)
StepHeld ==
  pendingResume # 0 =>
    /\ tour.active /\ tour.up = {} /\ tour.coming = {}
    /\ Elsewhere(pendingResume, visit.route)
(* What is to come unless the walk moved on is the step it is at. *)
ComesWhatIs == ~overtaken => tour.coming \subseteq {tour.current}
(* A walk that is over is not begun by the page that is loading. *)
OverIsOver ==
  /\ tourTold.saved => ~refuses
  /\ tourTold.of \in {{"finished"}, {"skipped"}} /\ tourTold.saved /\ visit.pc = "importing" => ~visit.start
TourInv == TourTypes /\ WalkOn /\ StepHeld /\ ComesWhatIs /\ OverIsOver /\ TourHolds

LEMMA StepsAre ==
  /\ 1 \in Steps /\ ~TOUR_STEPS[1].target /\ Steps = 1..Len(TOUR_STEPS) /\ Len(TOUR_STEPS) \in Nat
  /\ \A s \in Steps : ~TOUR_STEPS[s].target => TOUR_STEPS[s].path = Anywhere
  BY TourAssumption DEF Steps

LEMMA RenderedHere ==
  ASSUME NEW s \in Steps, NEW v \in Visits, Rendered(s, v)
  PROVE  ~Elsewhere(s, v.route)
  BY StepsAre DEF Rendered, Elsewhere

LEMMA HiddenIs ==
  ASSUME NEW w \in Tours
  PROVE  LET h == Hidden(w)
         IN /\ h \in Tours /\ h.active = w.active /\ h.current = w.current /\ h.coming = w.coming
            /\ h.up = w.up \ {w.current} /\ h.late = w.late \ {w.current}
  BY DEF Hidden, Tours

LEMMA RaisedIs ==
  ASSUME NEW w \in Tours, NEW s \in Steps, NEW v
  PROVE  LET r == Raised(w, s, v)
         IN /\ r \in Tours /\ r.active = w.active /\ r.current = w.current
            /\ Rendered(s, v) => r.up = w.up \cup {s} /\ r.late = w.late \ {s} /\ r.coming = w.coming
            /\ ~Rendered(s, v) => r.up = w.up /\ r.late = w.late /\ r.coming = w.coming \cup {s}
  BY DEF Raised, Tours

LEMMA ShowingIs ==
  ASSUME NEW w \in Tours, NEW s \in Steps, NEW v, NEW r, r = Showing(w, s, v)
  PROVE  /\ r \in Tours /\ r.active /\ r.current = s
         /\ Rendered(s, v) => r.up = (w.up \ {w.current}) \cup {s} /\ r.coming = w.coming
         /\ ~Rendered(s, v) => r.up = w.up \ {w.current} /\ r.coming = w.coming \cup {s}
  <1>1. PICK h : h = Hidden(w)
    OBVIOUS
  <1>2. PICK g : g = [h EXCEPT !.active = TRUE, !.current = s]
    OBVIOUS
  <1>3. h \in Tours /\ h.up = w.up \ {w.current} /\ h.coming = w.coming
    BY <1>1, HiddenIs
  <1>4. g \in Tours /\ g.active /\ g.current = s /\ g.up = h.up /\ g.coming = h.coming
    BY <1>2, <1>3 DEF Tours
  <1>5. r = Raised(g, s, v)
    BY <1>1, <1>2 DEF Showing
  <1> QED BY <1>3, <1>4, <1>5, RaisedIs

LEMMA NoTourIs ==
  ASSUME NEW coming \in SUBSET Steps
  PROVE  LET w == [NoTour EXCEPT !.coming = coming]
         IN w \in Tours /\ ~w.active /\ w.up = {} /\ w.late = {} /\ w.coming = coming /\ w.current = 0
  BY DEF NoTour, Tours

Said == tourTold.of \in {{"finished"}, {"skipped"}} /\ tourTold.saved

(* A step that is shown alone is where the reader is. *)
LEMMA IsShown ==
  ASSUME TourTypes', NEW w \in Tours, NEW s \in Steps, tour' = Showing(w, s, visit'),
         visit'.pc = "ready", pendingResume' = 0,
         ~overtaken' => w.coming = {} /\ w.up \subseteq {w.current},
         ~refuses' => tourKept' = [status |-> "running", step |-> s],
         tourTold'.saved => ~refuses', ~Said'
  PROVE  TourInv'
  <1>1. tour'.active /\ tour'.current = s
    BY ShowingIs
  <1>2. /\ Rendered(s, visit') => tour'.up = (w.up \ {w.current}) \cup {s} /\ tour'.coming = w.coming
        /\ ~Rendered(s, visit') => tour'.up = w.up \ {w.current} /\ tour'.coming = w.coming \cup {s}
    BY ShowingIs
  <1>3. Rendered(s, visit') => ~Elsewhere(s, visit'.route)
    BY RenderedHere DEF TourTypes
  <1>4. WalkOn' /\ StepHeld' /\ ComesWhatIs' /\ OverIsOver'
    BY <1>1, <1>2 DEF WalkOn, StepHeld, ComesWhatIs, OverIsOver, Said
  <1>5. PlaceRemembered'
    BY <1>1 DEF PlaceRemembered, Said
  <1>6. NeverLost'
    BY <1>1, <1>2 DEF NeverLost
  <1>7. OnItsPage'
    BY <1>1, <1>2, <1>3 DEF OnItsPage
  <1> QED BY <1>4, <1>5, <1>6, <1>7 DEF TourInv, TourHolds

LEMMA RememberIs ==
  ASSUME TourTypes, NEW s \in Steps, NEW pending, NEW entry \in Progresses
  PROVE  /\ Remember(s, pending, entry) \in Progresses
         /\ pending = 0 /\ ~refuses => Remember(s, pending, entry) = [status |-> "running", step |-> s]
         /\ pending # 0 => Remember(s, pending, entry) = entry
         /\ WriteProgress(Unseen, entry) \in Progresses /\ WriteProgress(Finished, entry) \in Progresses
         /\ ~refuses => WriteProgress(Finished, entry) = Finished
  BY DEF Remember, WriteProgress, Progresses

LEMMA StepShownKeeps ==
  ASSUME TourInv, NEW s \in Steps, s \in tour.up, tour.active, NEW t \in Steps, ShowStep(t),
         UNCHANGED <<refuses, visit, pendingResume, tourTold>>
  PROVE  TourInv'
  <1>1. pendingResume = 0 /\ ~Said /\ visit.pc = "ready"
    BY DEF TourInv, StepHeld, TourHolds, PlaceRemembered, Said, WalkOn
  <1>2. tour \in Tours /\ tourKept \in Progresses
    BY DEF TourInv, TourTypes
  <1>3. tour' = Showing(tour, t, visit') /\ tour' \in Tours
    BY <1>2, ShowingIs DEF ShowStep
  <1>4. tourKept' \in Progresses /\ (~refuses => tourKept' = [status |-> "running", step |-> t])
    BY <1>1, <1>2, RememberIs DEF ShowStep, TourInv
  <1>5. TourTypes'
    BY <1>3, <1>4 DEF TourInv, TourTypes, ShowStep
  <1>6. ~overtaken' => tour.coming = {} /\ tour.up \subseteq {tour.current}
    BY <1>1 DEF ShowStep, TourInv, TourTypes, TourHolds, OnItsPage
  <1> QED BY <1>1, <1>2, <1>3, <1>4, <1>5, <1>6, IsShown DEF TourInv, OverIsOver, Said

LEMMA EndKeeps ==
  ASSUME TourInv, tour.active, NEW s \in tour.up, NEW completed \in BOOLEAN, EndTour(completed),
         UNCHANGED <<refuses, visit, pendingResume>>
  PROVE  TourInv'
  <1>1. pendingResume = 0 /\ visit.pc = "ready"
    BY DEF TourInv, StepHeld, WalkOn
  <1>2. tour \in Tours /\ tourKept \in Progresses /\ tour.coming \in SUBSET Steps
    BY DEF TourInv, TourTypes, Tours
  <1>3. /\ tour' \in Tours /\ tour'.active = FALSE /\ tour'.up = {} /\ tour'.coming = tour.coming
        /\ tour'.late = {}
    BY <1>2, NoTourIs DEF EndTour
  <1>4. tourKept' \in Progresses /\ (~refuses => tourKept' = Finished)
    BY <1>2, RememberIs, StepsAre DEF EndTour, TourInv
  <1>5. tourTold' \in [of : SUBSET {"finished", "skipped", "restarted"}, saved : BOOLEAN] /\ tourTold'.saved = ~refuses
    BY DEF EndTour, TourInv, TourTypes
  <1>6. TourTypes'
    BY <1>3, <1>4, <1>5 DEF TourInv, TourTypes, EndTour
  <1>7. ~overtaken' => tour'.coming = {}
    BY <1>3 DEF EndTour, TourInv, TourTypes
  <1> QED BY <1>1, <1>3, <1>4, <1>5, <1>6, <1>7
          DEF TourInv, WalkOn, StepHeld, ComesWhatIs, OverIsOver, TourHolds, PlaceRemembered, NeverLost, OnItsPage

LEMMA PageLoads ==
  ASSUME TourInv, NEW route \in Routes, LoadPage(route)
  PROVE  TourInv'
  <1>1. NoTour \in Tours /\ NoTour.active = FALSE /\ NoTour.up = {} /\ NoTour.coming = {}
    BY DEF NoTour, Tours
  <1>2. /\ visit' \in Visits /\ visit'.pc = "importing"
        /\ visit'.start => refuses \/ tourKept.status # "finished"
    BY DEF LoadPage, Visits, TourInv, TourTypes
  <1>3. TourTypes'
    BY <1>1, <1>2 DEF LoadPage, TourInv, TourTypes
  <1>4. OverIsOver'
    BY <1>2 DEF LoadPage, TourInv, OverIsOver, TourHolds, PlaceRemembered, Finished
  <1> QED BY <1>1, <1>2, <1>3, <1>4
          DEF LoadPage, TourInv, WalkOn, StepHeld, ComesWhatIs, TourHolds, PlaceRemembered, NeverLost, OnItsPage

LEMMA WalkBuilt ==
  ASSUME TourInv, BuildTour
  PROVE  TourInv'
  <1> DEFINE resumed == IF refuses THEN 0 ELSE tourKept.step
             parked == resumed # 0 /\ Elsewhere(resumed, visit.route)
             first == Starting(tour, visit)
             entry == Remember(1, pendingResume', tourKept)
  <1>1. /\ visit.pc = "importing" /\ visit' \in Visits /\ visit'.pc = "ready" /\ visit'.route = visit.route
        /\ visit'.rendered = visit.rendered /\ visit'.start = visit.start
        /\ UNCHANGED <<refuses, tourTold, overtaken>>
    BY DEF BuildTour, TourInv, TourTypes, Visits
  <1>2. /\ tour \in Tours /\ tour.active = FALSE /\ tour.up = {} /\ tour.coming = {} /\ pendingResume = 0
        /\ tourKept \in Progresses
    BY <1>1 DEF TourInv, TourTypes, WalkOn, StepHeld, Tours
  <1>3. CASE ~visit.start
    <2>1. UNCHANGED <<stepVars, pendingResume>>
      BY <1>3 DEF BuildTour
    <2> QED BY <1>1, <1>2, <2>1
            DEF TourInv, TourTypes, stepVars, WalkOn, StepHeld, ComesWhatIs, OverIsOver, TourHolds, PlaceRemembered,
                NeverLost, OnItsPage
  <1>4. CASE visit.start
    <2>1. ~Said
      BY <1>1, <1>4 DEF TourInv, OverIsOver, Said
    <2>2. /\ waitingForRoute' = FALSE /\ pendingResume' = (IF parked THEN resumed ELSE 0)
          /\ IF resumed # 0 /\ ~parked
             THEN tour' = Showing(first, resumed, visit) /\ tourKept' = Remember(resumed, 0, entry)
             ELSE tour' = (IF parked THEN Hidden(first) ELSE first) /\ tourKept' = entry
      BY <1>4 DEF BuildTour
    <2>3. resumed \in Steps \cup {0} /\ (resumed # 0 => ~refuses /\ tourKept = [status |-> "running", step |-> resumed])
      BY <1>2, StepsAre DEF Progresses, Unseen, Finished
    <2>4. PICK fresh : fresh = [tour EXCEPT !.current = 0]
      OBVIOUS
    <2>5. fresh \in Tours /\ fresh.up = {} /\ fresh.coming = {}
      BY <1>2, <2>4 DEF Tours
    <2>6. first = Showing(fresh, 1, visit)
      BY <2>4 DEF Starting
    <2>7. Rendered(1, visit)
      BY StepsAre DEF Rendered
    <2>8. first \in Tours /\ first.active /\ first.current = 1 /\ first.up = {1} /\ first.coming = {}
      <3>1. 1 \in Steps
        BY StepsAre
      <3> QED BY <2>5, <2>6, <2>7, <3>1, ShowingIs
    <2>9. entry \in Progresses
      BY <1>2, RememberIs, StepsAre DEF TourInv
    <2>10. \A w, s : Showing(w, s, visit) = Showing(w, s, visit')
      BY <1>1 DEF Showing, Raised, Rendered
    <2>11. CASE resumed # 0 /\ ~parked
      <3>1. resumed \in Steps /\ pendingResume' = 0 /\ tour' = Showing(first, resumed, visit') /\ ~refuses
            /\ tourKept' = Remember(resumed, 0, entry)
        BY <2>2, <2>3, <2>10, <2>11
      <3>2. tourKept' \in Progresses /\ tourKept' = [status |-> "running", step |-> resumed]
        BY <2>9, <3>1, RememberIs DEF TourInv
      <3>3. tour' \in Tours
        BY <2>8, <3>1, ShowingIs
      <3>4. TourTypes'
        BY <1>1, <2>2, <3>1, <3>2, <3>3 DEF TourInv, TourTypes
      <3>5. tourTold'.saved => ~refuses'
        BY <1>1 DEF TourInv, OverIsOver
      <3>6. ~Said'
        BY <1>1, <2>1 DEF Said
      <3> QED BY <1>1, <2>8, <3>1, <3>2, <3>4, <3>5, <3>6, IsShown
    <2>12. CASE resumed = 0
      <3>1. ~parked /\ pendingResume' = 0 /\ tour' = Showing(fresh, 1, visit') /\ tourKept' = Remember(1, 0, tourKept)
        BY <2>2, <2>6, <2>10, <2>12
      <3>2. tourKept' \in Progresses /\ (~refuses => tourKept' = [status |-> "running", step |-> 1])
        BY <1>2, <3>1, RememberIs, StepsAre DEF TourInv
      <3>3. tour' \in Tours
        BY <2>5, <3>1, ShowingIs, StepsAre
      <3>4. TourTypes'
        BY <1>1, <2>2, <3>1, <3>2, <3>3 DEF TourInv, TourTypes
      <3>5. tourTold'.saved => ~refuses'
        BY <1>1 DEF TourInv, OverIsOver
      <3>6. ~Said'
        BY <1>1, <2>1 DEF Said
      <3> QED BY <1>1, <2>5, <3>1, <3>2, <3>4, <3>5, <3>6, IsShown, StepsAre
    <2>13. CASE parked
      <3>1. /\ pendingResume' = resumed /\ resumed \in Steps /\ tour' = Hidden(first) /\ tourKept' = entry
            /\ Elsewhere(resumed, visit'.route)
        BY <1>1, <2>2, <2>3, <2>13
      <3>2. tourKept' = tourKept /\ pendingResume' # 0
        BY <1>2, <2>13, <3>1, RememberIs, StepsAre DEF TourInv
      <3>3. tour' \in Tours /\ tour'.active /\ tour'.current = 1 /\ tour'.up = {} /\ tour'.coming = {}
        BY <2>8, <3>1, HiddenIs
      <3>4. TourTypes'
        BY <1>1, <2>2, <3>1, <3>2, <3>3 DEF TourInv, TourTypes
      <3>5. tourTold'.saved => ~refuses'
        BY <1>1 DEF TourInv, OverIsOver
      <3>6. ~Said'
        BY <1>1, <2>1 DEF Said
      <3>7. PlaceRemembered'
        BY <2>3, <3>1, <3>2, <3>6 DEF PlaceRemembered, Said
      <3> QED BY <1>1, <3>1, <3>2, <3>3, <3>4, <3>5, <3>6, <3>7, StepsAre
              DEF TourInv, WalkOn, StepHeld, ComesWhatIs, OverIsOver, TourHolds, NeverLost, OnItsPage
    <2> QED BY <2>11, <2>12, <2>13
  <1> QED BY <1>3, <1>4

LEMMA PageChanges ==
  ASSUME TourInv, NEW route \in Routes, GoTo(route)
  PROVE  TourInv'
  <1>1. /\ visit' \in Visits /\ visit'.pc = visit.pc /\ visit'.route = route /\ visit'.start = visit.start
        /\ UNCHANGED <<refuses, tourTold, overtaken>>
    BY DEF GoTo, TourInv, TourTypes, Visits
  <1>2. tour \in Tours /\ tourKept \in Progresses
    BY DEF TourInv, TourTypes
  <1>3. CASE ~tour.active
    <2>1. UNCHANGED <<stepVars, pendingResume>>
      BY <1>3 DEF GoTo
    <2> QED BY <1>1, <1>3, <2>1
            DEF TourInv, TourTypes, stepVars, WalkOn, StepHeld, ComesWhatIs, OverIsOver, TourHolds, PlaceRemembered,
                NeverLost, OnItsPage
  <1>4. CASE tour.active /\ pendingResume # 0 /\ Elsewhere(pendingResume, route)
    <2>1. UNCHANGED <<stepVars, pendingResume>>
      BY <1>4 DEF GoTo
    <2> QED BY <1>1, <1>4, <2>1
            DEF TourInv, TourTypes, stepVars, WalkOn, StepHeld, ComesWhatIs, OverIsOver, TourHolds, PlaceRemembered,
                NeverLost, OnItsPage
  <1>5. CASE tour.active /\ pendingResume # 0 /\ ~Elsewhere(pendingResume, route)
    <2>1. /\ pendingResume' = 0 /\ tour' = Showing(tour, pendingResume, visit') /\ waitingForRoute' = FALSE
          /\ tourKept' = Remember(pendingResume, 0, tourKept)
      BY <1>5 DEF GoTo
    <2>2. pendingResume \in Steps /\ visit.pc = "ready" /\ tour.up = {} /\ tour.coming = {}
      BY <1>5 DEF TourInv, TourTypes, WalkOn, StepHeld
    <2>3. tourKept' \in Progresses /\ (~refuses => tourKept' = [status |-> "running", step |-> pendingResume])
      BY <1>2, <2>1, <2>2, RememberIs DEF TourInv
    <2>4. tour' \in Tours
      BY <1>2, <2>1, <2>2, ShowingIs
    <2>5. TourTypes'
      BY <1>1, <2>1, <2>3, <2>4 DEF TourInv, TourTypes
    <2>6. ~Said' /\ (tourTold'.saved => ~refuses')
      BY <1>1, <1>5 DEF TourInv, OverIsOver, TourHolds, PlaceRemembered, Said
    <2> QED BY <1>1, <1>2, <2>1, <2>2, <2>3, <2>5, <2>6, IsShown
  <1>6. CASE tour.active /\ pendingResume = 0
    <2>1. /\ UNCHANGED <<pendingResume, tourKept>> /\ tour.current \in Steps /\ visit.pc = "ready"
          /\ IF Elsewhere(tour.current, route) THEN waitingForRoute' = TRUE /\ tour' = Hidden(tour)
             ELSE /\ waitingForRoute' = FALSE
                  /\ tour' = IF waitingForRoute THEN Raised(tour, tour.current, visit') ELSE tour
      BY <1>6 DEF GoTo, TourInv, WalkOn
    <2>2. ~Said' /\ (tourTold'.saved => ~refuses')
      BY <1>1, <1>6 DEF TourInv, OverIsOver, TourHolds, PlaceRemembered, Said
    <2>3. tour' \in Tours /\ tour'.active = tour.active /\ tour'.current = tour.current
      BY <1>2, <2>1, HiddenIs, RaisedIs
    <2>4. TourTypes'
      BY <1>1, <2>1, <2>3 DEF TourInv, TourTypes
    <2>5. PlaceRemembered'
      BY <1>1, <1>6, <2>1, <2>2, <2>3 DEF TourInv, TourHolds, PlaceRemembered, Said
    <2>6. WalkOn' /\ StepHeld' /\ OverIsOver'
      BY <1>1, <1>6, <2>1, <2>2, <2>3 DEF WalkOn, StepHeld, OverIsOver, Said
    <2>7. CASE Elsewhere(tour.current, route)
      <3>1. waitingForRoute' = TRUE /\ tour'.up = tour.up \ {tour.current} /\ tour'.coming = tour.coming
        BY <1>2, <2>1, <2>7, HiddenIs
      <3>2. NeverLost'
        BY <1>1, <2>3, <2>7, <3>1 DEF NeverLost
      <3>3. ComesWhatIs' /\ OnItsPage'
        BY <1>1, <1>6, <2>1, <2>3, <3>1 DEF TourInv, ComesWhatIs, TourHolds, OnItsPage
      <3> QED BY <2>4, <2>5, <2>6, <3>2, <3>3 DEF TourInv, TourHolds
    <2>8. CASE ~Elsewhere(tour.current, route) /\ ~waitingForRoute
      <3>1. tour' = tour
        BY <2>1, <2>8
      <3>2. NeverLost'
        BY <1>6, <2>8, <3>1 DEF TourInv, TourHolds, NeverLost
      <3>3. ComesWhatIs' /\ OnItsPage'
        BY <1>1, <1>6, <2>1, <2>8, <3>1 DEF TourInv, ComesWhatIs, TourHolds, OnItsPage
      <3> QED BY <2>4, <2>5, <2>6, <3>2, <3>3 DEF TourInv, TourHolds
    <2>9. CASE ~Elsewhere(tour.current, route) /\ waitingForRoute
      <3>1. tour' = Raised(tour, tour.current, visit')
        BY <2>1, <2>9
      <3>2. /\ Rendered(tour.current, visit') => tour'.up = tour.up \cup {tour.current} /\ tour'.coming = tour.coming
            /\ ~Rendered(tour.current, visit') => tour'.up = tour.up /\ tour'.coming = tour.coming \cup {tour.current}
        BY <1>2, <2>1, <3>1, RaisedIs
      <3>3. NeverLost'
        BY <3>2 DEF NeverLost
      <3>4. ComesWhatIs' /\ OnItsPage'
        BY <1>1, <1>6, <2>1, <2>3, <2>9, <3>2 DEF TourInv, ComesWhatIs, TourHolds, OnItsPage
      <3> QED BY <2>4, <2>5, <2>6, <3>3, <3>4 DEF TourInv, TourHolds
    <2> QED BY <2>7, <2>8, <2>9
  <1> QED BY <1>3, <1>4, <1>5, <1>6

(* What was to come appears, its element there or ten seconds over. *)
LEMMA StepsAppear ==
  ASSUME TourInv, NEW these \in SUBSET tour.coming, visit' \in Visits, visit'.pc = visit.pc,
         visit'.route = visit.route, visit'.start = visit.start,
         tour' \in Tours, tour'.active = tour.active, tour'.current = tour.current,
         tour'.coming = tour.coming \ these, tour'.up = tour.up \cup these,
         \A s \in these : s \in tour'.late \/ ~Elsewhere(s, visit.route),
         \A s \in tour.late \ these : s \in tour'.late,
         UNCHANGED <<tourKept, refuses, waitingForRoute, pendingResume, tourTold, overtaken>>
  PROVE  TourInv'
  <1>1. TourTypes'
    BY DEF TourInv, TourTypes
  <1>2. WalkOn' /\ StepHeld' /\ ComesWhatIs' /\ OverIsOver'
    BY DEF TourInv, WalkOn, StepHeld, ComesWhatIs, OverIsOver
  <1>3. PlaceRemembered' /\ NeverLost'
    BY DEF TourInv, TourHolds, PlaceRemembered, NeverLost
  <1>4. OnItsPage'
    <2>1. ASSUME ~overtaken PROVE these \subseteq (IF tour.active /\ pendingResume = 0 THEN {tour.current} ELSE {})
      BY <2>1 DEF TourInv, WalkOn, StepHeld, ComesWhatIs
    <2> QED BY <2>1 DEF TourInv, TourHolds, OnItsPage
  <1> QED BY <1>1, <1>2, <1>3, <1>4 DEF TourInv, TourHolds

LEMMA PageIsThere ==
  ASSUME TourInv, PageRenders
  PROVE  TourInv'
  <1>1. PICK there : there = {s \in tour.coming : Rendered(s, visit')}
    OBVIOUS
  <1>2. /\ tour' = [tour EXCEPT !.coming = @ \ there, !.up = @ \cup there, !.late = @ \ there]
        /\ visit' = [visit EXCEPT !.rendered = TRUE]
        /\ UNCHANGED <<tourKept, refuses, waitingForRoute, pendingResume, tourTold, overtaken>>
    BY <1>1 DEF PageRenders
  <1>3. tour \in Tours /\ visit \in Visits /\ there \in SUBSET tour.coming /\ there \subseteq Steps
    BY <1>1 DEF TourInv, TourTypes, Tours
  <1>4. visit' \in Visits /\ visit'.pc = visit.pc /\ visit'.route = visit.route /\ visit'.start = visit.start
    BY <1>2, <1>3 DEF Visits
  <1>5. /\ tour' \in Tours /\ tour'.active = tour.active /\ tour'.current = tour.current
        /\ tour'.coming = tour.coming \ there /\ tour'.up = tour.up \cup there /\ tour'.late = tour.late \ there
    BY <1>2, <1>3 DEF Tours
  <1>6. \A s \in there : ~Elsewhere(s, visit.route)
    BY <1>1, <1>3, <1>4, RenderedHere
  <1> QED BY <1>2, <1>3, <1>4, <1>5, <1>6, StepsAppear

LEMMA TenSecondsOver ==
  ASSUME TourInv, NEW s \in Steps, TenSecondsPass(s)
  PROVE  TourInv'
  <1>1. /\ tour' = [tour EXCEPT !.coming = @ \ {s}, !.up = @ \cup {s}, !.late = @ \cup {s}] /\ s \in tour.coming
        /\ UNCHANGED <<tourKept, refuses, visit, waitingForRoute, pendingResume, tourTold, overtaken>>
    BY DEF TenSecondsPass
  <1>2. tour \in Tours /\ visit \in Visits
    BY DEF TourInv, TourTypes
  <1>3. /\ tour' \in Tours /\ tour'.active = tour.active /\ tour'.current = tour.current
        /\ tour'.coming = tour.coming \ {s} /\ tour'.up = tour.up \cup {s} /\ tour'.late = tour.late \cup {s}
    BY <1>1, <1>2 DEF Tours
  <1>4. {s} \in SUBSET tour.coming
    BY <1>1
  <1> QED BY <1>1, <1>2, <1>3, <1>4, StepsAppear

LEMMA WalkAskedFor ==
  ASSUME TourInv, Restart
  PROVE  TourInv'
  <1>1. PICK entry : entry = WriteProgress(Unseen, tourKept)
    OBVIOUS
  <1>2. tour \in Tours /\ entry \in Progresses /\ tour.coming \in SUBSET Steps
    BY <1>1, RememberIs, StepsAre DEF TourInv, TourTypes, Tours
  <1>3. /\ tourTold' \in [of : SUBSET {"finished", "skipped", "restarted"}, saved : BOOLEAN] /\ ~Said'
        /\ tourTold'.saved => ~refuses'
        /\ UNCHANGED <<refuses, visit>>
    BY DEF Restart, Said, TourInv, TourTypes
  <1>4. CASE visit.pc = "importing"
    <2>1. tourKept' = entry /\ UNCHANGED <<tour, waitingForRoute, pendingResume, overtaken>>
      BY <1>1, <1>4 DEF Restart, OnStartRequest
    <2>2. TourTypes'
      BY <1>2, <1>3, <2>1 DEF TourInv, TourTypes
    <2>3. ~tour.active
      BY <1>4 DEF TourInv, WalkOn
    <2> QED BY <1>3, <2>1, <2>2, <2>3
            DEF TourInv, WalkOn, StepHeld, ComesWhatIs, OverIsOver, TourHolds, PlaceRemembered, NeverLost, OnItsPage, Said
  <1>5. CASE visit.pc # "importing"
    <2>1. /\ overtaken' = (overtaken \/ tour.coming # {})
          /\ tour' = Starting([NoTour EXCEPT !.coming = tour.coming], visit)
          /\ pendingResume' = 0 /\ waitingForRoute' = FALSE
          /\ tourKept' = Remember(1, 0, IF tour.active THEN WriteProgress(Finished, entry) ELSE entry)
      BY <1>1, <1>5 DEF Restart, OnStartRequest
    <2>2. visit.pc = "ready"
      BY <1>5 DEF Restart, TourInv, TourTypes, Visits
    <2>3. PICK bare : bare = [NoTour EXCEPT !.coming = tour.coming]
      OBVIOUS
    <2>4. PICK w : w = [bare EXCEPT !.current = 0]
      OBVIOUS
    <2>5. w \in Tours /\ w.up = {} /\ w.coming = tour.coming
      BY <1>2, <2>3, <2>4, NoTourIs DEF Tours
    <2>6. tour' = Showing(w, 1, visit')
      BY <1>3, <2>1, <2>3, <2>4 DEF Starting
    <2>7. tour' \in Tours
      BY <2>5, <2>6, ShowingIs, StepsAre
    <2>8. tourKept' \in Progresses /\ (~refuses => tourKept' = [status |-> "running", step |-> 1])
      BY <1>2, <2>1, RememberIs, StepsAre DEF TourInv
    <2>9. TourTypes'
      BY <1>3, <2>1, <2>7, <2>8 DEF TourInv, TourTypes
    <2>10. ~overtaken' => w.coming = {}
      BY <2>1, <2>5 DEF TourInv, TourTypes
    <2> QED BY <1>3, <2>1, <2>2, <2>5, <2>6, <2>8, <2>9, <2>10, IsShown, StepsAre
  <1> QED BY <1>4, <1>5

LEMMA TourKeeps ==
  ASSUME TourInv, [TourNext]_tourVars
  PROVE  TourInv'
  <1>1. ASSUME NEW route \in Routes, LoadPage(route) \/ GoTo(route) PROVE TourInv'
    BY <1>1, PageLoads, PageChanges
  <1>2. ASSUME NEW s \in Steps, NextStep(s) PROVE TourInv'
    <2>1. s \in tour.up /\ tour.active /\ UNCHANGED <<refuses, visit, pendingResume>>
      BY <1>2 DEF NextStep
    <2>2. CASE tour.current = Len(TOUR_STEPS)
      BY <1>2, <2>1, <2>2, EndKeeps DEF NextStep
    <2>3. CASE tour.current # Len(TOUR_STEPS)
      <3>1. tour.current + 1 \in Steps
        BY <2>1, <2>3, StepsAre DEF TourInv, WalkOn
      <3> QED BY <1>2, <2>1, <2>3, <3>1, StepShownKeeps DEF NextStep
    <2> QED BY <2>2, <2>3
  <1>3. ASSUME NEW s \in Steps, PreviousStep(s) PROVE TourInv'
    <2>1. s \in tour.up /\ tour.active /\ tour.current > 1 /\ UNCHANGED <<refuses, visit, pendingResume, tourTold>>
      BY <1>3 DEF PreviousStep
    <2>2. tour.current - 1 \in Steps
      BY <2>1, StepsAre DEF TourInv, WalkOn
    <2> QED BY <1>3, <2>1, <2>2, StepShownKeeps DEF PreviousStep
  <1>4. ASSUME NEW s \in Steps, CloseTour(s) PROVE TourInv'
    BY <1>4, EndKeeps DEF CloseTour
  <1>5. ASSUME NEW s \in Steps, TenSecondsPass(s) PROVE TourInv'
    BY <1>5, TenSecondsOver
  <1>6. CASE UNCHANGED tourVars
    BY <1>6 DEF tourVars, TourInv, TourTypes, WalkOn, StepHeld, ComesWhatIs, OverIsOver, TourHolds, PlaceRemembered,
                NeverLost, OnItsPage
  <1> QED BY <1>1, <1>2, <1>3, <1>4, <1>5, <1>6, WalkBuilt, PageIsThere, WalkAskedFor DEF TourNext, Steps

LEMMA TourStarts == TourInit => TourInv
  <1>1. ASSUME TourInit PROVE TourTypes
    <2>1. NoTour \in Tours /\ Unseen \in Progresses
      BY DEF NoTour, Tours, Progresses
    <2> QED BY <1>1, <2>1 DEF TourInit, TourTypes, Visits
  <1>2. ASSUME TourInit
        PROVE  /\ tour.active = FALSE /\ tour.up = {} /\ tour.coming = {} /\ pendingResume = 0
               /\ tourTold.of = {} /\ tourTold.saved = FALSE
    BY <1>2 DEF TourInit, NoTour
  <1>3. {} \notin {{"finished"}, {"skipped"}}
    OBVIOUS
  <1> QED BY <1>1, <1>2, <1>3
          DEF TourInv, WalkOn, StepHeld, ComesWhatIs, OverIsOver, TourHolds, PlaceRemembered, NeverLost, OnItsPage

(* Over page changes, reloads, restarts and a storage that refuses: what a *)
(* reload finds is the step the reader is at, a walk that is on is to be   *)
(* seen or will be, and what is shown is the step it is at on its page     *)
(* (OnboardingTour), for any walk and any pages.                           *)
THEOREM WalkKeepsItsPlace == TourSpec => []TourHolds
  <1>1. TourInv => TourHolds
    BY DEF TourInv
  <1> QED BY <1>1, TourStarts, TourKeeps, PTL DEF TourSpec

-----------------------------------------------------------------------------
(* A reader's own catalogue, asked as an addon by any number of questions  *)
(* at once.                                                                *)

OwnAsks == [pc : {"idle", "template", "fetch root", "root read", "root", "search", "answered"},
            isbn : Holdings \cup {Null}, found : SUBSET Holdings, had : BOOLEAN]
OpdsTypes ==
  /\ held \in SUBSET Holdings /\ template \in {Unread, Null, "template"}
  /\ searches \in BOOLEAN /\ missed \in BOOLEAN /\ asking \in [Asks -> OwnAsks]
(* The root is one page, there from when a question or the template needs it. *)
RootIsThere ==
  /\ root = {} \/ \E h \in SUBSET Holdings : root = {h}
  /\ template # Unread => root # {}
  /\ \A i \in Asks : asking[i].pc = "root read" => root # {}
(* Without a template there is no search, or its description was missed. *)
NoneForAReason ==
  /\ template = Null => ~searches \/ missed
  /\ \A i \in Asks : asking[i].pc = "root" => ~searches \/ missed
(* A book held since it was asked about is held. *)
HadIsHeld == \A i \in Asks : asking[i].pc \notin {"idle", "answered"} /\ asking[i].had => asking[i].isbn \in held
OpdsInv == OpdsTypes /\ RootIsThere /\ NoneForAReason /\ HadIsHeld /\ OwnBookIsFound

LEMMA OneAsk ==
  ASSUME OpdsInv, NEW i \in Asks, NEW row \in OwnAsks, asking' = [asking EXCEPT ![i] = row]
  PROVE  asking' \in [Asks -> OwnAsks] /\ asking'[i] = row /\ \A j \in Asks \ {i} : asking'[j] = asking[j]
  BY DEF OpdsInv, OpdsTypes

(* What a question does to itself: the rest is as it was. *)
LEMMA AskMoves ==
  ASSUME OpdsInv, NEW i \in Asks, NEW row \in OwnAsks, asking' = [asking EXCEPT ![i] = row],
         UNCHANGED <<held, searches, root, template, missed>>,
         row.pc = "root read" => root # {},
         row.pc = "root" => ~searches \/ missed,
         row.pc \notin {"idle", "answered"} /\ row.had => row.isbn \in held,
         row.pc = "answered" => /\ row.found \subseteq {row.isbn}
                                /\ searches /\ ~missed /\ row.had => row.found # {}
  PROVE  OpdsInv'
  <1>1. asking' \in [Asks -> OwnAsks] /\ asking'[i] = row /\ \A j \in Asks \ {i} : asking'[j] = asking[j]
    BY OneAsk
  <1>2. OpdsTypes'
    BY <1>1 DEF OpdsInv, OpdsTypes
  <1>3. RootIsThere'
    BY <1>1 DEF OpdsInv, RootIsThere
  <1>4. NoneForAReason' /\ HadIsHeld'
    BY <1>1 DEF OpdsInv, NoneForAReason, HadIsHeld
  <1>5. OwnBookIsFound'
    BY <1>1 DEF OpdsInv, OwnBookIsFound
  <1> QED BY <1>2, <1>3, <1>4, <1>5 DEF OpdsInv

LEMMA AnswerIs ==
  ASSUME NEW row \in OwnAsks, NEW hits \in SUBSET Holdings
  PROVE  LET new == [row EXCEPT !.pc = "answered", !.found = hits \cap {row.isbn}]
         IN new \in OwnAsks /\ new.pc = "answered" /\ new.isbn = row.isbn /\ new.found = hits \cap {row.isbn}
            /\ new.had = row.had
  BY DEF OwnAsks

LEMMA QuestionSteps ==
  ASSUME OpdsInv, NEW i \in Asks,
         \/ \E isbn \in Holdings : GetSources(i, isbn)
         \/ TemplateKnown(i) \/ LookForTemplate(i) \/ SearchAnswers(i) \/ RootAnswers(i)
         \/ FeedRefused(i) \/ TakeSources(i)
  PROVE  OpdsInv'
  <1>1. asking[i] \in OwnAsks
    BY DEF OpdsInv, OpdsTypes
  <1>2. NotAsking \in OwnAsks /\ NotAsking.pc = "idle"
    BY DEF NotAsking, OwnAsks
  <1>3. ASSUME NEW isbn \in Holdings, GetSources(i, isbn) PROVE OpdsInv'
    <2>1. PICK row : row = [pc |-> "template", isbn |-> isbn, found |-> {}, had |-> isbn \in held]
      OBVIOUS
    <2>2. PICK b \in BOOLEAN : b <=> isbn \in held
      OBVIOUS
    <2>3. row = [pc |-> "template", isbn |-> isbn, found |-> {}, had |-> b]
      BY <2>1, <2>2, Zenon
    <2>4. row \in OwnAsks /\ row.pc = "template" /\ row.isbn = isbn /\ row.had = b
      BY <2>3 DEF OwnAsks
    <2> QED BY <1>3, <2>1, <2>2, <2>4, AskMoves DEF GetSources
  <1>4. ASSUME NEW pc \in {"root", "search", "fetch root", "root read"}, Reach(i, pc),
               UNCHANGED <<held, searches, root, template, missed>>, asking[i].pc = "template",
               pc = "root read" => root # {}, pc = "root" => ~searches \/ missed
        PROVE  OpdsInv'
    <2>1. PICK row : row = [asking[i] EXCEPT !.pc = pc]
      OBVIOUS
    <2>2. row \in OwnAsks /\ row.pc = pc /\ row.isbn = asking[i].isbn /\ row.had = asking[i].had
      BY <1>1, <2>1 DEF OwnAsks
    <2>3. row.had => row.isbn \in held
      BY <1>4, <2>2 DEF OpdsInv, HadIsHeld
    <2>4. asking' = [asking EXCEPT ![i] = row]
      BY <1>4, <2>1 DEF Reach
    <2> QED BY <1>4, <2>2, <2>3, <2>4, AskMoves
  <1>5. CASE TemplateKnown(i)
    <2>1. /\ asking[i].pc = "template" /\ template # Unread /\ UNCHANGED <<held, searches, root, template, missed>>
          /\ Reach(i, IF template = Null THEN "root" ELSE "search")
      BY <1>5 DEF TemplateKnown
    <2> QED BY <1>4, <2>1 DEF OpdsInv, NoneForAReason
  <1>6. CASE LookForTemplate(i)
    <2>1. /\ asking[i].pc = "template" /\ UNCHANGED <<held, searches, root, template, missed>>
          /\ Reach(i, IF root = {} THEN "fetch root" ELSE "root read")
      BY <1>6 DEF LookForTemplate
    <2> QED BY <1>4, <2>1
  <1>7. ASSUME NEW hits \in SUBSET Holdings, Answer(i, hits), UNCHANGED <<held, searches, root, template, missed>>,
               asking[i].had /\ searches /\ ~missed => asking[i].isbn \in hits
        PROVE  OpdsInv'
    <2>1. PICK row : row = [asking[i] EXCEPT !.pc = "answered", !.found = hits \cap {asking[i].isbn}]
      OBVIOUS
    <2>2. /\ row \in OwnAsks /\ row.pc = "answered" /\ row.isbn = asking[i].isbn
          /\ row.found = hits \cap {asking[i].isbn} /\ row.had = asking[i].had
      BY <1>1, <2>1, AnswerIs
    <2>3. asking' = [asking EXCEPT ![i] = row]
      BY <1>7, <2>1 DEF Answer
    <2> QED BY <1>7, <2>2, <2>3, AskMoves
  <1>8. CASE SearchAnswers(i)
    <2>1. asking[i].had => asking[i].isbn \in held
      BY <1>8 DEF SearchAnswers, OpdsInv, HadIsHeld
    <2> QED BY <1>7, <1>8, <2>1 DEF SearchAnswers, OpdsInv, OpdsTypes
  <1>9. CASE RootAnswers(i)
    <2>1. ~searches \/ missed
      BY <1>9 DEF RootAnswers, OpdsInv, NoneForAReason
    <2>2. UNION root \in SUBSET Holdings
      BY DEF OpdsInv, RootIsThere
    <2> QED BY <1>7, <1>9, <2>1, <2>2 DEF RootAnswers
  <1>10. CASE FeedRefused(i) \/ TakeSources(i)
    BY <1>2, <1>10, AskMoves DEF FeedRefused, TakeSources
  <1> QED BY <1>3, <1>5, <1>6, <1>8, <1>9, <1>10

LEMMA RootIsRead ==
  ASSUME OpdsInv, NEW i \in Asks, RootComes(i) \/ NoDescription(i) \/ Description(i)
  PROVE  OpdsInv'
  <1>1. asking[i] \in OwnAsks
    BY DEF OpdsInv, OpdsTypes
  <1>2. /\ asking[i].pc \in {"fetch root", "root read"} /\ held' = held /\ searches' = searches
        /\ asking[i].had => asking[i].isbn \in held
    BY DEF RootComes, NoDescription, Description, OpdsInv, HadIsHeld
  <1>3. \E pc \in {"root read", "root", "search"} :
          /\ Reach(i, pc)
          /\ pc = "root read" => root' = {held} /\ missed' = missed /\ template' = template
          /\ pc = "root" => root' = root /\ root # {} /\ template' = Null /\ (missed' \/ (~searches /\ missed' = missed))
          /\ pc = "search" => root' = root /\ root # {} /\ template' = "template" /\ missed' = missed
    BY DEF RootComes, NoDescription, Description, OpdsInv, RootIsThere
  <1>4. PICK pc \in {"root read", "root", "search"} :
          /\ Reach(i, pc)
          /\ pc = "root read" => root' = {held} /\ missed' = missed /\ template' = template
          /\ pc = "root" => root' = root /\ root # {} /\ template' = Null /\ (missed' \/ (~searches /\ missed' = missed))
          /\ pc = "search" => root' = root /\ root # {} /\ template' = "template" /\ missed' = missed
    BY <1>3
  <1>5. PICK row : row = [asking[i] EXCEPT !.pc = pc]
    OBVIOUS
  <1>6. row \in OwnAsks /\ row.pc = pc /\ row.isbn = asking[i].isbn /\ row.had = asking[i].had
    BY <1>1, <1>5 DEF OwnAsks
  <1>7. asking' = [asking EXCEPT ![i] = row]
    BY <1>4, <1>5 DEF Reach
  <1>8. asking' \in [Asks -> OwnAsks] /\ asking'[i] = row /\ \A j \in Asks \ {i} : asking'[j] = asking[j]
    BY <1>6, <1>7, OneAsk
  <1>9. missed => missed'
    BY <1>4
  <1>10. OpdsTypes'
    BY <1>2, <1>4, <1>8 DEF OpdsInv, OpdsTypes
  <1>11. RootIsThere'
    BY <1>4, <1>6, <1>8 DEF OpdsInv, OpdsTypes, RootIsThere
  <1>12. NoneForAReason'
    BY <1>2, <1>4, <1>6, <1>8, <1>9 DEF OpdsInv, NoneForAReason, Null
  <1>13. HadIsHeld'
    BY <1>2, <1>6, <1>8 DEF OpdsInv, HadIsHeld
  <1>14. OwnBookIsFound'
    BY <1>2, <1>4, <1>6, <1>8, <1>9 DEF OpdsInv, OwnBookIsFound
  <1> QED BY <1>10, <1>11, <1>12, <1>13, <1>14 DEF OpdsInv

LEMMA OwnerMoves ==
  ASSUME OpdsInv, HoldingsChange
  PROVE  OpdsInv'
  <1>1. /\ held' \in SUBSET Holdings /\ UNCHANGED <<searches, root, template, missed>>
        /\ asking' = [i \in Asks |-> [asking[i] EXCEPT !.had = @ /\ asking[i].isbn \in held']]
    BY DEF HoldingsChange, OpdsInv, OpdsTypes
  <1>2. ASSUME NEW i \in Asks
        PROVE  /\ asking'[i] \in OwnAsks /\ asking'[i].pc = asking[i].pc /\ asking'[i].isbn = asking[i].isbn
               /\ asking'[i].found = asking[i].found /\ (asking'[i].had => asking[i].had /\ asking[i].isbn \in held')
    BY <1>1 DEF OpdsInv, OpdsTypes, OwnAsks
  <1>3. OpdsTypes'
    BY <1>1, <1>2 DEF OpdsInv, OpdsTypes
  <1>4. RootIsThere' /\ NoneForAReason' /\ HadIsHeld'
    BY <1>1, <1>2 DEF OpdsInv, RootIsThere, NoneForAReason, HadIsHeld
  <1>5. OwnBookIsFound'
    BY <1>1, <1>2 DEF OpdsInv, OwnBookIsFound
  <1> QED BY <1>3, <1>4, <1>5 DEF OpdsInv

LEMMA OpdsKeeps == ASSUME OpdsInv, [AddonNext]_opdsVars PROVE OpdsInv'
  <1>1. ASSUME UNCHANGED opdsVars PROVE OpdsInv'
    BY <1>1 DEF opdsVars, OpdsInv, OpdsTypes, RootIsThere, NoneForAReason, HadIsHeld, OwnBookIsFound
  <1> QED BY <1>1, QuestionSteps, RootIsRead, OwnerMoves DEF AddonNext

(* Nobody has asked yet, whatever is held.                                 *)
LEMMA OpdsStarts == held \in SUBSET Holdings /\ OpdsRest => OpdsInv
  <1>1. NotAsking \in OwnAsks /\ NotAsking.pc = "idle"
    BY DEF NotAsking, OwnAsks
  <1> QED BY <1>1 DEF OpdsRest, OpdsInv, OpdsTypes, RootIsThere, NoneForAReason, HadIsHeld, OwnBookIsFound,
                      Unread, Null

LEMMA OpdsIsSafe == AddonSpec => []OpdsInv
  <1>1. AddonInit => OpdsInv
    BY OpdsStarts DEF AddonInit
  <1> QED BY <1>1, OpdsKeeps, PTL DEF AddonSpec

(* Asked about an ISBN, by however many questions at once, the reader's    *)
(* own catalogue answers with that book or nothing, and does not miss one  *)
(* it held all the while, if it can search and its description was read    *)
(* (OpdsAddonTransport).                                                   *)
THEOREM OwnBookTurnsUp == AddonSpec => []OwnBookIsFound
  BY OpdsIsSafe, PTL DEF OpdsInv

LEMMA OpdsInvTypes == OpdsInv => OpdsTypeOK
  <1>1. ASSUME OpdsInv PROVE root \subseteq SUBSET Holdings /\ Cardinality(root) <= 1
    <2>1. CASE root = {}
      BY <2>1, FS_EmptySet
    <2>2. ASSUME NEW h \in SUBSET Holdings, root = {h}
          PROVE  root \subseteq SUBSET Holdings /\ Cardinality(root) <= 1
      <3>1. Cardinality(root) = 1
        BY <2>2, FS_Singleton, Zenon
      <3> QED BY <2>2, <3>1
    <2> QED BY <1>1, <2>1, <2>2 DEF OpdsInv, RootIsThere
  <1> QED BY <1>1 DEF OpdsInv, OpdsTypes, OpdsTypeOK, RootIsThere, OwnAsks

(* The types of OpdsAddonTransport's state; a template that was looked for *)
(* was looked for in a root.                                               *)
THEOREM OpdsTypeCorrect == AddonSpec => []OpdsTypeOK
  BY OpdsInvTypes, OpdsIsSafe, PTL

-----------------------------------------------------------------------------
(* The reader's account: tables and ids.                                   *)

LEMMA NextIsNew ==
  ASSUME nextToken \in Nat \ {0}
  PROVE  nextToken \notin Issued /\ 0 \notin Issued
  BY DEF Issued

LEMMA IssuedGrow ==
  ASSUME nextToken \in Nat \ {0}, nextToken' = nextToken + 1
  PROVE  /\ nextToken' \in Nat \ {0}
         /\ Issued \subseteq Issued' /\ nextToken \in Issued'
  BY DEF Issued

-----------------------------------------------------------------------------
(* Requests. *)

(* A call of before, or of now, whose accounts are still there. *)
LEMMA CallStays ==
  ASSUME NEW b, NEW c, CallOK(c), call'[b] = c, Issued \subseteq Issued', DOMAIN users \subseteq DOMAIN users',
         \A u \in DOMAIN users : users'[u].email = users[u].email
  PROVE  CallOK(call[b])'
  <1>1. c \in Calls'
    BY DEF CallOK, Calls
  <1>2. c.pc \in {"linkUser", "startSession", "add", "remove"} => c.user \in DOMAIN users'
    BY DEF CallOK
  <1>3. c.pc = "linkUser" => c.user \in DOMAIN users /\ users[c.user].email = c.email
    BY DEF CallOK
  <1>4. c.pc = "linkUser" => users'[c.user].email = c.email
    BY <1>3
  <1> QED BY <1>1, <1>2, <1>4 DEF CallOK

LEMMA NoCallOK == nextToken \in Nat \ {0} => CallOK(NoCall)
  BY DEF CallOK, NoCall, Calls, Unset

(* A request in flight, of which one step changes the call of b.           *)
LEMMA CallMoves ==
  ASSUME AccountsTypeOK, NEW b \in Browsers, NEW c, call' = [call EXCEPT ![b] = c]
  PROVE  /\ DOMAIN call' = Browsers /\ call'[b] = c
         /\ \A d \in Browsers \ {b} : call'[d] = call[d]
  BY DEF AccountsTypeOK, CallsOK

-----------------------------------------------------------------------------
(* Types. *)

(* A step of b that changes no table, hands out no id and leaves the       *)
(* cookies alone.                                                          *)
LEMMA TypeCall ==
  ASSUME AccountsTypeOK, NEW b \in Browsers, NEW c, CallOK(c), call' = [call EXCEPT ![b] = c],
         UNCHANGED <<users, sessions, bookmarks, nextToken, proof>>,
         cookie' \in [Browsers -> Issued \cup {0}]
  PROVE  AccountsTypeOK'
  <1>1. Issued' = Issued
    BY DEF Issued
  <1>2. ASSUME NEW d \in Browsers PROVE CallOK(call[d])'
    <2>1. CASE d = b
      BY <1>1, <2>1, CallMoves, CallStays
    <2>2. CASE d # b
      <3>1. CallOK(call[d]) /\ call'[d] = call[d]
        BY <2>2, CallMoves DEF AccountsTypeOK, CallsOK
      <3> QED BY <1>1, <3>1, CallStays
    <2> QED BY <2>1, <2>2
  <1>3. CallsOK'
    BY <1>2, CallMoves DEF CallsOK
  <1>4. UsersOK'
    BY <1>1 DEF AccountsTypeOK, UsersOK
  <1>5. SessionsOK'
    BY <1>1 DEF AccountsTypeOK, SessionsOK
  <1> QED BY <1>1, <1>3, <1>4, <1>5 DEF AccountsTypeOK

LEMMA TypeRequest ==
  ASSUME AccountsTypeOK, NEW b \in Browsers, NEW c, Request(b, c),
         \A t \in Issued \cup {0} : CallOK([c EXCEPT !.token = t])
  PROVE  AccountsTypeOK'
  <1>1. cookie[b] \in Issued \cup {0} /\ cookie' \in [Browsers -> Issued \cup {0}]
    BY DEF AccountsTypeOK, Request
  <1>2. CallOK([c EXCEPT !.token = cookie[b]])
    BY <1>1, Zenon
  <1>3. call' = [call EXCEPT ![b] = [c EXCEPT !.token = cookie[b]]]
    BY Zenon DEF Request
  <1>4. UNCHANGED <<users, sessions, bookmarks, nextToken, proof>>
    BY Zenon DEF Request, tables
  <1> QED BY <1>1, <1>2, <1>3, <1>4, TypeCall, Zenon

LEMMA TypeSends ==
  ASSUME AccountsTypeOK, NEW b \in Browsers, Sends(b)
  PROVE  AccountsTypeOK'
  <1>1. ASSUME NEW e \in Emails, NEW p \in Passwords, SendRegister(b, e, p) \/ SendLogin(b, e, p)
        PROVE  AccountsTypeOK'
    <2>1. \A t \in Issued \cup {0} : CallOK([[NoCall EXCEPT !.pc = "findEmail", !.kind = "register",
                                                  !.email = e, !.password = p] EXCEPT !.token = t])
      BY DEF CallOK, Calls, NoCall, Unset
    <2>2. \A t \in Issued \cup {0} : CallOK([[NoCall EXCEPT !.pc = "verify", !.kind = "login",
                                                  !.email = e, !.password = p] EXCEPT !.token = t])
      BY DEF CallOK, Calls, NoCall, Unset
    <2> QED BY <1>1, <2>1, <2>2, TypeRequest, Zenon DEF SendRegister, SendLogin
  <1>2. ASSUME NEW p \in Profiles, SendGoogle(b, p[1], p[2]) PROVE AccountsTypeOK'
    <2>1. <<p[1], p[2]>> \in Profiles /\ p[1] \in Subjects /\ p[2] \in Emails
      BY ProfilesAssumption DEF Subjects
    <2>2. \A t \in Issued \cup {0} : CallOK([[NoCall EXCEPT !.pc = "findSubject", !.kind = "google",
                                                  !.email = p[2], !.subject = p[1]] EXCEPT !.token = t])
      BY <2>1 DEF CallOK, Calls, NoCall, Unset
    <2> QED BY <1>2, <2>2, TypeRequest, Zenon DEF SendGoogle
  <1>3. CASE SendLogout(b)
    <2>1. \A t \in Issued \cup {0} : CallOK([[NoCall EXCEPT !.pc = "deleteSession", !.kind = "logout"]
                                               EXCEPT !.token = t])
      BY DEF CallOK, Calls, NoCall, Unset
    <2> QED BY <1>3, <2>1, TypeRequest, Zenon DEF SendLogout
  <1>4. ASSUME NEW w \in SavedWorks, NEW kind \in {"add", "remove"}, SendBookmark(b, kind, w)
        PROVE  AccountsTypeOK'
    <2>1. \A t \in Issued \cup {0} : CallOK([[NoCall EXCEPT !.pc = "findSession", !.kind = kind, !.work = w]
                                               EXCEPT !.token = t])
      BY DEF CallOK, Calls, NoCall, Unset
    <2> QED BY <1>4, <2>1, TypeRequest, Zenon DEF SendBookmark
  <1> QED BY <1>1, <1>2, <1>3, <1>4 DEF Sends

(* Where a handler goes on. *)
LEMMA CallGoesOn ==
  ASSUME NEW b \in Browsers, AccountsTypeOK, NEW label, Goto(b, label), CallOK([call[b] EXCEPT !.pc = label])
  PROVE  \E c : CallOK(c) /\ call' = [call EXCEPT ![b] = c]
  <1>1. call' = [call EXCEPT ![b] = [call[b] EXCEPT !.pc = label]]
    BY DEF Goto
  <1> QED BY <1>1, Zenon

LEMMA CallEnds ==
  ASSUME NEW b \in Browsers, AccountsTypeOK, End(b)
  PROVE  \E c : CallOK(c) /\ call' = [call EXCEPT ![b] = c]
  BY NoCallOK DEF End, AccountsTypeOK

LEMMA CallFinds ==
  ASSUME NEW b \in Browsers, AccountsTypeOK, NEW label, NEW u,
         CallOK([[call[b] EXCEPT !.pc = label] EXCEPT !.user = u]),
         call' = [call EXCEPT ![b].pc = label, ![b].user = u]
  PROVE  \E c : CallOK(c) /\ call' = [call EXCEPT ![b] = c]
  <1>1. call' = [call EXCEPT ![b] = [[call[b] EXCEPT !.pc = label] EXCEPT !.user = u]]
    OBVIOUS
  <1> QED BY <1>1, Zenon

LEMMA OwnersAreUsers ==
  ASSUME NEW m, NEW s
  PROVE  /\ \A u \in Owner(m) : u \in DOMAIN users /\ users[u].email = m
         /\ \A u \in Linked(s) : u \in DOMAIN users /\ users[u].subject = s
  BY DEF Owner, Linked

LEMMA TheIsIn == ASSUME NEW S, S # {} PROVE The(S) \in S
  BY DEF The

(* The handlers that only read. *)
LEMMA TypeReads ==
  ASSUME AccountsTypeOK, NEW b \in Browsers,
         \/ RegisterLooksUp(b) \/ VerifyPassword(b) \/ GoogleBySubject(b) \/ GoogleByEmail(b)
         \/ FindSession(b)
  PROVE  AccountsTypeOK'
  <1>1. CallOK(call[b])
    BY DEF AccountsTypeOK, CallsOK
  <1>2. UNCHANGED <<users, sessions, bookmarks, nextToken, proof, cookie>>
    BY DEF RegisterLooksUp, VerifyPassword, GoogleBySubject, GoogleByEmail, FindSession, tables
  <1>3. cookie' \in [Browsers -> Issued \cup {0}]
    BY <1>2 DEF AccountsTypeOK
  <1>4. \E c : CallOK(c) /\ call' = [call EXCEPT ![b] = c]
    <2>1. CASE End(b)
      BY <2>1, CallEnds
    <2>2. CASE RegisterLooksUp(b) /\ Goto(b, "insertUser")
      <3>1. CallOK([call[b] EXCEPT !.pc = "insertUser"])
        BY <1>1, <2>2 DEF RegisterLooksUp, CallOK, Calls
      <3> QED BY <2>2, <3>1, CallGoesOn
    <2>3. CASE VerifyPassword(b) /\ ~End(b)
      <3> DEFINE fit == {u \in Owner(call[b].email) : users[u].password = call[b].password}
      <3>1. fit # {} /\ call' = [call EXCEPT ![b].pc = "startSession", ![b].user = The(fit)]
        BY <2>3 DEF VerifyPassword
      <3>2. The(fit) \in DOMAIN users
        BY <3>1, TheIsIn, OwnersAreUsers
      <3>3. CallOK([[call[b] EXCEPT !.pc = "startSession"] EXCEPT !.user = The(fit)])
        BY <1>1, <2>3, <3>2 DEF VerifyPassword, CallOK, Calls
      <3> QED BY <3>1, <3>3, CallFinds
    <2>4. CASE GoogleBySubject(b)
      <3> DEFINE known == Linked(call[b].subject)
      <3>1. CASE known = {}
        <4>1. CallOK([call[b] EXCEPT !.pc = "findEmail"]) /\ Goto(b, "findEmail")
          BY <1>1, <2>4, <3>1 DEF GoogleBySubject, CallOK, Calls, Goto
        <4> QED BY <4>1, CallGoesOn
      <3>2. CASE known # {}
        <4>1. The(known) \in DOMAIN users
          BY <3>2, TheIsIn, OwnersAreUsers
        <4>2. CallOK([[call[b] EXCEPT !.pc = "startSession"] EXCEPT !.user = The(known)])
          BY <1>1, <2>4, <4>1 DEF GoogleBySubject, CallOK, Calls
        <4>3. call' = [call EXCEPT ![b].pc = "startSession", ![b].user = The(known)]
          BY <2>4, <3>2 DEF GoogleBySubject
        <4> QED BY <4>2, <4>3, CallFinds
      <3> QED BY <3>1, <3>2
    <2>5. CASE GoogleByEmail(b)
      <3> DEFINE known == Owner(call[b].email)
      <3>1. CASE known = {}
        <4>1. CallOK([call[b] EXCEPT !.pc = "insertUser"]) /\ Goto(b, "insertUser")
          BY <1>1, <2>5, <3>1 DEF GoogleByEmail, CallOK, Calls, Goto
        <4> QED BY <4>1, CallGoesOn
      <3>2. CASE known # {}
        <4>1. The(known) \in DOMAIN users /\ users[The(known)].email = call[b].email
          BY <3>2, TheIsIn, OwnersAreUsers
        <4>2. CallOK([[call[b] EXCEPT !.pc = "linkUser"] EXCEPT !.user = The(known)])
          BY <1>1, <2>5, <4>1 DEF GoogleByEmail, CallOK, Calls
        <4>3. call' = [call EXCEPT ![b].pc = "linkUser", ![b].user = The(known)]
          BY <2>5, <3>2 DEF GoogleByEmail
        <4> QED BY <4>2, <4>3, CallFinds
      <3> QED BY <3>1, <3>2
    <2>6. CASE FindSession(b) /\ ~End(b)
      <3>1. call[b].token \in DOMAIN sessions
        BY <2>6 DEF FindSession
      <3>2. CASE Goto(b, "deleteOld")
        <4>1. CallOK([call[b] EXCEPT !.pc = "deleteOld"])
          BY <1>1, <2>6 DEF FindSession, CallOK, Calls
        <4> QED BY <3>2, <4>1, CallGoesOn
      <3>3. CASE call' = [call EXCEPT ![b].pc = call[b].kind, ![b].user = sessions[call[b].token].user]
        <4>1. sessions[call[b].token].user \in DOMAIN users
          BY <3>1 DEF AccountsTypeOK, SessionsOK
        <4>2. CallOK([[call[b] EXCEPT !.pc = call[b].kind] EXCEPT !.user = sessions[call[b].token].user])
          BY <1>1, <2>6, <4>1 DEF FindSession, CallOK, Calls
        <4> QED BY <3>3, <4>2, CallFinds
      <3> QED BY <2>6, <3>1, <3>2, <3>3 DEF FindSession
    <2> QED BY <2>1, <2>2, <2>3, <2>4, <2>5, <2>6 DEF RegisterLooksUp
  <1> QED BY <1>2, <1>3, <1>4, TypeCall

(* What is known of the other calls survives a step that hands out ids and *)
(* adds or links accounts.                                                 *)
LEMMA CallsStay ==
  ASSUME AccountsTypeOK, NEW b \in Browsers, NEW c, call' = [call EXCEPT ![b] = c], CallOK(call[b])',
         Issued \subseteq Issued', DOMAIN users \subseteq DOMAIN users',
         \A u \in DOMAIN users : users'[u].email = users[u].email
  PROVE  CallsOK'
  <1>1. ASSUME NEW d \in Browsers PROVE CallOK(call[d])'
    <2>1. CASE d = b
      BY <2>1
    <2>2. CASE d # b
      <3>1. CallOK(call[d]) /\ call'[d] = call[d]
        BY <2>2, CallMoves DEF AccountsTypeOK, CallsOK
      <3> QED BY <3>1, CallStays
    <2> QED BY <2>1, <2>2
  <1> QED BY <1>1, CallMoves DEF CallsOK

(* A request that ends. *)
LEMMA CallsEnd ==
  ASSUME AccountsTypeOK, NEW b \in Browsers, End(b),
         Issued \subseteq Issued', DOMAIN users \subseteq DOMAIN users',
         \A u \in DOMAIN users : users'[u].email = users[u].email
  PROVE  CallsOK'
  <1>1. call' = [call EXCEPT ![b] = NoCall] /\ call'[b] = NoCall
    BY CallMoves DEF End
  <1>2. CallOK(NoCall)
    BY NoCallOK DEF AccountsTypeOK
  <1>3. CallOK(call[b])'
    BY <1>1, <1>2, CallStays
  <1> QED BY <1>1, <1>3, CallsStay

(* The tables of a step that leaves the accounts alone and hands out at    *)
(* most one id.                                                            *)
LEMMA TypeSessions ==
  ASSUME AccountsTypeOK, NEW b \in Browsers, End(b), UNCHANGED users,
         nextToken' \in {nextToken, nextToken + 1}, SessionsOK',
         bookmarks' \subseteq (DOMAIN users) \X SavedWorks, cookie' \in [Browsers -> Issued' \cup {0}]
  PROVE  AccountsTypeOK'
  <1>1. nextToken \in Nat \ {0}
    BY DEF AccountsTypeOK
  <1>2. nextToken' \in Nat \ {0} /\ Issued \subseteq Issued'
    <2>1. CASE nextToken' = nextToken
      BY <1>1, <2>1 DEF Issued
    <2>2. CASE nextToken' = nextToken + 1
      BY <1>1, <2>2, IssuedGrow
    <2> QED BY <2>1, <2>2
  <1>3. CallsOK'
    BY <1>2, CallsEnd
  <1>4. UsersOK'
    BY <1>2 DEF AccountsTypeOK, UsersOK
  <1> QED BY <1>2, <1>3, <1>4 DEF AccountsTypeOK

LEMMA TypeStartSession ==
  ASSUME AccountsTypeOK, NEW b \in Browsers, StartSession(b)
  PROVE  AccountsTypeOK'
  <1>1. CallOK(call[b]) /\ call[b].pc = "startSession" /\ call[b].user \in DOMAIN users
    BY DEF AccountsTypeOK, CallsOK, StartSession, CallOK
  <1>2. Credential(b) \in Credentials
    BY <1>1 DEF CallOK, Credential, Credentials, Subjects
  <1>3. End(b) /\ UNCHANGED <<users, bookmarks>> /\ nextToken' = nextToken + 1
    BY DEF StartSession
  <1>4. Issued \subseteq Issued' /\ nextToken \in Issued'
    BY <1>3, IssuedGrow DEF AccountsTypeOK
  <1>5. SessionsOK'
    <2> DEFINE s == [user |-> call[b].user, old |-> FALSE]
    <2>0. sessions' = With(sessions, nextToken, s) /\ proof' = With(proof, nextToken, Credential(b))
      BY DEF StartSession
    <2>1. /\ DOMAIN sessions' = DOMAIN sessions \cup {nextToken}
          /\ sessions'[nextToken] = s
          /\ \A t \in DOMAIN sessions \ {nextToken} : sessions'[t] = sessions[t]
      BY <2>0 DEF With
    <2>2. /\ DOMAIN proof' = DOMAIN proof \cup {nextToken}
          /\ proof'[nextToken] = Credential(b)
          /\ \A t \in DOMAIN proof \ {nextToken} : proof'[t] = proof[t]
      BY <2>0 DEF With
    <2>3. DOMAIN sessions' \subseteq DOMAIN proof' /\ DOMAIN proof' \subseteq Issued'
      BY <1>4, <2>1, <2>2 DEF AccountsTypeOK, SessionsOK
    <2>4. \A t \in DOMAIN sessions' : sessions'[t] \in [user : DOMAIN users', old : BOOLEAN]
      <3>1. s \in [user : DOMAIN users', old : BOOLEAN]
        BY <1>1, <1>3
      <3>2. \A t \in DOMAIN sessions : sessions[t] \in [user : DOMAIN users', old : BOOLEAN]
        BY <1>3 DEF AccountsTypeOK, SessionsOK
      <3> HIDE DEF s
      <3> QED BY <2>1, <3>1, <3>2
    <2>5. \A t \in DOMAIN proof' : proof'[t] \in Credentials
      BY <1>2, <2>2 DEF AccountsTypeOK, SessionsOK
    <2> QED BY <2>3, <2>4, <2>5 DEF SessionsOK, Credentials
  <1>6. cookie' \in [Browsers -> Issued' \cup {0}]
    BY <1>4 DEF AccountsTypeOK, StartSession
  <1>7. bookmarks' \subseteq (DOMAIN users) \X SavedWorks
    BY <1>3 DEF AccountsTypeOK
  <1> QED BY <1>3, <1>5, <1>6, <1>7, TypeSessions

(* Saving a work, and the rows that go. *)
LEMMA TypeEnds ==
  ASSUME AccountsTypeOK, NEW b \in Browsers,
         DeleteOld(b) \/ AddSavedWork(b) \/ RemoveSavedWork(b) \/ Logout(b) \/ HandlerDies(b)
  PROVE  AccountsTypeOK'
  <1>1. End(b) /\ UNCHANGED <<users, nextToken, proof>>
    BY DEF DeleteOld, AddSavedWork, RemoveSavedWork, Logout, HandlerDies, tables
  <1>2. CallOK(call[b])
    BY DEF AccountsTypeOK, CallsOK
  <1>3. SessionsOK'
    <2>1. sessions' = sessions \/ sessions' = Without(sessions, call[b].token)
      BY DEF DeleteOld, AddSavedWork, RemoveSavedWork, Logout, HandlerDies, tables
    <2>2. DOMAIN sessions' \subseteq DOMAIN sessions /\ \A t \in DOMAIN sessions' : sessions'[t] = sessions[t]
      <3>1. CASE sessions' = Without(sessions, call[b].token)
        BY <3>1 DEF Without
      <3> QED BY <2>1, <3>1
    <2>3. Issued' = Issued
      BY <1>1 DEF Issued
    <2> QED BY <1>1, <2>2, <2>3 DEF AccountsTypeOK, SessionsOK
  <1>4. bookmarks' \subseteq (DOMAIN users) \X SavedWorks
    <2>1. call[b].pc \in {"add", "remove"} => call[b].user \in DOMAIN users /\ call[b].work \in SavedWorks
      BY <1>2 DEF CallOK
    <2> QED BY <2>1 DEF AccountsTypeOK, DeleteOld, AddSavedWork, RemoveSavedWork, Logout, HandlerDies, tables
  <1>5. cookie' \in [Browsers -> Issued' \cup {0}]
    BY <1>1 DEF AccountsTypeOK, DeleteOld, AddSavedWork, RemoveSavedWork, Logout, HandlerDies, Issued
  <1> QED BY <1>1, <1>3, <1>4, <1>5, TypeSessions

(* The tables of a step that adds or links an account. *)
LEMMA TypeUsers ==
  ASSUME AccountsTypeOK, NEW b \in Browsers, NEW c, call' = [call EXCEPT ![b] = c], CallOK(call[b])',
         UNCHANGED <<sessions, bookmarks, cookie, proof>>,
         nextToken' \in Nat \ {0}, Issued \subseteq Issued', UsersOK', DOMAIN users \subseteq DOMAIN users',
         \A u \in DOMAIN users : users'[u].email = users[u].email
  PROVE  AccountsTypeOK'
  <1>1. CallsOK'
    BY CallsStay
  <1>2. SessionsOK'
    BY DEF AccountsTypeOK, SessionsOK
  <1>3. bookmarks' \subseteq (DOMAIN users') \X SavedWorks
    BY DEF AccountsTypeOK
  <1>4. cookie' \in [Browsers -> Issued' \cup {0}]
    BY DEF AccountsTypeOK
  <1> QED BY <1>1, <1>2, <1>3, <1>4 DEF AccountsTypeOK

LEMMA InsertsRow ==
  ASSUME AccountsTypeOK, NEW b \in Browsers, InsertUser(b),
         ~Taken(nextToken, call[b].email, call[b].subject)
  PROVE  /\ nextToken' = nextToken + 1
         /\ nextToken \notin DOMAIN users /\ DOMAIN users' = DOMAIN users \cup {nextToken}
         /\ users'[nextToken] = [email |-> call[b].email, password |-> call[b].password,
                                 subject |-> call[b].subject]
         /\ \A u \in DOMAIN users : users'[u] = users[u]
         /\ call' = [call EXCEPT ![b] = [call[b] EXCEPT !.pc = "startSession", !.user = nextToken]]
  <1> DEFINE row == [email |-> call[b].email, password |-> call[b].password, subject |-> call[b].subject]
  <1>1. /\ nextToken' = nextToken + 1
        /\ users' = With(users, nextToken, row)
        /\ call' = [call EXCEPT ![b].pc = "startSession", ![b].user = nextToken]
    BY DEF InsertUser
  <1>2. nextToken \notin DOMAIN users
    BY NextIsNew DEF AccountsTypeOK, UsersOK
  <1>3. /\ DOMAIN users' = DOMAIN users \cup {nextToken} /\ users'[nextToken] = row
        /\ \A u \in DOMAIN users : users'[u] = users[u]
    <2> HIDE DEF row
    <2> QED BY <1>1, <1>2 DEF With
  <1>4. call' = [call EXCEPT ![b] = [call[b] EXCEPT !.pc = "startSession", !.user = nextToken]]
    BY <1>1
  <1> QED BY <1>1, <1>2, <1>3, <1>4

LEMMA TypeInsertUser ==
  ASSUME AccountsTypeOK, NEW b \in Browsers, InsertUser(b)
  PROVE  AccountsTypeOK'
  <1>1. CallOK(call[b]) /\ call[b].pc = "insertUser" /\ call[b].kind \in {"register", "google"}
    BY DEF AccountsTypeOK, CallsOK, InsertUser, CallOK
  <1>2. CASE Taken(nextToken, call[b].email, call[b].subject)
    <2>1. End(b) /\ UNCHANGED <<users, sessions, bookmarks, nextToken, cookie, proof>>
      BY <1>2 DEF InsertUser
    <2>2. CallOK(NoCall) /\ call' = [call EXCEPT ![b] = NoCall] /\ cookie' \in [Browsers -> Issued \cup {0}]
      BY <2>1, NoCallOK DEF AccountsTypeOK, End
    <2> QED BY <2>1, <2>2, TypeCall
  <1>3. CASE ~Taken(nextToken, call[b].email, call[b].subject)
    <2> DEFINE c == [call[b] EXCEPT !.pc = "startSession", !.user = nextToken]
    <2>2. nextToken' \in Nat \ {0} /\ Issued \subseteq Issued' /\ nextToken \in Issued'
      BY <1>3, InsertsRow, IssuedGrow DEF AccountsTypeOK
    <2>3. UsersOK'
      <3>1. call[b].subject # Unset => call[b].kind = "google"
        BY <1>1 DEF CallOK
      <3>2. call[b].email \in Emails
        BY <1>1, ProfilesAssumption DEF CallOK
      <3>0. users'[nextToken] = [email |-> call[b].email, password |-> call[b].password,
                                 subject |-> call[b].subject]
        BY <1>3, InsertsRow, Zenon
      <3>3. users'[nextToken] \in User
        BY <1>1, <3>0, <3>2 DEF CallOK, Calls, User
      <3>4. users'[nextToken].subject # Unset => <<users'[nextToken].subject, users'[nextToken].email>> \in Profiles
        BY <1>1, <3>0, <3>1 DEF CallOK
      <3>5. ASSUME NEW u \in DOMAIN users'
            PROVE  users'[u] \in User /\ (users'[u].subject # Unset => <<users'[u].subject, users'[u].email>> \in Profiles)
        <4>1. CASE u = nextToken
          BY <3>3, <3>4, <4>1
        <4>2. CASE u \in DOMAIN users
          BY <4>2, <1>3, InsertsRow DEF AccountsTypeOK, UsersOK
        <4> QED BY <4>1, <4>2, <1>3, InsertsRow
      <3>6. DOMAIN users' \subseteq Issued'
        BY <2>2, <1>3, InsertsRow DEF AccountsTypeOK, UsersOK
      <3> QED BY <3>5, <3>6 DEF UsersOK, User
    <2>4. CallOK(call[b])'
      <3>1. call' = [call EXCEPT ![b] = c]
        BY <1>3, InsertsRow
      <3>2. call'[b] = c
        BY <3>1 DEF AccountsTypeOK, CallsOK
      <3>3. nextToken \in DOMAIN users'
        BY <1>3, InsertsRow
      <3>4. call'[b] \in Calls'
        BY <1>1, <2>2, <3>2, <3>3 DEF CallOK, Calls
      <3> QED BY <1>1, <3>2, <3>3, <3>4 DEF CallOK, Calls
    <2>5. /\ UNCHANGED <<sessions, bookmarks, cookie, proof>> /\ call' = [call EXCEPT ![b] = c]
          /\ DOMAIN users \subseteq DOMAIN users' /\ \A u \in DOMAIN users : users'[u].email = users[u].email
      BY <1>3, InsertsRow DEF InsertUser
    <2> QED BY <2>2, <2>3, <2>4, <2>5, TypeUsers
  <1> QED BY <1>2, <1>3

(* Linking changes one field of one row. *)
LEMMA LinksRow ==
  ASSUME AccountsTypeOK, NEW b \in Browsers, LinkUser(b),
         ~Taken(call[b].user, users[call[b].user].email, call[b].subject)
  PROVE  /\ call[b].user \in DOMAIN users /\ DOMAIN users' = DOMAIN users
         /\ users'[call[b].user] = [users[call[b].user] EXCEPT !.subject = call[b].subject]
         /\ \A u \in DOMAIN users \ {call[b].user} : users'[u] = users[u]
         /\ \A u \in DOMAIN users : users'[u].email = users[u].email /\ users'[u].password = users[u].password
         /\ users'[call[b].user].subject = call[b].subject
  <1>1. call[b].user \in DOMAIN users
    BY DEF AccountsTypeOK, CallsOK, CallOK, LinkUser
  <1>2. users' = [users EXCEPT ![call[b].user].subject = call[b].subject]
    BY DEF LinkUser
  <1>3. users[call[b].user] \in User
    BY <1>1 DEF AccountsTypeOK, UsersOK
  <1> QED BY <1>1, <1>2, <1>3 DEF User

LEMMA TypeLinkUser ==
  ASSUME AccountsTypeOK, NEW b \in Browsers, LinkUser(b)
  PROVE  AccountsTypeOK'
  <1>1. /\ CallOK(call[b]) /\ call[b].pc = "linkUser" /\ call[b].kind = "google"
        /\ call[b].user \in DOMAIN users /\ users[call[b].user].email = call[b].email
        /\ <<call[b].subject, call[b].email>> \in Profiles
    BY DEF AccountsTypeOK, CallsOK, LinkUser, CallOK
  <1> DEFINE taken == Taken(call[b].user, users[call[b].user].email, call[b].subject)
  <1>2. UNCHANGED <<sessions, bookmarks, cookie, nextToken, proof>> /\ cookie' \in [Browsers -> Issued \cup {0}]
    BY DEF LinkUser, AccountsTypeOK
  <1>3. CASE taken
    <2>1. CallOK(NoCall) /\ call' = [call EXCEPT ![b] = NoCall] /\ UNCHANGED users
      BY <1>3, NoCallOK DEF AccountsTypeOK, End, LinkUser
    <2> QED BY <1>2, <2>1, TypeCall
  <1>4. CASE ~taken
    <2> DEFINE c == [call[b] EXCEPT !.pc = "startSession"]
    <2>1. call' = [call EXCEPT ![b] = c]
      BY <1>4 DEF LinkUser, Goto
    <2>2. call'[b] = c
      BY <2>1, CallMoves, Zenon
    <2>3. nextToken' \in Nat \ {0} /\ Issued \subseteq Issued' /\ Issued' = Issued
      BY <1>2 DEF Issued, AccountsTypeOK
    <2>4. DOMAIN users' = DOMAIN users
      BY <1>4, LinksRow, Zenon
    <2>5. CallOK(call[b])'
      <3>1. call'[b] \in Calls'
        BY <1>1, <2>2, <2>3, <2>4 DEF CallOK, Calls
      <3> QED BY <1>1, <2>2, <2>4, <3>1 DEF CallOK, Calls
    <2>6. UsersOK'
      <3>1. ASSUME NEW u \in DOMAIN users'
            PROVE  users'[u] \in User /\ (users'[u].subject # Unset => <<users'[u].subject, users'[u].email>> \in Profiles)
        <4>1. users[u] \in User /\ (users[u].subject # Unset => <<users[u].subject, users[u].email>> \in Profiles)
          BY <2>4 DEF AccountsTypeOK, UsersOK
        <4>2. CASE u = call[b].user
          <5>1. users'[u] = [users[u] EXCEPT !.subject = call[b].subject]
            BY <1>4, <4>2, LinksRow, Zenon
          <5>2. call[b].subject \in Subjects \cup {Unset}
            BY <1>1 DEF CallOK, Calls
          <5> QED BY <1>1, <4>1, <4>2, <5>1, <5>2 DEF User
        <4>3. CASE u # call[b].user
          <5>1. users'[u] = users[u]
            BY <1>4, <2>4, <4>3, LinksRow
          <5> QED BY <4>1, <5>1
        <4> QED BY <4>2, <4>3
      <3>2. DOMAIN users' \subseteq Issued'
        BY <2>3, <2>4 DEF AccountsTypeOK, UsersOK
      <3> QED BY <3>1, <3>2 DEF UsersOK, User
    <2>7. \A u \in DOMAIN users : users'[u].email = users[u].email
      BY <1>4, LinksRow, Zenon
    <2> QED BY <1>2, <2>1, <2>3, <2>4, <2>5, <2>6, <2>7, TypeUsers
  <1> QED BY <1>3, <1>4

LEMMA TypeSessionExpires ==
  ASSUME AccountsTypeOK, NEW t \in DOMAIN sessions, SessionExpires(t)
  PROVE  AccountsTypeOK'
  <1>1. UNCHANGED <<users, bookmarks, call, cookie, nextToken, proof>>
    BY DEF SessionExpires
  <1>2. Issued' = Issued /\ UsersOK' /\ CallsOK'
    BY <1>1 DEF AccountsTypeOK, Issued, UsersOK, CallsOK, CallOK, Calls
  <1>3. SessionsOK'
    BY <1>1, <1>2 DEF SessionExpires, AccountsTypeOK, SessionsOK
  <1> QED BY <1>1, <1>2, <1>3 DEF AccountsTypeOK

LEMMA TypeInit == AccountsInit => AccountsTypeOK
  <1> SUFFICES ASSUME AccountsInit PROVE AccountsTypeOK
    OBVIOUS
  <1>1. nextToken \in Nat \ {0} /\ CallOK(NoCall)
    BY NoCallOK DEF AccountsInit
  <1>2. UsersOK /\ SessionsOK
    BY DEF AccountsInit, UsersOK, SessionsOK
  <1>3. CallsOK
    BY <1>1 DEF AccountsInit, CallsOK
  <1> QED BY <1>1, <1>2, <1>3 DEF AccountsInit, AccountsTypeOK

LEMMA TypeStutters == AccountsTypeOK /\ UNCHANGED accountVars => AccountsTypeOK'
  <1> SUFFICES ASSUME AccountsTypeOK, UNCHANGED accountVars PROVE AccountsTypeOK'
    OBVIOUS
  <1>1. UNCHANGED <<users, sessions, bookmarks, call, cookie, nextToken, proof>>
    BY DEF accountVars
  <1>2. Issued' = Issued /\ UsersOK' /\ CallsOK' /\ SessionsOK'
    BY <1>1 DEF AccountsTypeOK, Issued, UsersOK, CallsOK, CallOK, Calls, SessionsOK
  <1> QED BY <1>1, <1>2 DEF AccountsTypeOK

LEMMA TypeNext == AccountsTypeOK /\ [AccountsNext]_accountVars => AccountsTypeOK'
  <1> SUFFICES ASSUME AccountsTypeOK, AccountsNext PROVE AccountsTypeOK'
    BY TypeStutters
  <1>1. ASSUME NEW b \in Browsers, Sends(b) \/ Handles(b) \/ HandlerDies(b) PROVE AccountsTypeOK'
    BY <1>1, TypeSends, TypeReads, TypeInsertUser, TypeLinkUser, TypeStartSession, TypeEnds, Zenon DEF Handles
  <1>2. ASSUME NEW t \in DOMAIN sessions, SessionExpires(t) PROVE AccountsTypeOK'
    BY <1>2, TypeSessionExpires
  <1> QED BY <1>1, <1>2 DEF AccountsNext

(* What each handler relies on when it has come to a statement is still    *)
(* so: the account it found has not gone, a session belongs to an account, *)
(* and an identity that is linked was vouched for with its address.        *)
THEOREM AccountsTypeCorrect == AccountsSpec => []AccountsTypeOK
  BY TypeInit, TypeNext, PTL DEF AccountsSpec

-----------------------------------------------------------------------------
(* One account for an address and for an identity. *)

(* Only two handlers write app_user. *)
LEMMA WhoWritesUsers ==
  ASSUME [AccountsNext]_accountVars
  PROVE  \/ UNCHANGED users
         \/ \E b \in Browsers : InsertUser(b) /\ ~Taken(nextToken, call[b].email, call[b].subject)
         \/ \E b \in Browsers : LinkUser(b) /\ ~Taken(call[b].user, users[call[b].user].email, call[b].subject)
  <1>1. CASE UNCHANGED accountVars
    BY <1>1 DEF accountVars
  <1>2. ASSUME NEW b \in Browsers, Sends(b) PROVE UNCHANGED users
    BY <1>2 DEF Sends, SendRegister, SendLogin, SendGoogle, SendLogout, SendBookmark, Request, tables
  <1>3. ASSUME NEW b \in Browsers, Handles(b), ~InsertUser(b), ~LinkUser(b) PROVE UNCHANGED users
    BY <1>3 DEF Handles, RegisterLooksUp, VerifyPassword, GoogleBySubject, GoogleByEmail, StartSession,
                FindSession, DeleteOld, AddSavedWork, RemoveSavedWork, Logout, tables
  <1>4. ASSUME NEW b \in Browsers, HandlerDies(b) PROVE UNCHANGED users
    BY <1>4 DEF HandlerDies, tables
  <1>5. ASSUME NEW t \in DOMAIN sessions, SessionExpires(t) PROVE UNCHANGED users
    BY <1>5 DEF SessionExpires
  <1>6. ASSUME NEW b \in Browsers, InsertUser(b), Taken(nextToken, call[b].email, call[b].subject)
        PROVE  UNCHANGED users
    BY <1>6 DEF InsertUser
  <1>7. ASSUME NEW b \in Browsers, LinkUser(b), Taken(call[b].user, users[call[b].user].email, call[b].subject)
        PROVE  UNCHANGED users
    BY <1>7 DEF LinkUser
  <1> QED BY <1>1, <1>2, <1>3, <1>4, <1>5, <1>6, <1>7, Zenon DEF AccountsNext

LEMMA OneAccountNext ==
  ASSUME AccountsTypeOK, OneAccountEach, [AccountsNext]_accountVars
  PROVE  OneAccountEach'
  <1>1. CASE UNCHANGED users
    BY <1>1 DEF OneAccountEach
  <1>2. ASSUME NEW b \in Browsers, InsertUser(b), ~Taken(nextToken, call[b].email, call[b].subject)
        PROVE  OneAccountEach'
    <2>1. /\ DOMAIN users' = DOMAIN users \cup {nextToken} /\ nextToken \notin DOMAIN users
          /\ users'[nextToken].email = call[b].email /\ users'[nextToken].subject = call[b].subject
          /\ \A u \in DOMAIN users : users'[u] = users[u]
      <3>1. users'[nextToken] = [email |-> call[b].email, password |-> call[b].password,
                                 subject |-> call[b].subject]
        BY <1>2, InsertsRow, Zenon
      <3>2. users'[nextToken].email = call[b].email /\ users'[nextToken].subject = call[b].subject
        BY <3>1
      <3> QED BY <1>2, <3>2, InsertsRow, Zenon
    <2>2. ASSUME NEW u \in DOMAIN users
          PROVE  /\ users[u].email # call[b].email
                 /\ call[b].subject # Unset => users[u].subject # call[b].subject
      BY <1>2, <2>1 DEF Taken, Owner, Linked
    <2> QED BY <2>1, <2>2 DEF OneAccountEach
  <1>3. ASSUME NEW b \in Browsers, LinkUser(b),
               ~Taken(call[b].user, users[call[b].user].email, call[b].subject)
        PROVE  OneAccountEach'
    <2> DEFINE me == call[b].user
    <2>1. /\ me \in DOMAIN users /\ DOMAIN users' = DOMAIN users
          /\ \A u \in DOMAIN users \ {me} : users'[u] = users[u]
          /\ users'[me].email = users[me].email /\ users'[me].subject = call[b].subject
      BY <1>3, LinksRow, Zenon
    <2>2. ASSUME NEW u \in DOMAIN users, u # me
          PROVE  /\ users[u].email # users[me].email
                 /\ call[b].subject # Unset => users[u].subject # call[b].subject
      BY <1>3, <2>2 DEF Taken, Owner, Linked
    <2> HIDE DEF me
    <2> QED BY <2>1, <2>2 DEF OneAccountEach
  <1> QED BY <1>1, <1>2, <1>3, WhoWritesUsers

(* However registrations and Google sign-ins interleave, two accounts      *)
(* share neither an address nor a Google identity: what the stale look-ups *)
(* of AuthService let through, the unique keys of app_user refuse.         *)
THEOREM AccountsAreOneEach == AccountsSpec => []OneAccountEach
  <1>1. AccountsInit => OneAccountEach
    BY DEF AccountsInit, OneAccountEach
  <1>2. AccountsTypeOK /\ OneAccountEach /\ [AccountsNext]_accountVars => OneAccountEach'
    BY OneAccountNext
  <1> QED BY <1>1, <1>2, AccountsTypeCorrect, PTL DEF AccountsSpec

-----------------------------------------------------------------------------
(* Signing out. *)

LEMMA SignOutsLast ==
  ASSUME AccountsTypeOK, [AccountsNext]_accountVars, NEW t \in 1..(nextToken - 1)
  PROVE  /\ t \notin DOMAIN sessions => t \notin DOMAIN sessions'
         /\ t \in DOMAIN sessions \cap DOMAIN sessions' =>
              /\ sessions'[t].user = sessions[t].user
              /\ sessions[t].old => sessions'[t].old
  <1>1. CASE UNCHANGED sessions
    BY <1>1
  <1>2. ASSUME NEW b \in Browsers, StartSession(b)
        PROVE  /\ DOMAIN sessions' = DOMAIN sessions \cup {nextToken}
               /\ \A s \in DOMAIN sessions \ {nextToken} : sessions'[s] = sessions[s]
    <2> DEFINE row == [user |-> call[b].user, old |-> FALSE]
    <2>1. sessions' = With(sessions, nextToken, row)
      BY <1>2 DEF StartSession
    <2> HIDE DEF row
    <2> QED BY <2>1 DEF With
  <1>3. t # nextToken
    BY NextIsNew DEF AccountsTypeOK, Issued
  <1>4. ASSUME NEW b \in Browsers, DeleteOld(b) \/ Logout(b)
        PROVE  DOMAIN sessions' \subseteq DOMAIN sessions /\ \A s \in DOMAIN sessions' : sessions'[s] = sessions[s]
    BY <1>4 DEF DeleteOld, Logout, Without
  <1>5. \/ UNCHANGED sessions
        \/ \E b \in Browsers : StartSession(b) \/ DeleteOld(b) \/ Logout(b)
        \/ \E s \in DOMAIN sessions : SessionExpires(s)
    <2>1. CASE UNCHANGED accountVars
      BY <2>1 DEF accountVars
    <2>2. ASSUME NEW b \in Browsers, Sends(b) \/ HandlerDies(b) PROVE UNCHANGED sessions
      BY <2>2 DEF Sends, SendRegister, SendLogin, SendGoogle, SendLogout, SendBookmark, Request, HandlerDies, tables
    <2>3. ASSUME NEW b \in Browsers, Handles(b), ~StartSession(b), ~DeleteOld(b), ~Logout(b)
          PROVE  UNCHANGED sessions
      BY <2>3 DEF Handles, RegisterLooksUp, VerifyPassword, GoogleBySubject, GoogleByEmail, InsertUser, LinkUser,
                  FindSession, AddSavedWork, RemoveSavedWork, tables
    <2> QED BY <2>1, <2>2, <2>3, Zenon DEF AccountsNext
  <1>6. ASSUME NEW b \in Browsers, StartSession(b) \/ DeleteOld(b) \/ Logout(b)
        PROVE  /\ t \notin DOMAIN sessions => t \notin DOMAIN sessions'
               /\ t \in DOMAIN sessions \cap DOMAIN sessions' => sessions'[t] = sessions[t]
    BY <1>2, <1>3, <1>4, <1>6
  <1>7. CASE \E b \in Browsers : StartSession(b) \/ DeleteOld(b) \/ Logout(b)
    BY <1>6, <1>7
  <1>8. ASSUME NEW s \in DOMAIN sessions, SessionExpires(s)
        PROVE  /\ t \notin DOMAIN sessions => t \notin DOMAIN sessions'
               /\ t \in DOMAIN sessions \cap DOMAIN sessions' =>
                    /\ sessions'[t].user = sessions[t].user
                    /\ sessions[t].old => sessions'[t].old
    <2>1. \A r \in DOMAIN sessions : sessions[r] \in [user : DOMAIN users, old : BOOLEAN]
      BY DEF AccountsTypeOK, SessionsOK
    <2>2. sessions' = [sessions EXCEPT ![s].old = TRUE]
      BY <1>8 DEF SessionExpires
    <2> QED BY <2>1, <2>2
  <1> QED BY <1>1, <1>5, <1>7, <1>8, Zenon

(* A token whose row is gone never becomes valid again, and a session that *)
(* has expired is not revived nor given to another account, by no call of  *)
(* AuthService.                                                            *)
THEOREM SignOutIsForGood == AccountsSpec => SignedOutForGood
  <1>1. AccountsTypeOK /\ [AccountsNext]_accountVars =>
          [\A t \in 1..(nextToken - 1) :
             /\ t \notin DOMAIN sessions => t \notin DOMAIN sessions'
             /\ t \in DOMAIN sessions \cap DOMAIN sessions' =>
                  /\ sessions'[t].user = sessions[t].user
                  /\ sessions[t].old => sessions'[t].old]_accountVars
    BY SignOutsLast
  <1> QED BY <1>1, AccountsTypeCorrect, PTL DEF AccountsSpec, SignedOutForGood

-----------------------------------------------------------------------------
(* The account behind a session. *)

(* No step takes a way in away: an account stays, with its password, and   *)
(* linking cannot replace one identity by another, both vouched for with   *)
(* its address.                                                            *)
LEMMA WaysInStay ==
  ASSUME OneIdentityPerAddress, AccountsTypeOK, [AccountsNext]_accountVars,
         NEW u \in DOMAIN users, NEW given \in Credentials, Opens(given, users[u])
  PROVE  u \in DOMAIN users' /\ Opens(given, users'[u])
  <1>1. CASE UNCHANGED users
    BY <1>1
  <1>2. ASSUME NEW b \in Browsers, InsertUser(b), ~Taken(nextToken, call[b].email, call[b].subject)
        PROVE  u \in DOMAIN users' /\ users'[u] = users[u]
    BY <1>2, InsertsRow, Zenon
  <1>3. ASSUME NEW b \in Browsers, LinkUser(b),
               ~Taken(call[b].user, users[call[b].user].email, call[b].subject)
        PROVE  u \in DOMAIN users' /\ Opens(given, users'[u])
    <2>1. /\ DOMAIN users' = DOMAIN users
          /\ users'[u].email = users[u].email /\ users'[u].password = users[u].password
          /\ u # call[b].user => users'[u] = users[u]
          /\ u = call[b].user => users'[u].subject = call[b].subject
      BY <1>3, LinksRow, Zenon
    <2>2. CASE given[1] = "password"
      BY <2>1, <2>2 DEF Opens
    <2>3. CASE given[1] # "password" /\ u = call[b].user
      <3>1. given[2] \in Subjects /\ users[u].subject = given[2]
        BY <2>3 DEF Credentials, Opens
      <3>2. <<users[u].subject, users[u].email>> \in Profiles
        BY <3>1, ProfilesAssumption DEF AccountsTypeOK, UsersOK
      <3>3. <<call[b].subject, users[u].email>> \in Profiles
        BY <1>3, <2>3 DEF AccountsTypeOK, CallsOK, CallOK, LinkUser
      <3>4. call[b].subject = users[u].subject
        BY <3>2, <3>3 DEF OneIdentityPerAddress
      <3> QED BY <2>1, <2>3, <3>1, <3>4 DEF Opens
    <2>4. CASE given[1] # "password" /\ u # call[b].user
      BY <2>1, <2>4
    <2> QED BY <2>1, <2>2, <2>3, <2>4
  <1> QED BY <1>1, <1>2, <1>3, WhoWritesUsers

(* A handler that comes to startSession has found, made or linked an       *)
(* account that the credential of its request opens.                       *)
LEMMA FoundOpens ==
  ASSUME AccountsTypeOK, NEW b \in Browsers, Handles(b), call'[b].pc = "startSession",
         call[b].pc # "startSession"
  PROVE  Opens(Credential(b)', users'[call'[b].user])
  <1>1. CallOK(call[b])
    BY DEF AccountsTypeOK, CallsOK
  <1>2. CASE VerifyPassword(b)
    <2> DEFINE fit == {u \in Owner(call[b].email) : users[u].password = call[b].password}
    <2>1. fit # {}
      BY <1>2 DEF VerifyPassword, End, AccountsTypeOK, CallsOK, NoCall
    <2>2. call' = [call EXCEPT ![b].pc = "startSession", ![b].user = The(fit)] /\ UNCHANGED users
      BY <1>2, <2>1 DEF VerifyPassword, tables
    <2>3. The(fit) \in fit
      BY <2>1, TheIsIn
    <2>4. users[The(fit)].email = call[b].email /\ users[The(fit)].password = call[b].password
      BY <2>3 DEF Owner
    <2>5. call[b].kind = "login"
      BY <1>1, <1>2 DEF CallOK, VerifyPassword
    <2>6. /\ call'[b].kind = "login" /\ call'[b].email = call[b].email
          /\ call'[b].password = call[b].password /\ call'[b].user = The(fit)
      BY <1>1, <2>2, <2>5 DEF AccountsTypeOK, CallsOK, CallOK, Calls
    <2> HIDE DEF fit
    <2> QED BY <2>2, <2>4, <2>6 DEF Opens, Credential
  <1>3. CASE GoogleBySubject(b)
    <2> DEFINE known == Linked(call[b].subject)
    <2>0. call[b].kind = "google"
      BY <1>1, <1>3 DEF CallOK, GoogleBySubject
    <2>1. known # {}
      BY <1>1, <1>3 DEF GoogleBySubject, AccountsTypeOK, CallsOK, CallOK, Calls
    <2>2. call' = [call EXCEPT ![b].pc = "startSession", ![b].user = The(known)] /\ UNCHANGED users
      BY <1>3, <2>1 DEF GoogleBySubject, tables
    <2>3. users[The(known)].subject = call[b].subject
      BY <2>1, TheIsIn, OwnersAreUsers
    <2>4. call'[b].kind = "google" /\ call'[b].subject = call[b].subject /\ call'[b].user = The(known)
      BY <1>1, <2>0, <2>2 DEF AccountsTypeOK, CallsOK, CallOK, Calls
    <2> HIDE DEF known
    <2> QED BY <2>2, <2>3, <2>4 DEF Opens, Credential
  <1>4. CASE InsertUser(b)
    <2>0. call[b].kind \in {"register", "google"}
      BY <1>1, <1>4 DEF CallOK, InsertUser
    <2>1. ~Taken(nextToken, call[b].email, call[b].subject)
      <3>1. CASE Taken(nextToken, call[b].email, call[b].subject)
        BY <1>4, <3>1 DEF InsertUser, End, AccountsTypeOK, CallsOK, NoCall
      <3> QED BY <3>1
    <2>2. call' = [call EXCEPT ![b].pc = "startSession", ![b].user = nextToken]
      BY <1>4, <2>1 DEF InsertUser
    <2>3. users'[nextToken] = [email |-> call[b].email, password |-> call[b].password,
                               subject |-> call[b].subject]
      BY <1>4, <2>1, InsertsRow, Zenon
    <2>4. /\ call'[b].kind = call[b].kind /\ call'[b].email = call[b].email /\ call'[b].user = nextToken
          /\ call'[b].password = call[b].password /\ call'[b].subject = call[b].subject
      BY <1>1, <2>2 DEF AccountsTypeOK, CallsOK, CallOK, Calls
    <2> QED BY <2>0, <2>3, <2>4 DEF Opens, Credential
  <1>5. CASE LinkUser(b)
    <2>0. call[b].kind = "google"
      BY <1>1, <1>5 DEF CallOK, LinkUser
    <2> DEFINE taken == Taken(call[b].user, users[call[b].user].email, call[b].subject)
    <2>1. ~taken
      <3>1. CASE taken
        BY <1>5, <3>1 DEF LinkUser, End, AccountsTypeOK, CallsOK, NoCall
      <3> QED BY <3>1
    <2>2. call' = [call EXCEPT ![b].pc = "startSession"]
      BY <1>5, <2>1 DEF LinkUser, Goto
    <2>3. users'[call[b].user].subject = call[b].subject
      BY <1>5, <2>1, LinksRow, Zenon
    <2>4. call'[b].kind = "google" /\ call'[b].subject = call[b].subject /\ call'[b].user = call[b].user
      BY <1>1, <2>0, <2>2 DEF AccountsTypeOK, CallsOK, CallOK, Calls
    <2> QED BY <2>3, <2>4 DEF Opens, Credential
  <1>6. CASE \/ RegisterLooksUp(b) \/ GoogleByEmail(b) \/ StartSession(b) \/ FindSession(b)
             \/ DeleteOld(b) \/ AddSavedWork(b) \/ RemoveSavedWork(b) \/ Logout(b)
    <2>1. CASE End(b)
      BY <2>1 DEF End, AccountsTypeOK, CallsOK, NoCall
    <2>2. CASE RegisterLooksUp(b) /\ ~End(b)
      BY <1>1, <2>2 DEF RegisterLooksUp, Goto, AccountsTypeOK, CallsOK, CallOK, Calls
    <2>3. CASE GoogleByEmail(b)
      BY <1>1, <2>3 DEF GoogleByEmail, AccountsTypeOK, CallsOK, CallOK, Calls
    <2>4. CASE FindSession(b) /\ ~End(b)
      BY <1>1, <2>4 DEF FindSession, Goto, AccountsTypeOK, CallsOK, CallOK, Calls
    <2> QED BY <1>6, <2>1, <2>2, <2>3, <2>4 DEF StartSession, DeleteOld, AddSavedWork, RemoveSavedWork, Logout
  <1> QED BY <1>2, <1>3, <1>4, <1>5, <1>6 DEF Handles

LEMMA OthersWait ==
  ASSUME AccountsTypeOK, NEW b \in Browsers, Sends(b) \/ Handles(b) \/ HandlerDies(b),
         NEW d \in Browsers, d # b
  PROVE  call'[d] = call[d]
  <1>1. CASE Sends(b)
    BY <1>1 DEF Sends, SendRegister, SendLogin, SendGoogle, SendLogout, SendBookmark, Request, AccountsTypeOK, CallsOK
  <1>2. CASE HandlerDies(b)
    BY <1>2 DEF HandlerDies, End, AccountsTypeOK, CallsOK
  <1>3. CASE Handles(b)
    BY <1>3 DEF Handles, RegisterLooksUp, VerifyPassword, GoogleBySubject, GoogleByEmail, InsertUser, LinkUser,
                StartSession, FindSession, DeleteOld, AddSavedWork, RemoveSavedWork, Logout, Goto, End,
                AccountsTypeOK, CallsOK
  <1> QED BY <1>1, <1>2, <1>3

LEMMA RequestsGiveNothing ==
  ASSUME AccountsTypeOK, NEW b \in Browsers, Sends(b) \/ HandlerDies(b)
  PROVE  call'[b].pc # "startSession"
  <1>1. CASE Sends(b)
    <2>2. ASSUME NEW e \in Emails, NEW p \in Passwords, SendRegister(b, e, p) \/ SendLogin(b, e, p)
          PROVE  call'[b].pc # "startSession"
      BY <2>2 DEF SendRegister, SendLogin, Request, NoCall, AccountsTypeOK, CallsOK
    <2>3. ASSUME NEW p \in Profiles, SendGoogle(b, p[1], p[2])
          PROVE  call'[b].pc # "startSession"
      BY <2>3 DEF SendGoogle, Request, NoCall, AccountsTypeOK, CallsOK
    <2>4. CASE SendLogout(b)
      BY <2>4 DEF SendLogout, Request, NoCall, AccountsTypeOK, CallsOK
    <2>5. ASSUME NEW w \in SavedWorks, NEW kind \in {"add", "remove"}, SendBookmark(b, kind, w)
          PROVE  call'[b].pc # "startSession"
      BY <2>5 DEF SendBookmark, Request, NoCall, AccountsTypeOK, CallsOK
    <2> QED BY <1>1, <2>2, <2>3, <2>4, <2>5 DEF Sends
  <1>2. CASE HandlerDies(b)
    BY <1>2 DEF HandlerDies, End, AccountsTypeOK, CallsOK, NoCall
  <1> QED BY <1>1, <1>2

(* The call that is about to be given a session: the same as before, or    *)
(* one whose account has just been found.                                  *)
LEMMA CredentialsNext ==
  ASSUME OneIdentityPerAddress, AccountsTypeOK, CredentialsOpen, [AccountsNext]_accountVars
  PROVE  CredentialsOpen'
  <1>1. ASSUME NEW d \in Browsers, call'[d].pc = "startSession", call'[d] = call[d]
        PROVE  Opens(Credential(d)', users'[call'[d].user])
    <2>1. CallOK(call[d]) /\ call[d].user \in DOMAIN users /\ call[d].pc = "startSession"
      BY <1>1 DEF AccountsTypeOK, CallsOK, CallOK
    <2>2. Credential(d) \in Credentials /\ Credential(d)' = Credential(d)
      BY <1>1, <2>1 DEF CallOK, Credential, Credentials, Subjects
    <2>3. Opens(Credential(d), users[call[d].user])
      BY <2>1 DEF CredentialsOpen
    <2>4. Opens(Credential(d), users'[call[d].user])
      BY <2>1, <2>2, <2>3, WaysInStay
    <2> QED BY <1>1, <2>2, <2>4
  <1>2. ASSUME NEW b \in Browsers, Handles(b), call'[b].pc = "startSession", call[b].pc = "startSession"
        PROVE  FALSE
    BY <1>2 DEF Handles, RegisterLooksUp, VerifyPassword, GoogleBySubject, GoogleByEmail, InsertUser, LinkUser,
                StartSession, FindSession, DeleteOld, AddSavedWork, RemoveSavedWork, Logout, End, NoCall,
                AccountsTypeOK, CallsOK
  <1>3. ASSUME NEW b \in Browsers, Sends(b) \/ Handles(b) \/ HandlerDies(b),
               NEW d \in Browsers, call'[d].pc = "startSession"
        PROVE  Opens(Credential(d)', users'[call'[d].user])
    <2>1. CASE d # b
      BY <1>1, <1>3, <2>1, OthersWait
    <2>2. CASE d = b
      BY <1>2, <1>3, <2>2, FoundOpens, RequestsGiveNothing
    <2> QED BY <2>1, <2>2
  <1>4. CASE UNCHANGED call
    BY <1>1, <1>4 DEF CredentialsOpen
  <1>5. ASSUME NEW b \in Browsers, Sends(b) \/ Handles(b) \/ HandlerDies(b) PROVE CredentialsOpen'
    BY <1>3, <1>5 DEF CredentialsOpen
  <1>6. UNCHANGED call \/ \E b \in Browsers : Sends(b) \/ Handles(b) \/ HandlerDies(b)
    BY DEF AccountsNext, accountVars, SessionExpires
  <1> QED BY <1>4, <1>5, <1>6

LEMMA WhoWritesSessions ==
  ASSUME [AccountsNext]_accountVars
  PROVE  \/ UNCHANGED <<sessions, proof>>
         \/ \E b \in Browsers : StartSession(b)
         \/ /\ UNCHANGED proof
            /\ \/ \E b \in Browsers : sessions' = Without(sessions, call[b].token)
               \/ \E t \in DOMAIN sessions : sessions' = [sessions EXCEPT ![t].old = TRUE]
  <1>1. CASE UNCHANGED accountVars
    BY <1>1 DEF accountVars
  <1>2. ASSUME NEW b \in Browsers, Sends(b) \/ HandlerDies(b) PROVE UNCHANGED <<sessions, proof>>
    BY <1>2 DEF Sends, SendRegister, SendLogin, SendGoogle, SendLogout, SendBookmark, Request, HandlerDies, tables
  <1>3. ASSUME NEW b \in Browsers, Handles(b), ~StartSession(b), ~DeleteOld(b), ~Logout(b)
        PROVE  UNCHANGED <<sessions, proof>>
    BY <1>3 DEF Handles, RegisterLooksUp, VerifyPassword, GoogleBySubject, GoogleByEmail, InsertUser, LinkUser,
                FindSession, AddSavedWork, RemoveSavedWork, tables
  <1>4. ASSUME NEW b \in Browsers, DeleteOld(b) \/ Logout(b)
        PROVE  UNCHANGED proof /\ sessions' = Without(sessions, call[b].token)
    BY <1>4 DEF DeleteOld, Logout
  <1>5. ASSUME NEW t \in DOMAIN sessions, SessionExpires(t)
        PROVE  UNCHANGED proof /\ sessions' = [sessions EXCEPT ![t].old = TRUE]
    BY <1>5 DEF SessionExpires
  <1> QED BY <1>1, <1>2, <1>3, <1>4, <1>5, Zenon DEF AccountsNext

LEMMA SessionsNext ==
  ASSUME OneIdentityPerAddress, AccountsTypeOK, SessionOpensOwnAccount, CredentialsOpen,
         [AccountsNext]_accountVars
  PROVE  SessionOpensOwnAccount'
  <1>1. ASSUME NEW t \in DOMAIN sessions, sessions'[t].user = sessions[t].user, proof'[t] = proof[t]
        PROVE  Opens(proof'[t], users'[sessions'[t].user])
    <2>1. sessions[t].user \in DOMAIN users /\ proof[t] \in Credentials
      BY DEF AccountsTypeOK, SessionsOK
    <2>2. Opens(proof[t], users[sessions[t].user])
      BY DEF SessionOpensOwnAccount
    <2> QED BY <1>1, <2>1, <2>2, WaysInStay
  <1>2. CASE UNCHANGED <<sessions, proof>>
    BY <1>1, <1>2 DEF SessionOpensOwnAccount
  <1>3. ASSUME NEW b \in Browsers, StartSession(b) PROVE SessionOpensOwnAccount'
    <2> DEFINE row == [user |-> call[b].user, old |-> FALSE]
    <2>1. /\ sessions' = With(sessions, nextToken, row) /\ proof' = With(proof, nextToken, Credential(b))
          /\ UNCHANGED users /\ call[b].pc = "startSession"
      BY <1>3 DEF StartSession
    <2>2. nextToken \notin DOMAIN sessions
      BY NextIsNew DEF AccountsTypeOK, SessionsOK
    <2>3. proof'[nextToken] = Credential(b)
      BY <2>1 DEF With
    <2>4. /\ DOMAIN sessions' = DOMAIN sessions \cup {nextToken} /\ sessions'[nextToken] = row
          /\ \A t \in DOMAIN sessions : sessions'[t] = sessions[t]
      <3> HIDE DEF row
      <3> QED BY <2>1, <2>2 DEF With
    <2>5. \A t \in DOMAIN sessions : proof'[t] = proof[t]
      BY <2>1, <2>2 DEF With, AccountsTypeOK, SessionsOK
    <2>6. Opens(proof'[nextToken], users'[sessions'[nextToken].user])
      BY <2>1, <2>3, <2>4 DEF CredentialsOpen
    <2> QED BY <1>1, <2>4, <2>5, <2>6 DEF SessionOpensOwnAccount
  <1>4. ASSUME UNCHANGED proof, NEW b \in Browsers, sessions' = Without(sessions, call[b].token)
        PROVE  SessionOpensOwnAccount'
    <2>1. DOMAIN sessions' \subseteq DOMAIN sessions /\ \A t \in DOMAIN sessions' : sessions'[t] = sessions[t]
      BY <1>4 DEF Without
    <2> QED BY <1>1, <1>4, <2>1 DEF SessionOpensOwnAccount
  <1>5. ASSUME UNCHANGED proof, NEW t \in DOMAIN sessions, sessions' = [sessions EXCEPT ![t].old = TRUE]
        PROVE  SessionOpensOwnAccount'
    <2>1. \A r \in DOMAIN sessions : sessions[r] \in [user : DOMAIN users, old : BOOLEAN]
      BY DEF AccountsTypeOK, SessionsOK
    <2>2. DOMAIN sessions' = DOMAIN sessions /\ \A r \in DOMAIN sessions : sessions'[r].user = sessions[r].user
      BY <1>5, <2>1
    <2> QED BY <1>1, <1>5, <2>2 DEF SessionOpensOwnAccount
  <1> QED BY <1>2, <1>3, <1>4, <1>5, WhoWritesSessions

(* A session leads to the account whose password or Google identity it was *)
(* given for, and that way in still opens it, however the calls of         *)
(* AuthService interleave and fail: as long as Google vouches for an       *)
(* address on behalf of one identity.  (Were an address to pass from one   *)
(* Google identity to another, withGoogleSubject would put the new one in  *)
(* the place of the old, whose sessions stay.)                             *)
THEOREM SessionsOpenOwnAccounts ==
  ASSUME OneIdentityPerAddress
  PROVE  AccountsSpec => []SessionOpensOwnAccount
  <1>1. AccountsInit => SessionOpensOwnAccount /\ CredentialsOpen
    BY DEF AccountsInit, SessionOpensOwnAccount, CredentialsOpen, NoCall
  <1>2. /\ AccountsTypeOK /\ SessionOpensOwnAccount /\ CredentialsOpen /\ [AccountsNext]_accountVars
        => SessionOpensOwnAccount' /\ CredentialsOpen'
    BY SessionsNext, CredentialsNext
  <1> QED BY <1>1, <1>2, AccountsTypeCorrect, PTL DEF AccountsSpec
=============================================================================

------------------------------ MODULE Library ------------------------------
(***************************************************************************)
(* The e-book reader in one browser tab: BookReader.tsx over               *)
(* packages/reader's library.ts and progress.ts.  What is known of a book  *)
(* is one record, held in three places: the `books` store of IndexedDB,    *)
(* a ref that page turns merge into, and the state React rendered.  The    *)
(* bytes of a kept book are in a second store.  Requests to a store are    *)
(* answered in order, the two stores independently; each answer runs the   *)
(* rest of the function that awaited it.                                   *)
(***************************************************************************)
EXTENDS Naturals, Sequences, FiniteSets

CONSTANTS
  Books,        \* files, by content hash
  Places,       \* locators a page can be bookmarked or resumed at
  Patient,      \* the reader touches nothing while a book opens, goes or is kept
  ReadsFail,    \* IndexedDB may refuse to be read
  MaxClicks,    \* bound: what the reader does
  MaxPending,   \* bound: requests waiting in one store
  MaxRefusals,  \* bound: requests the browser refuses
  MaxReloads    \* bound: how often the page is reloaded

ASSUME ReaderAssumption == /\ Patient \in BOOLEAN /\ ReadsFail \in BOOLEAN
                           /\ {MaxClicks, MaxPending, MaxRefusals, MaxReloads} \subseteq Nat

VARIABLES
  books,      \* the object store `books`: a record or None, by hash
  files,      \* the keys of the object store `files`
  queue,      \* requests to each store, not yet answered
  opening,    \* files being acquired, opened or painted
  state,      \* React's state, as rendered
  recordRef,  \* recordRef.current
  view,       \* the book in the <foliate-view>
  here,       \* hereRef.current: the page on screen
  clicks, refusals, reloads,
  told,       \* (observer) bookmarks the reader was told are stored
  torn,       \* (observer) books whose keeping or removal ended half-way
  toggled     \* (observer) the checkbox was used since the book was opened

tab == <<opening, state, recordRef, view, here>>
observers == <<told, torn, toggled>>
bounds == <<clicks, refusals, reloads>>
vars == <<books, files, queue, tab, bounds, observers>>

None == [hash |-> "none"]
Start == "start"   \* no locator yet: the beginning of the book
Marks == {"none", "bare", "noted"}
Stores == {"books", "files"}
NoMarks == [p \in Places |-> "none"]
Records == [hash : Books, place : Places \cup {Start}, marks : [Places -> Marks], keep : BOOLEAN]
States == [kind : {"idle", "opening", "open", "failed"}, record : Records \cup {None}]

ReaderTypeOK ==
  /\ books \in [Books -> Records \cup {None}]
  /\ \A b \in Books : books[b] # None => books[b].hash = b
  /\ files \subseteq Books
  /\ state \in States /\ (state.kind = "open" <=> state.record # None)
  /\ recordRef \in Records \cup {None}
  /\ view \in Books \cup {"none"} /\ here \in Places \cup {Start}
  /\ \A s \in Stores : Len(queue[s]) <= MaxPending

(* progress.ts: how a record changes. *)
NewRecord(b) == [hash |-> b, place |-> Start, marks |-> NoMarks, keep |-> FALSE]
(* Mutant: what does not count as moving. *)
WithFirstPosition(r, p) == IF r.place = Start THEN [r EXCEPT !.place = p] ELSE r

WithPosition(r, p) == [r EXCEPT !.place = p]
WithBookmark(r, p) == IF r.marks[p] # "none" THEN r ELSE [r EXCEPT !.marks[p] = "bare"]
WithBookmarkNote(r, p) == IF r.marks[p] = "none" THEN r ELSE [r EXCEPT !.marks[p] = "noted"]
(* Mutant: the list loses its entry, the record its shape. *)
WithoutEntry(r, p) == [r EXCEPT !.marks = [q \in Places \ {p} |-> r.marks[q]]]

WithoutBookmark(r, p) == [r EXCEPT !.marks[p] = "none"]

(* A request: what is asked, about which book, the record to write, the    *)
(* React state its caller captured, and the bookmark it is about.          *)
Ask(do, b) == [do |-> do, hash |-> b, record |-> None, was |-> [kind |-> "idle", record |-> None],
               want |-> FALSE, place |-> Start]
Send(s, req) == queue' = [queue EXCEPT ![s] = Append(@, req)]
Head1(s, do) == queue[s] # <<>> /\ Head(queue[s]).do = do
Answered(s) == queue' = [queue EXCEPT ![s] = Tail(@)]
AnsweredThen(s, s2, req) ==
  queue' = [[queue EXCEPT ![s] = Tail(@)] EXCEPT ![s2] = Append(@, req)]
Asked(s) == {queue[s][i] : i \in DOMAIN queue[s]}

(* An answer: granted, or refused by the browser, which every caller sees  *)
(* as FALSE or as nothing found.                                           *)
Outcome(ok) == \/ ok = TRUE /\ UNCHANGED refusals
               \/ ok = FALSE /\ refusals < MaxRefusals /\ refusals' = refusals + 1
ReadOutcome(ok) == Outcome(ok) /\ (ok \/ ReadsFail)

Init ==
  /\ books = [b \in Books |-> None] /\ files = {}
  /\ queue = [s \in Stores |-> <<>>] /\ opening = {}
  /\ state = [kind |-> "idle", record |-> None] /\ recordRef = None
  /\ view = "none" /\ here = Start
  /\ clicks = 0 /\ refusals = 0 /\ reloads = 0
  /\ told = [b \in Books |-> NoMarks] /\ torn = {} /\ toggled = FALSE

(***************************************************************************)
(* What the reader does.                                                   *)
(***************************************************************************)
Open == state.kind = "open"
Lengthy == {"keep", "forget", "readEntry", "flag", "dropFile", "drop", "readFile", "readBook",
            "remember"}
Busy == opening # {} \/ \E s \in Stores : \E req \in Asked(s) : req.do \in Lengthy
Click(s) ==
  /\ clicks < MaxClicks /\ clicks' = clicks + 1
  /\ Len(queue[s]) < MaxPending
  /\ Patient => ~Busy
  /\ UNCHANGED <<refusals, reloads>>

(* openFile and openUrl: picked or handed over, or dropped on an open book. *)
OpenFile(b) ==
  /\ Click("books")
  /\ Patient => queue["books"] = <<>>
  /\ state' = [kind |-> "opening", record |-> None]
  /\ opening' = opening \cup {[hash |-> b, stage |-> "acquire", known |-> None]}
  /\ UNCHANGED <<books, files, queue, recordRef, view, here, observers>>

(* openKept, from the list shown while no book is open. *)
OpenKept(b) ==
  /\ Click("files")
  /\ ~Open /\ books[b] # None /\ books[b].keep
  /\ state' = [kind |-> "opening", record |-> None]
  /\ Send("files", Ask("readFile", b))
  /\ UNCHANGED <<books, files, opening, recordRef, view, here, observers>>

(* Mutant: the page turn is merged into the rendered record. *)
TurnRenderedPage(p) ==
  /\ Open /\ view # "none" /\ here # p
  /\ Click("books")
  /\ here' = p
  /\ LET next == WithPosition(state.record, p) IN
       /\ recordRef' = next
       /\ Send("books", [Ask("save", next.hash) EXCEPT !.record = next])
  /\ UNCHANGED <<books, files, opening, state, view, observers>>

(* onRelocate: a page turn.  The listener is attached while a book is open *)
(* and saves what moved, without saying so.                                *)
TurnPage(p) ==
  /\ Open /\ view # "none" /\ here # p
  /\ Click("books")
  /\ here' = p
  /\ IF recordRef = None \/ recordRef = WithPosition(recordRef, p)
     THEN UNCHANGED <<recordRef, queue>>
     ELSE LET next == WithPosition(recordRef, p) IN
            /\ recordRef' = next
            /\ Send("books", [Ask("save", next.hash) EXCEPT !.record = next])
  /\ UNCHANGED <<books, files, opening, state, view, observers>>

(* The rest of persist for a bookmark: the ref at once, then the store.    *)
PersistMark(next, p) ==
  /\ recordRef' = next
  /\ Send("books", [Ask("mark", next.hash) EXCEPT !.record = next, !.was = state, !.place = p])
  /\ told' = [told EXCEPT ![next.hash][p] = "none"]
  /\ UNCHANGED <<books, files, opening, state, view, here, torn, toggled>>

AddBookmark ==
  /\ Open /\ here # Start /\ recordRef # None
  /\ Click("books")
  /\ PersistMark(WithBookmark(recordRef, here), here)

RemoveBookmark(p) ==
  /\ Open /\ recordRef # None /\ state.record.marks[p] # "none"
  /\ Click("books")
  /\ PersistMark(WithoutBookmark(recordRef, p), p)

NoteBookmark(p) ==
  /\ Open /\ recordRef # None /\ state.record.marks[p] = "bare"
  /\ WithBookmarkNote(recordRef, p) # recordRef
  /\ Click("books")
  /\ PersistMark(WithBookmarkNote(recordRef, p), p)

(* toggleKeepFile, up to its first await: keepBookFile or forgetBookFile.  *)
ToggleKeepFile ==
  /\ Open
  /\ Click("files")
  /\ Patient => queue["books"] = <<>>
  /\ LET keep == ~state.record.keep IN
       Send("files", [Ask(IF keep THEN "keep" ELSE "forget", state.record.hash)
                        EXCEPT !.was = state, !.want = keep])
  /\ toggled' = TRUE
  /\ UNCHANGED <<books, files, tab, told, torn>>

(* removeBook, from the list. *)
RemoveBook(b) ==
  /\ Click("files")
  /\ Patient => queue["books"] = <<>>
  /\ ~Open /\ books[b] # None
  /\ Send("files", Ask("dropFile", b))
  /\ told' = [told EXCEPT ![b] = NoMarks]
  /\ UNCHANGED <<books, files, tab, torn, toggled>>

(* The page is left or reloaded: what was not answered is not done.        *)
Reload ==
  /\ reloads < MaxReloads /\ reloads' = reloads + 1
  /\ queue' = [s \in Stores |-> <<>>] /\ opening' = {}
  /\ state' = [kind |-> "idle", record |-> None] /\ recordRef' = None
  /\ view' = "none" /\ here' = Start /\ toggled' = FALSE
  /\ torn' = torn \cup {req.hash : req \in {q \in Asked("files") \cup Asked("books") :
                           q.do \in {"keep", "forget", "readEntry", "flag", "dropFile", "drop"}}}
  /\ UNCHANGED <<books, files, clicks, refusals, told>>

(***************************************************************************)
(* Opening: render, with what precedes it.                                 *)
(***************************************************************************)
FailOpening(l) ==
  /\ opening' = opening \ {l}
  /\ state' = [kind |-> "failed", record |-> None]
  /\ UNCHANGED <<books, files, queue, recordRef, view, here, bounds, observers>>

(* acquireFromFile / Url / Stored and loadFoliate came through. *)
Acquired(l) ==
  /\ l.stage = "acquire" /\ Len(queue["books"]) < MaxPending
  /\ opening' = opening \ {l}
  /\ Send("books", Ask("readBook", l.hash))
  /\ UNCHANGED <<books, files, state, recordRef, view, here, bounds, observers>>

FileRead ==
  /\ Head1("files", "readFile")
  /\ LET b == Head(queue["files"]).hash IN
       \E ok \in BOOLEAN :
         /\ ReadOutcome(ok)
         /\ IF ok /\ b \in files
            THEN /\ opening' = opening \cup {[hash |-> b, stage |-> "acquire", known |-> None]}
                 /\ UNCHANGED state
            ELSE /\ state' = [kind |-> "failed", record |-> None]
                 /\ UNCHANGED opening
  /\ Answered("files")
  /\ UNCHANGED <<books, files, recordRef, view, here, clicks, reloads, observers>>

(* readBook: what this browser already knows about this file. *)
BookRead ==
  /\ Head1("books", "readBook")
  /\ LET b == Head(queue["books"]).hash IN
       \E ok \in BOOLEAN :
         /\ ReadOutcome(ok)
         /\ opening' = opening \cup
              {[hash |-> b, stage |-> "view", known |-> IF ok THEN books[b] ELSE None]}
  /\ Answered("books")
  /\ UNCHANGED <<books, files, state, recordRef, view, here, clicks, reloads, observers>>

(* view.open. *)
ViewOpened(l) ==
  /\ l.stage = "view"
  /\ opening' = (opening \ {l}) \cup {[l EXCEPT !.stage = "paint"]}
  /\ view' = l.hash
  /\ UNCHANGED <<books, files, queue, state, recordRef, here, bounds, observers>>

(* renderFirstPage, then rememberBook is asked. *)
FirstPage(l) ==
  /\ l.stage = "paint" /\ Len(queue["books"]) < MaxPending
  /\ opening' = opening \ {l}
  /\ Send("books", [Ask("remember", l.hash) EXCEPT
                      !.record = IF l.known = None THEN NewRecord(l.hash) ELSE l.known])
  /\ UNCHANGED <<books, files, state, recordRef, view, here, bounds, observers>>

(***************************************************************************)
(* The store `books` answers.                                              *)
(***************************************************************************)
Written(ok, req) ==
  books' = IF ok THEN [books EXCEPT ![req.hash] = req.record] ELSE books

Saved ==
  /\ Head1("books", "save")
  /\ \E ok \in BOOLEAN : Outcome(ok) /\ Written(ok, Head(queue["books"]))
  /\ Answered("books")
  /\ UNCHANGED <<files, tab, clicks, reloads, observers>>

(* The rest of addBookmark, removeBookmark and noteBookmark. *)
Marked ==
  /\ Head1("books", "mark")
  /\ LET req == Head(queue["books"])
         later == \E i \in DOMAIN Tail(queue["books"]) :
                    Tail(queue["books"])[i].do = "mark" /\ Tail(queue["books"])[i].place = req.place
     IN \E ok \in BOOLEAN :
          /\ Outcome(ok) /\ Written(ok, req)
          /\ state' = IF ok THEN [req.was EXCEPT !.record = req.record] ELSE state
          /\ told' = IF ok /\ ~later
                     THEN [told EXCEPT ![req.hash][req.place] = req.record.marks[req.place]]
                     ELSE told
  /\ Answered("books")
  /\ UNCHANGED <<files, opening, recordRef, view, here, clicks, reloads, torn, toggled>>

(* The rest of render: opened, whether or not the record could be stored. *)
Remembered ==
  /\ Head1("books", "remember")
  /\ LET req == Head(queue["books"]) IN
       /\ \E ok \in BOOLEAN : Outcome(ok) /\ Written(ok, req)
       /\ recordRef' = req.record
       /\ here' = req.record.place
       /\ state' = [kind |-> "open", record |-> req.record]
  /\ toggled' = FALSE
  /\ Answered("books")
  /\ UNCHANGED <<files, opening, view, clicks, reloads, told, torn>>

(***************************************************************************)
(* Keeping and forgetting the bytes, and removing a book.                  *)
(***************************************************************************)

(* Mutant: the box says what was clicked, not what storage did. *)
EndToggleAsClicked(req, stored) ==
  LET next == [req.was.record EXCEPT !.keep = req.want] IN
    /\ recordRef' = next
    /\ state' = [req.was EXCEPT !.record = next]
    /\ UNCHANGED <<opening, view, here>>

(* The rest of toggleKeepFile: the ref and the state become the record     *)
(* that was rendered when the box was clicked.                             *)
EndToggle(req, stored) ==
  LET next == [req.was.record EXCEPT !.keep = IF stored THEN req.want ELSE @] IN
    /\ recordRef' = next
    /\ state' = [req.was EXCEPT !.record = next]
    /\ UNCHANGED <<opening, view, here>>

Tear(req, stored) == torn' = IF stored THEN torn \ {req.hash} ELSE torn \cup {req.hash}

(* The bytes were put or deleted; updateEntry reads the record. *)
FileToggled(do) ==
  /\ Head1("files", do) /\ Len(queue["books"]) < MaxPending
  /\ LET req == Head(queue["files"]) IN
       \E ok \in BOOLEAN :
         /\ Outcome(ok)
         /\ IF ok
            THEN /\ files' = IF do = "keep" THEN files \cup {req.hash} ELSE files \ {req.hash}
                 /\ AnsweredThen("files", "books", [req EXCEPT !.do = "readEntry"])
                 /\ UNCHANGED <<tab, torn>>
            ELSE /\ EndToggle(req, FALSE) /\ Answered("files")
                 /\ UNCHANGED <<files, torn>>
  /\ UNCHANGED <<books, clicks, reloads, told, toggled>>
BytesKept == FileToggled("keep")
BytesForgotten == FileToggled("forget")

EntryRead ==
  /\ Head1("books", "readEntry")
  /\ LET req == Head(queue["books"])
         entry == books[req.hash] IN
       \E ok \in BOOLEAN :
         /\ ReadOutcome(ok)
         /\ IF ok /\ entry # None
            THEN /\ AnsweredThen("books", "books",
                      [req EXCEPT !.do = "flag", !.record = [entry EXCEPT !.keep = req.want]])
                 /\ UNCHANGED <<tab, torn>>
            ELSE EndToggle(req, FALSE) /\ Answered("books") /\ Tear(req, FALSE)
  /\ UNCHANGED <<books, files, clicks, reloads, told, toggled>>

Flagged ==
  /\ Head1("books", "flag")
  /\ LET req == Head(queue["books"]) IN
       \E ok \in BOOLEAN :
         /\ Outcome(ok) /\ Written(ok, req) /\ EndToggle(req, ok) /\ Tear(req, ok)
  /\ Answered("books")
  /\ UNCHANGED <<files, clicks, reloads, told, toggled>>

(* removeBook: the bytes, then the record, whatever became of the bytes. *)
BytesDropped ==
  /\ Head1("files", "dropFile") /\ Len(queue["books"]) < MaxPending
  /\ LET req == Head(queue["files"]) IN
       /\ \E ok \in BOOLEAN :
            /\ Outcome(ok)
            /\ files' = IF ok THEN files \ {req.hash} ELSE files
            /\ torn' = IF ok THEN torn ELSE torn \cup {req.hash}
       /\ AnsweredThen("files", "books", [req EXCEPT !.do = "drop"])
  /\ UNCHANGED <<books, tab, clicks, reloads, told, toggled>>

RecordDropped ==
  /\ Head1("books", "drop")
  /\ LET b == Head(queue["books"]).hash IN
       \E ok \in BOOLEAN :
         /\ Outcome(ok)
         /\ books' = IF ok THEN [books EXCEPT ![b] = None] ELSE books
         /\ torn' = IF ok THEN torn ELSE torn \cup {b}
  /\ Answered("books")
  /\ UNCHANGED <<files, tab, clicks, reloads, told, toggled>>

Next ==
  \/ \E b \in Books : OpenFile(b) \/ OpenKept(b) \/ RemoveBook(b)
  \/ \E p \in Places : TurnPage(p) \/ RemoveBookmark(p) \/ NoteBookmark(p)
  \/ AddBookmark \/ ToggleKeepFile \/ Reload
  \/ \E l \in opening : Acquired(l) \/ ViewOpened(l) \/ FirstPage(l) \/ FailOpening(l)
  \/ FileRead \/ BookRead \/ Saved \/ Marked \/ Remembered
  \/ BytesKept \/ BytesForgotten \/ EntryRead \/ Flagged \/ BytesDropped \/ RecordDropped

Spec == Init /\ [][Next]_vars
(***************************************************************************)
(* Properties.                                                             *)
(***************************************************************************)
Quiet == opening = {} /\ \A s \in Stores : queue[s] = <<>>

(* Where the reader is gets stored, under the book on screen: when nothing *)
(* waits and nothing was refused, what storage holds, what the ref holds   *)
(* and what the page shows agree, for a book whose checkbox was left alone *)
(* since it was opened (withPosition, persist, render).                    *)
PlaceKept ==
  Open /\ Quiet /\ refusals = 0 /\ ~toggled =>
    recordRef.hash = view /\ books[view] = recordRef /\ books[view].place = here

(* A bookmark or a note the reader was told is stored stays stored, page   *)
(* turns, reloads, kept files and refused writes notwithstanding, until    *)
(* the reader touches it or removes the book (addBookmark, noteBookmark,   *)
(* toggleKeepFile, updateEntry).                                           *)
MarksKept ==
  \A b \in Books, p \in Places :
    told[b][p] # "none" => books[b] # None /\ books[b].marks[p] = told[b][p]

(* A record says its file is kept exactly when the bytes are there, unless *)
(* keeping, forgetting or removing it was cut short between the two stores *)
(* (keepBookFile, forgetBookFile, removeBook).                             *)
FlagTellsFile ==
  Quiet => \A b \in Books \ torn : (books[b] # None /\ books[b].keep) <=> b \in files

(* The position survives ticking "keep this book in this browser": the     *)
(* page it was left on is the page it comes back to, as the end-to-end     *)
(* test of reopening expects (toggleKeepFile, addBookmark).                *)
PlaceSurvivesKeeping ==
  Open /\ Quiet /\ refusals = 0 => books[view] # None /\ books[view].place = here
=============================================================================

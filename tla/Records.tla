------------------------------ MODULE Records ------------------------------
(***************************************************************************)
(* What library catalogues know of a book and what is made of it: the SRU  *)
(* catalogues in Dublin Core ("dc") and in MARC ("marc"), the Polish       *)
(* library ("polish") and the NDL ("ndl").  A state is one question to one *)
(* catalogue.  A name is a sequence of parts, a part or a word of a query  *)
(* the letters every romanization of it shares.                            *)
(***************************************************************************)
EXTENDS Naturals, Sequences
LOCAL INSTANCE FiniteSets
LOCAL INSTANCE SequencesExt
LOCAL INSTANCE TLC

CONSTANTS
  HoldingsOf,  \* for a catalogue, what it may hold, as sets of sequences of
               \* entries [of, way]: a printing and how it is catalogued; its
               \* ISBNs are valid, publishers differ by more than capitals
  Queries,     \* [words, numbers]: a book's title and author, and the numbers in it
  LongWord,    \* from how many letters on a word tells something: 4 in the code
  AUTHOR_WORD_WINDOW
ASSUME RecordsAssumption == LongWord \in Nat /\ AUTHOR_WORD_WINDOW \in Nat

VARIABLE asked  \* [of, query, holds]; << >> in other scenes

SruCatalogs == {"dc", "marc"}
Nobody == << >>
Unsaid == "none"
FirstOf(s) == IF s = << >> THEN << >> ELSE <<s[1]>>

-----------------------------------------------------------------------------
(* A cataloguer's work (external).  A printing has an author, perhaps a      *)
(* translator, and somebody who helped; they are filed with relator codes,  *)
(* with roles in words, with both or with neither, the author as the main   *)
(* entry or among the others.                                               *)
Filed(name, code, term, e) ==
  [tag |-> "700", name |-> name, code |-> IF e.way.codes THEN code ELSE Unsaid,
   term |-> IF e.way.terms THEN term ELSE Unsaid]
AuthorFiled(e) ==
  [Filed(e.of.author, "aut", e.way.says, e)
     EXCEPT !.tag = IF e.way.main THEN "100" ELSE "700"]
Persons(e) ==
  LET others == SelectSeq(<<Filed(e.of.translator, "trl", "translator", e),
                            Filed(e.of.helper, "edt", "other", e)>>,
                          LAMBDA f : f.name # Nobody)
  IN IF e.way.first THEN <<AuthorFiled(e)>> \o others ELSE Append(others, AuthorFiled(e))

(* The publisher's statement stands in 264 with a distributor's, or in 260. *)
Statements(e) ==
  << [tag |-> "264", ind2 |-> "2", name |-> "distributor"],
     [tag |-> IF e.way.rda THEN "264" ELSE "260", ind2 |-> "1", name |-> e.of.publisher] >>

(* A catalogue answers with what mentions every word it is asked for.       *)
Mentioning(words) == SelectSeq(asked.holds, LAMBDA e : words \subseteq e.of.words)

-----------------------------------------------------------------------------
(* marc-record.ts *)
IsMonograph(e) == e.way.leader \in {Unsaid, "am"}

ReadAgents(fields) ==
  [i \in DOMAIN fields |->
     [name |-> fields[i].name, term |-> fields[i].term,
      relator |-> IF fields[i].code = Unsaid /\ fields[i].tag = "100" /\ fields[i].term = Unsaid
                  THEN "aut" ELSE fields[i].code]]

(* 041 $a, where codes may be run together, or else 008.                    *)
ReadLanguages(e) == IF e.way.f041 THEN <<e.of.language, "second">> ELSE <<e.of.language>>

Publisher(e) ==
  LET inTag(t) == SelectSeq(Statements(e), LAMBDA f : f.tag = t /\ (t = "264" => f.ind2 = "1"))
  IN (inTag("264") \o inTag("260"))[1].name

MarcRecordFrom(e) ==
  [title |-> e.of.title, number |-> e.of.number, agents |-> ReadAgents(Persons(e)),
   creator |-> ReadAgents(Persons(e)), language |-> ReadLanguages(e),
   publisher |-> Publisher(e), year |-> e.of.year, isbns |-> e.of.isbns,
   recordId |-> e.way.control, ark |-> Unsaid]

(* Dublin Core, and the NDL's form of it, say who did what in words only.   *)
(* A main entry alone is dc:creator; the NDL spells an author twice.        *)
Lines(e) == ReadAgents(Persons([e EXCEPT !.way.codes = FALSE, !.way.main = FALSE]))
DcRecord(e) ==
  [MarcRecordFrom(e) EXCEPT !.agents = Lines(e), !.language = <<e.of.language>>, !.publisher = e.of.publisher,
     !.creator = IF e.way.main THEN <<Lines(e)[1]>> ELSE Lines(e), !.recordId = Unsaid, !.ark = e.way.control]
NdlRecord(e) ==
  [DcRecord(e) EXCEPT !.recordId = e.way.control, !.ark = Unsaid,
     !.agents = <<[name |-> e.of.native, relator |-> Unsaid,
                   term |-> IF e.way.terms THEN "author" ELSE Unsaid]>> \o @]

ParseRecords(c, entries) ==
  CASE c = "dc" -> [i \in DOMAIN entries |-> DcRecord(entries[i])]
    [] c = "ndl" -> [i \in DOMAIN entries |-> NdlRecord(entries[i])]
    [] OTHER -> LET books == SelectSeq(entries, IsMonograph)
                IN [i \in DOMAIN books |-> MarcRecordFrom(books[i])]

-----------------------------------------------------------------------------
(* Who wrote it and who translated it.                                      *)
IsTranslatorAgent(a) == a.relator = "trl" \/ (a.relator = Unsaid /\ a.term = "translator")
IsContributor(c, a) == IsTranslatorAgent(a) \/ (c = "ndl" /\ a.term = "other")

(* The first author by code; by wording, where the catalogue's is known; or *)
(* the first whom nothing calls a translator; Dublin Core's last resort.    *)
AuthorOf(c, r) ==
  LET people == IF c = "dc" THEN r.creator ELSE r.agents
  IN FirstOf(SelectSeq(people, LAMBDA a : a.relator \in {"aut", "cre"})
               \o SelectSeq(people, LAMBDA a : a.term = "author" /\ c \in SruCatalogs)
               \o SelectSeq(people, LAMBDA a : ~IsContributor(c, a))
               \o (IF c = "dc" THEN people ELSE << >>))

TranslatorOf(r) == FirstOf(SelectSeq(r.agents, IsTranslatorAgent))

-----------------------------------------------------------------------------
(* catalog-record.ts: a query's halves, the author's words last first; its  *)
(* one long word, if it has no other, is the title's.                       *)
Long(words) == SelectSeq(words, LAMBDA w : Len(w) >= LongWord)
SplitQueryHalves(q) ==
  LET words == Long(q.words)
      n == Len(words)
      forAuthor == IF n = 0 THEN 0 ELSE IF n - 1 < AUTHOR_WORD_WINDOW THEN n - 1 ELSE AUTHOR_WORD_WINDOW
  IN [title |-> SubSeq(words, 1, n - forAuthor), author |-> Reverse(SubSeq(words, n - forAuthor + 1, n))]

SameNamePart(a, b) == IsPrefix(a, b) \/ IsPrefix(b, a)
NamedIn(name, words) ==
  \E i \in DOMAIN name, w \in words : Len(name[i]) >= LongWord /\ SameNamePart(name[i], w)

NumbersAllowTheSameBook(q, r) == q.numbers = {} \/ r.number = Unsaid \/ r.number \in q.numbers

(* The words a record's people are judged by: all, or the author's half.    *)
Wanted(c, q) == ToSet(IF c \in SruCatalogs THEN Long(q.words) ELSE SplitQueryHalves(q).author)

(* The record's author is named, at the NDL anybody who may be its author.  *)
ByTheNamed(c, q, r) ==
  IF c = "ndl"
  THEN \E i \in DOMAIN r.agents : ~IsContributor(c, r.agents[i]) /\ NamedIn(r.agents[i].name, Wanted(c, q))
  ELSE AuthorOf(c, r) # << >> /\ NamedIn(AuthorOf(c, r)[1].name, Wanted(c, q))

RelevantRecords(c, q, records) ==
  SelectSeq(records, LAMBDA r : NumbersAllowTheSameBook(q, r) /\ ByTheNamed(c, q, r))

-----------------------------------------------------------------------------
(* fetchRecords: every word at once; an author's word with one of the first *)
(* two of the title; an author's word with the first three of the title.    *)
Upto(s, n) == ToSet(SubSeq(s, 1, IF Len(s) < n THEN Len(s) ELSE n))
Lookups(c, q) ==
  LET halves == SplitQueryHalves(q)
  IN IF c \in SruCatalogs THEN IF q.words = << >> THEN << >> ELSE <<ToSet(q.words)>>
     ELSE IF c = "polish"
     THEN FlattenSeq([i \in DOMAIN halves.author |->
            [j \in 1..Cardinality(Upto(halves.title, 2)) |-> {halves.author[i], halves.title[j]}]])
     ELSE [i \in DOMAIN halves.author |-> {halves.author[i]} \cup Upto(halves.title, 3)]

(* A record two lookups find is kept once, by its number.                   *)
Merged(records) ==
  LET first(i) == \A j \in 1..(i - 1) : records[j].recordId # records[i].recordId
  IN FlattenSeq([i \in DOMAIN records |-> IF first(i) THEN <<records[i]>> ELSE << >>])

FetchRecords(c, q) ==
  LET lookups == Lookups(c, q)
      found == FlattenSeq([i \in DOMAIN lookups |-> ParseRecords(c, Mentioning(lookups[i]))])
  IN IF c \in SruCatalogs THEN found ELSE Merged(found)

RecordId(c, r) ==
  IF r.recordId # Unsaid THEN <<r.recordId>> ELSE IF r.ark # Unsaid THEN <<r.ark>>
  ELSE IF r.isbns # << >> THEN <<c, r.isbns[1].of, r.isbns[1].digits>>
  ELSE <<c, r.title, r.language[1], r.publisher, r.year>>

(* What is handed on; the key the sync will give it.                        *)
NaturalKey(r) ==
  LET thirteen == SelectSeq(r.isbns, LAMBDA i : i.digits = 13)
      ten == SelectSeq(r.isbns, LAMBDA i : i.digits = 10)
  IN IF r.isbns # << >> THEN <<(thirteen \o ten)[1].of>> ELSE <<r.language[1], r.publisher, r.year, r.title>>

FetchEditions(c, q) ==
  LET whole == SelectSeq(RelevantRecords(c, q, FetchRecords(c, q)),
                         LAMBDA r : r.language[1] # Unsaid /\ r.title # Unsaid)
  IN [i \in DOMAIN whole |->
        [id |-> RecordId(c, whole[i]), key |-> NaturalKey(whole[i]), translator |-> TranslatorOf(whole[i])]]

(* The work is the earliest record's, if that has a title.                  *)
Year(r) == IF r.year = 0 THEN 9999 ELSE r.year
SearchWorks(c, q) ==
  LET byYear == SortSeq(RelevantRecords(c, q, FetchRecords(c, q)), LAMBDA r, t : Year(r) < Year(t))
  IN IF byYear = << >> \/ AuthorOf(c, byYear[1]) = << >> \/ byYear[1].title = Unsaid THEN << >>
     ELSE <<[title |-> byYear[1].title, author |-> AuthorOf(c, byYear[1])[1].name, year |-> byYear[1].year]>>

-----------------------------------------------------------------------------
RecordsInit ==
  \E c \in DOMAIN HoldingsOf, q \in Queries :
    \E shelf \in HoldingsOf[c] : \E entries \in shelf : asked = [of |-> c, query |-> q, holds |-> entries]

Codes == IF asked.of \in {"marc", "polish"} THEN {"codes", "terms"} ELSE {"terms"}
RolesSaid(e) == \E way \in Codes : e.way[way]
SaysTranslator(e) ==
  IF e.of.translator # Nobody /\ RolesSaid(e) THEN <<e.of.translator>> ELSE << >>
Spellings(e) == {e.of.author} \cup (IF asked.of = "ndl" THEN {e.of.native} ELSE {})

(* Whatever way a cataloguer files a book, its author is read as the author *)
(* and whoever is called its translator as the translator, and nobody else  *)
(* (sru-catalog-provider.ts:304-311, marc-record.ts:210-213).               *)
PeopleReadAright ==
  \A i \in DOMAIN asked.holds :
    \A r \in ToSet(ParseRecords(asked.of, <<asked.holds[i]>>)) :
      /\ AuthorOf(asked.of, r) # << >> /\ AuthorOf(asked.of, r)[1].name \in Spellings(asked.holds[i])
      /\ [j \in DOMAIN TranslatorOf(r) |-> TranslatorOf(r)[j].name] = SaysTranslator(asked.holds[i])

(* What is attached to a book is a printing by somebody its query names, of *)
(* the volume asked for if any, and a printing that is all of that is       *)
(* attached, once; printings that differ keep different ids                 *)
(* (sru-catalog-provider.ts:332-358).                                       *)
PrintingsKeptApart ==
  LET editions == FetchEditions(asked.of, asked.query)
      held == ToSet(asked.holds)
      key(e) == NaturalKey(ParseRecords("dc", <<e>>)[1])
      fits(e) == /\ asked.query.numbers = {} \/ e.of.number \in asked.query.numbers \cup {Unsaid}
                 /\ asked.of \in {"marc", "polish"} => e.way.leader # "aa"
                 /\ e.of.language # Unsaid /\ e.of.title # Unsaid
      named(e) == \E n \in Spellings(e), w \in Wanted(asked.of, asked.query) :
                    \E i \in DOMAIN n : Len(n[i]) >= LongWord /\ SameNamePart(n[i], w)
      perhaps(e) == asked.of = "ndl" /\ ~RolesSaid(e)
  IN /\ \A e \in held : fits(e) /\ named(e) /\ ToSet(asked.query.words) \subseteq e.of.words =>
            \E i \in DOMAIN editions : editions[i].key = key(e)
     /\ \A i \in DOMAIN editions :
          \E e \in held : editions[i].key = key(e) /\ fits(e) /\ (named(e) \/ perhaps(e))
     /\ \A i, j \in DOMAIN editions :
          /\ editions[i].id = editions[j].id => editions[i].key = editions[j].key
          /\ asked.of \notin SruCatalogs /\ i # j => editions[i].id # editions[j].id

(* Whatever is attached, a work stands for it that is no younger, since a   *)
(* translation cannot be older than its original                  *)
(* (sru-catalog-provider.ts:152-171).                                       *)
WorkStandsForThem ==
  LET records == RelevantRecords(asked.of, asked.query, FetchRecords(asked.of, asked.query))
      works == SearchWorks(asked.of, asked.query)
  IN /\ records # << >> /\ (\A i \in DOMAIN records : records[i].title # Unsaid) => works # << >>
     /\ works # << >> => \A i \in DOMAIN records : works[1].year <= Year(records[i])

RecordsReadRight == PeopleReadAright /\ PrintingsKeptApart /\ WorkStandsForThem
=============================================================================

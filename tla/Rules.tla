------------------------------- MODULE Rules -------------------------------
(***************************************************************************)
(* Algorithms that judge what sources say, one question in each state:     *)
(* whether two name tokens are one surname (tokensAgree), what an ISBN     *)
(* stands for (Isbn.create), in which order price offers are shown         *)
(* (sortOffers).                                                           *)
(***************************************************************************)
EXTENDS Naturals, Integers, Sequences
LOCAL INSTANCE FiniteSets
LOCAL INSTANCE FiniteSetsExt
LOCAL INSTANCE TLC

CONSTANTS
  Tokens,        \* name tokens, as sequences of letters
  LongName,      \* how long a token is that may be misspelt: 5 in the code
  SHARED_PREFIX_FOR_AGREEMENT,
  IsbnCores,     \* the first nine digits of an ISBN-10
  OfferLists     \* what the shops quote, flattened: sequences of offers
ASSUME RulesAssumption == LongName \in Nat /\ SHARED_PREFIX_FOR_AGREEMENT \in Nat

VARIABLE question  \* [names], [core] or [offers]

-----------------------------------------------------------------------------
(* Mutant: a letter too many is read as every later letter changed. *)
WalkTogether(a, b) ==
  LET n == IF Len(a) < Len(b) THEN Len(a) ELSE Len(b)
  IN Cardinality({i \in 1..n : a[i] # b[i]}) + (Len(a) - n) + (Len(b) - n) <= 1

(* tokensAgree.  Both pointers walk on; at a difference the longer token's *)
(* goes on alone.                                                          *)
Walk(a, b) ==
  LET w[i \in 1..(Len(a) + 1), j \in 1..(Len(b) + 1), edits \in 0..2] ==
        IF edits > 1 THEN FALSE
        ELSE IF i > Len(a) \/ j > Len(b) THEN edits + (Len(a) + 1 - i) + (Len(b) + 1 - j) <= 1
        ELSE IF a[i] = b[j] THEN w[i + 1, j + 1, edits]
        ELSE w[IF Len(a) < Len(b) THEN i ELSE i + 1, IF Len(b) < Len(a) THEN j ELSE j + 1, edits + 1]
  IN w[1, 1, 0]

SharedPrefix(a, b) ==
  Max({0} \cup {n \in 1..Len(a) : n <= Len(b) /\ SubSeq(a, 1, n) = SubSeq(b, 1, n)})

(* Mutant: short names are compared as long ones. *)
TokensAgreeAnyLength(a, b) ==
  a = b \/ SharedPrefix(a, b) >= SHARED_PREFIX_FOR_AGREEMENT
        \/ (Len(a) - Len(b) \in -1..1 /\ Walk(a, b))

TokensAgree(a, b) ==
  \/ a = b
  \/ /\ Len(a) >= LongName /\ Len(b) >= LongName
     /\ \/ SharedPrefix(a, b) >= SHARED_PREFIX_FOR_AGREEMENT
        \/ Len(a) - Len(b) \in -1..1 /\ Walk(a, b)

-----------------------------------------------------------------------------
(* Isbn.create: digits, 10 standing for X; NotAnIsbn when refused.         *)
NotAnIsbn == << >>
Digits(d, last) == \A i \in DOMAIN d : d[i] \in 0..(IF i = Len(d) THEN last ELSE 9)

ValidIsbn10(d) ==
  Len(d) = 10 /\ Digits(d, 10) /\ MapThenSumSet(LAMBDA i : d[i] * (11 - i), 1..10) % 11 = 0

WeighedBy13(d, n) == MapThenSumSet(LAMBDA i : d[i] * (IF i % 2 = 1 THEN 1 ELSE 3), 1..n)
ValidIsbn13(d) == Len(d) = 13 /\ Digits(d, 9) /\ WeighedBy13(d, 13) % 10 = 0

(* Mutant: a sum that needs no check digit gets ten. *)
Isbn10ToIsbn13Ten(d) ==
  LET core == <<9, 7, 8>> \o SubSeq(d, 1, 9)
  IN Append(core, 10 - (WeighedBy13(core, 12) % 10))
Isbn10ToIsbn13(d) ==
  LET core == <<9, 7, 8>> \o SubSeq(d, 1, 9)
  IN Append(core, (10 - (WeighedBy13(core, 12) % 10)) % 10)

Isbn(d) == IF ValidIsbn13(d) THEN d ELSE IF ValidIsbn10(d) THEN Isbn10ToIsbn13(d) ELSE NotAnIsbn

-----------------------------------------------------------------------------
(* sortOffers: offers [currency, minor]; NoPrice has neither.              *)
NoPrice == [currency |-> "", minor |-> -1]
Priced(o) == o.minor # -1
CurrencyOrder(offers, c) ==
  Min({Len(offers) + 1} \cup {i \in DOMAIN offers : offers[i].currency = c})

(* Mutant: amounts are compared whatever their currency. *)
CheaperAnyCurrency(offers, a, b) == IF Priced(a) # Priced(b) THEN Priced(a) ELSE a.minor < b.minor

(* The comparator is negative. *)
Cheaper(offers, a, b) ==
  IF Priced(a) # Priced(b) THEN Priced(a)
  ELSE /\ Priced(a)
       /\ LET rankA == CurrencyOrder(offers, a.currency)
              rankB == CurrencyOrder(offers, b.currency)
          IN IF rankA = rankB THEN a.minor < b.minor ELSE rankA < rankB
SortOffers(offers) == SortSeq(offers, LAMBDA a, b : Cheaper(offers, a, b))

-----------------------------------------------------------------------------
RulesInit ==
  \/ \E a, b \in Tokens : question = [names |-> <<a, b>>]
  \/ \E core \in IsbnCores : question = [core |-> core]
  \/ \E offers \in OfferLists : question = [offers |-> offers]

(* One letter changed, left out or put in. *)
OneEdit(a, b) ==
  LET without(s, i) == SubSeq(s, 1, i - 1) \o SubSeq(s, i + 1, Len(s))
  IN \/ Len(a) = Len(b) /\ Cardinality({i \in DOMAIN a : a[i] # b[i]}) <= 1
     \/ \E i \in DOMAIN a : without(a, i) = b
     \/ \E i \in DOMAIN b : without(b, i) = a

(* Two names are one when equal, or long and one edit apart, or long with  *)
(* a long beginning in common: the walk that gives up early finds exactly  *)
(* those (plausible-same-work.ts:63-73).                                   *)
NamesAreOne(a, b) ==
  TokensAgree(a, b) <=>
    \/ a = b
    \/ /\ Len(a) >= LongName /\ Len(b) >= LongName
       /\ OneEdit(a, b)
            \/ \E n \in SHARED_PREFIX_FOR_AGREEMENT..Len(a) : n <= Len(b) /\ \A i \in 1..n : a[i] = b[i]

(* Nine digits have one tenth that makes an ISBN, the same key whichever   *)
(* form is given (isbn.ts:36-40), and a mistyped digit, or two neighbours  *)
(* of an ISBN-10 swapped, is no ISBN, so never another book's key.         *)
IsbnsAreKeys(core) ==
  LET checks == {c \in 0..10 : Isbn(Append(core, c)) # NotAnIsbn}
      ten == Append(core, CHOOSE c \in 0..10 : ValidIsbn10(Append(core, c)))
      swapped(i) == [ten EXCEPT ![i] = ten[i + 1], ![i + 1] = ten[i]]
  IN /\ Cardinality(checks) = 1
     /\ ValidIsbn13(Isbn(ten)) /\ Isbn(Isbn(ten)) = Isbn(ten)
     /\ \A i \in 1..10, d \in 0..9 : d # ten[i] => Isbn([ten EXCEPT ![i] = d]) = NotAnIsbn
     /\ \A i \in 1..13, d \in 0..9 : d # Isbn(ten)[i] => Isbn([Isbn(ten) EXCEPT ![i] = d]) = NotAnIsbn
     /\ \A i \in 1..9 : ten[i] # ten[i + 1] => Isbn(swapped(i)) = NotAnIsbn

(* Shops are shown cheapest first within a currency, no currency between   *)
(* the offers of another, and what has no price after all that have.       *)
OffersInOrder(offers) ==
  LET s == SortOffers(offers)
  IN /\ \A o \in {offers[i] : i \in DOMAIN offers} :
          Cardinality({i \in DOMAIN s : s[i] = o}) = Cardinality({i \in DOMAIN offers : offers[i] = o})
     /\ \A i, j \in DOMAIN s : i < j =>
          /\ Priced(s[j]) => Priced(s[i])
          /\ s[i].currency = s[j].currency =>
               /\ s[i].minor <= s[j].minor
               /\ \A k \in i..j : s[k].currency = s[i].currency

(* What the rules answer is what they are for, on every bounded question.  *)
RulesAgree ==
  /\ "names" \in DOMAIN question => NamesAreOne(question.names[1], question.names[2])
  /\ "core" \in DOMAIN question => IsbnsAreKeys(question.core)
  /\ "offers" \in DOMAIN question => OffersInOrder(question.offers)
=============================================================================

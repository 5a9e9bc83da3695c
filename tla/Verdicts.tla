------------------------------ MODULE Verdicts ------------------------------
(***************************************************************************)
(* What a judge's reply comes to (autornd/models/verdicts.py,              *)
(* autornd/engine/phases.py and autornd/graph/checks.py).  A reply is the  *)
(* fields the code reads.  A quote is the set of the texts it is found in  *)
(* word for word and above the floor, {} for none, a paraphrase or words   *)
(* too few; an ask is "listed" when it is the number of an anchored ask,   *)
(* "stray" when it is none of theirs.                                      *)
(***************************************************************************)
EXTENDS Naturals, Sequences, FiniteSets, SequencesExt

Texts == {"request", "sources", "answer"}
DissentKinds == {"unmet_ask", "wrong_fact", "hazard"}

Dissent == [kind : DissentKinds \cup {"", "other"}, hazard : BOOLEAN,
            ask : {"none", "listed", "stray"}, quote : SUBSET Texts,
            hazard_quote : SUBSET Texts, source_quote : SUBSET Texts]

QuoteAnchors(quote, text) == text \in quote

(* A dissent that states no kind, or none of the three, is a hazard when   *)
(* it is marked one, and otherwise must show its source.                   *)
DissentKind(d) ==
  IF d.kind \in DissentKinds THEN d.kind
  ELSE IF d.hazard THEN "hazard" ELSE "wrong_fact"

DissentAnchored_InRequest(d) ==
  CASE DissentKind(d) = "hazard" -> QuoteAnchors(d.hazard_quote, "answer")
    [] DissentKind(d) = "unmet_ask" -> d.ask = "listed" \/ QuoteAnchors(d.quote, "request")
    [] OTHER -> QuoteAnchors(d.source_quote, "request")

(* dissent_anchored, of the judges that are given the sources.             *)
DissentAnchored(d) ==
  CASE DissentKind(d) = "hazard" -> QuoteAnchors(d.hazard_quote, "answer")
    [] DissentKind(d) = "unmet_ask" -> d.ask = "listed" \/ QuoteAnchors(d.quote, "request")
    [] OTHER -> \/ QuoteAnchors(d.source_quote, "request")
                \/ QuoteAnchors(d.source_quote, "sources")

-----------------------------------------------------------------------------
(* _resolve_green, of a verdict with some substance or none.  A red with   *)
(* no cause is refused by the schema, and asked for again.                 *)
GreenSaid == {"true", "false", "null"}
WellFormed(r) == r.green = "false" => r.cause

ResolveGreen(r) == r.green # "false" /\ ~r.cause /\ r.substance

-----------------------------------------------------------------------------
(* implement.  An entry of blocked_on gives its reason only, an ask of the *)
(* request ("ask": a listed number, or the request's own words), or a      *)
(* stray one.                                                              *)
Entries == {"why only", "ask", "stray ask"}

ImplementReply ==
  {r \in [green : GreenSaid, cause : BOOLEAN, substance : BOOLEAN, done : BOOLEAN,
          blocked : BoundedSeq(Entries, 2)] : WellFormed(r)}

(* blocked_on_unmet: an entry names an ask of the request.                 *)
NamesAnAsk(r) == "ask" \in ToSet(r.blocked)

(* The fold on the implementer's own red reads the entries in turn: the    *)
(* first with any ask keeps it red; one that gives its reason only has no  *)
(* quote field to read, and raises.                                        *)
OwnRed(r) == IF r.blocked = <<>> THEN "a note"
             ELSE IF Head(r.blocked) = "why only" THEN "raises" ELSE "red"

ImplementGreen_OnItsAsk(r) == ResolveGreen(r) \/ ~NamesAnAsk(r)
ImplementGreen(r) == ResolveGreen(r) \/ OwnRed(r) = "a note"

ImplementRaises(r) == ~ResolveGreen(r) /\ OwnRed(r) = "raises"

ImplementOutput(r) ==
  IF NamesAnAsk(r) THEN "unmet"
  ELSE IF r.done THEN (IF ImplementGreen(r) THEN "green" ELSE "red")
  ELSE IF ImplementGreen(r) THEN "green undone" ELSE "red undone"

-----------------------------------------------------------------------------
(* domain_review: the concerns of every peer, none for an empty roster.  A *)
(* critical one with no anchor becomes a note.                             *)
Concern(dissents) == [critical : BOOLEAN, dissent : dissents]

Critical(concerns) == \E c \in concerns : c.critical /\ DissentAnchored(c.dissent)

-----------------------------------------------------------------------------
(* validate: a red, stated or by its cause, with no anchor is a note, and  *)
(* what is left must hold an assessment.                                   *)
ValidateReply(dissents) ==
  {r \in [green : GreenSaid, cause : BOOLEAN, substance : BOOLEAN, dissent : dissents] :
     WellFormed(r)}

WantsRed(r) == r.green = "false" \/ r.cause

ValidateGreen(r) ==
  IF WantsRed(r) /\ ~DissentAnchored(r.dissent) THEN r.substance ELSE ResolveGreen(r)

-----------------------------------------------------------------------------
Reviewed(findings) == [completed |-> TRUE, findings |-> findings]
NotReviewed == [completed |-> FALSE, findings |-> {}]

Completed(review) == {i \in DOMAIN review : review[i].completed}
Quorate(review) == 2 * Cardinality(Completed(review)) >= Len(review)

Blocks(f) == f.severity = "high" /\ DissentAnchored(f.dissent)
Blocked(review) == \E i \in Completed(review) : \E f \in review[i].findings : Blocks(f)

ReviewShips_AllComplete(review) == Completed(review) = DOMAIN review /\ ~Blocked(review)
ReviewShips(review) == Quorate(review) /\ ~Blocked(review)

(* The independent check vetoes on an anchored issue, whatever it ships.   *)
Vetoes(issues) == \E d \in issues : DissentAnchored(d)

=============================================================================

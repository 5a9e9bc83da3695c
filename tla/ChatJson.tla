------------------------------ MODULE ChatJson ------------------------------
(***************************************************************************)
(* chat_json of autornd/routing/openrouter.py: a call is sent again until  *)
(* its reply is an object that fits, and every send is accounted to the    *)
(* client its calls share.  What ends a call is read from its own sends,   *)
(* while other calls of the same gather write the same counters.           *)
(***************************************************************************)
EXTENDS Naturals, FiniteSets, SequencesExt

CONSTANTS
    Asking,       \* the calls in flight on one client
    MaxRetries    \* sends of one call

Unnamed == "no provider"

(* A reply: its text with the fences and the thinking taken off, the first *)
(* balanced {...} span in it, and whether the schema admits the object.    *)
Texts ==
    [whole : {"none"}, span : {"none"}, fits : {FALSE}]
      \cup [whole : {"object"}, span : {"object"}, fits : BOOLEAN]
      \cup [whole : {"array"}, span : {"object"}, fits : {FALSE}]
      \cup [whole : {"prose"}, span : {"object"}, fits : BOOLEAN]
      \cup [whole : {"prose"}, span : {"none", "broken"}, fits : {FALSE}]

SentReplies == [text : Texts, provider : {"p", Unnamed}]

(* _extract_json: the whole text, and only when it is not JSON the span in *)
(* it; what parses is an object or is refused.                             *)
Extracts(text) ==
    \/ text.whole = "object"
    \/ text.whole = "prose" /\ text.span = "object"

(* How one send is classed. *)
Class(reply) ==
    CASE reply.text.whole = "none" -> "empty_reply"
      [] reply.text.whole # "none" /\ ~Extracts(reply.text) -> "parse_failure"
      [] Extracts(reply.text) /\ ~reply.text.fits -> "schema_rejection"
      [] OTHER -> "fits"

Classes == {"empty_reply", "parse_failure", "schema_rejection"}

(* A call: its sends, those that brought no text, the provider of the last *)
(* of those, what the next prompt corrects, and how it ended.              *)
NewCall ==
    [sends |-> 0, empty |-> 0, provider |-> Unnamed, correction |-> "none",
     end |-> "open", replies |-> <<>>]

NewClient ==
    [call |-> [c \in Asking |-> NewCall],
     retries |-> [k \in Classes |-> 0],      \* retries_by_kind
     rejections |-> 0,                       \* rejections_by_function, all of it
     byProvider |-> 0,                       \* rejections_by_provider, all of it
     failures |-> <<>>]                      \* provider_failures

OwnedByProvider_Shared(call, client) ==
    client.retries["empty_reply"] >= MaxRetries /\ call.provider # Unnamed

(* All the sends of a call brought no text, the last from a named serving. *)
OwnedByProvider(call, client) ==
    call.empty >= MaxRetries /\ call.provider # Unnamed

(* One send of call c has its reply.  An ended call sends nothing. *)
AfterReply(client, c, reply) ==
    LET class == Class(reply)
        was == client.call[c]
        call == [was EXCEPT
                   !.sends = @ + 1,
                   !.empty = @ + (IF class = "empty_reply" THEN 1 ELSE 0),
                   !.provider = IF class = "empty_reply" THEN reply.provider ELSE @,
                   !.correction = IF class = "empty_reply" THEN @ ELSE class,
                   !.replies = Append(@, reply)]
        counted == IF class = "fits" THEN client
                   ELSE [client EXCEPT !.retries[class] = @ + 1]
        rejected == IF class # "schema_rejection" THEN counted
                    ELSE [counted EXCEPT !.rejections = @ + 1,
                                         !.byProvider = @ + (IF reply.provider = Unnamed THEN 0 ELSE 1)]
        end == CASE class = "fits" -> "parsed"
                 [] class # "fits" /\ call.sends < MaxRetries -> "open"
                 [] OTHER -> IF OwnedByProvider(call, rejected) THEN "provider_failure" ELSE class
        ended == [rejected EXCEPT !.call[c] = [call EXCEPT !.end = end]]
    IN IF was.end # "open" THEN client
       ELSE IF end = "provider_failure" THEN [ended EXCEPT !.failures = Append(@, c)] ELSE ended

(* The client after the replies of its calls, in the order they came. *)
Client(events) ==
    FoldLeft(LAMBDA client, e : AfterReply(client, e.call, e.reply), NewClient, events)

(* retry_reconciliation: what the rejection counters explain, and the rest. *)
Reconciliation(client) ==
    LET retried == client.retries
        total == retried["empty_reply"] + retried["parse_failure"] + retried["schema_rejection"]
    IN [total |-> total, attributed |-> retried["schema_rejection"],
        unattributed |-> total - retried["schema_rejection"]]

-----------------------------------------------------------------------------
(* No text with and without a serving named, an object in prose that fits  *)
(* and one that does not, and JSON that is no object.                      *)
SomeReplies ==
    {r \in SentReplies :
       /\ r.text.whole \in {"none", "array", "prose"}
       /\ r.text.whole = "prose" => r.text.span = "object"
       /\ r.text.whole # "none" => r.provider = "p"}

Histories ==
    SeqOf([call : Asking, reply : SomeReplies], MaxRetries * Cardinality(Asking))

(* "a call whose own attempts were mixed -- or a client with history --    *)
(* cannot be misread as all-empty" (openrouter.py:1215): whatever the      *)
(* other calls of the client meet meanwhile, a call is a provider failure  *)
(* exactly when each of its sends came back empty, is entered once, ends   *)
(* otherwise by its own last reply, and corrects its own last text; and    *)
(* the rejection counters explain just the retries said to be attributed.  *)
EachFailureIsItsCalls ==
    \A events \in Histories :
      LET client == Client(events)
          Own(c) == client.call[c].replies
          Texted(c) == SelectSeq(Own(c), LAMBDA r : Class(r) # "empty_reply")
          Empties(c) == Len(Own(c)) - Len(Texted(c))
      IN /\ Reconciliation(client).attributed = client.rejections
         /\ client.byProvider <= client.rejections
         /\ \A c \in Asking :
              LET call == client.call[c]
                  failed == /\ Empties(c) = MaxRetries
                            /\ Last(Own(c)).provider # Unnamed
              IN /\ Len(Own(c)) <= MaxRetries
                 /\ call.end = "provider_failure" <=> failed
                 /\ Len(SelectSeq(client.failures, LAMBDA d : d = c)) = IF failed THEN 1 ELSE 0
                 /\ call.end = "parsed" => Class(Last(Own(c))) = "fits"
                 /\ call.end \in Classes => call.end = Class(Last(Own(c)))
                 /\ call.end = "open" /\ Texted(c) # <<>> => call.correction = Class(Last(Texted(c)))
=============================================================================

---------------------------- MODULE MCPaidUnit ----------------------------
(***************************************************************************)
(* A base and its variant in a catalogue of a few entries: one with every  *)
(* covered charge, a dearer one, a free one, one with no price, one with a *)
(* charge above its side, one with a side that is no number, and one with  *)
(* no tool choice, a small context and no output.  The ceilings just admit *)
(* the counted calls of the first.                                         *)
(***************************************************************************)
EXTENDS PaidUnit

Charged(charges) == [c \in Charges |-> IF c \in charges THEN 1 ELSE Missing]
Full == [price |-> [prompt |-> 1, completion |-> 1,
                    charge |-> Charged(Charges \ {"another", "request"})],
         takes |-> Blind, context |-> Missing, cap |-> Missing]
Free == [price |-> [prompt |-> 0, completion |-> 1, charge |-> Charged({})],
         takes |-> {"tools", "tool_choice"}, context |-> 5, cap |-> 1]
Dear == [Full EXCEPT !.price.prompt = 2]
Cached == [Free EXCEPT !.price.charge["input_cache_read"] = 1]
Worded == [Free EXCEPT !.price.prompt = Unreadable]
Plain == [Free EXCEPT !.takes = {"tools"}, !.context = 4, !.cap = 0]

MCEntries == {Full, Dear, Free, Cached, Worded, Plain, ConfirmedEntry}
MCServings == {"base", "base:exacto"}
MCBaseOf == [s \in MCServings |-> "base"]
MCTierCap == [t \in {"engineering", "search"} |-> 1]
MCArmFCalls == [t \in {"engineering", "search"} |-> IF t = "search" THEN 0 ELSE 2]
MCMaxTokens == [t \in {3, 4} |-> 1]
MCCeiling == [t \in {3, 4} |-> [a \in Arms |-> IF a = "B" THEN 21 ELSE IF a = "C" THEN 15 ELSE 4]]
MCRunCeiling == [m \in {"pilot", "default calibration", "calibration"} |->
                   IF m = "pilot" THEN 2 ELSE 1]
MCLineEntries ==
  [name : {General, "tier3_arm_a", "tier4_arm_a"}, provider : {"p", "q"}]
    \cup {[name |-> "tier3_arm_d", provider |-> "p"],
          [name |-> "tier3_arm_a", provider |-> NoProvider]}
=============================================================================

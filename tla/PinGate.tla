------------------------------ MODULE PinGate ------------------------------
(***************************************************************************)
(* The free checks of the configuration before a paid sweep (run of        *)
(* autornd/preflight.py), and the calls they speak for: which model a call *)
(* asks for and which providers it names (autornd/routing/openrouter.py).  *)
(*                                                                         *)
(* A configuration holds the models by tier, Unset for none; the           *)
(* provider-order line, a sequence of entries that each prefer a provider  *)
(* under a function's name or under none (General), or name a function and *)
(* no provider; what is served: the catalogue, and by model its endpoints; *)
(* and the models whose endpoints can be read.  A provider is the first    *)
(* part of its endpoints' tags, which is what the router matches and, but  *)
(* for case and separators, the name they show.                            *)
(***************************************************************************)
EXTENDS Naturals, Sequences, FiniteSets, SequencesExt

Unset == "unset"
General == "general"
NoProvider == "none"

Required == {"triage", "engineering", "architecture", "escalation", "research", "search"}
Optional == {"ranker", "premium", "judge"}
PinFunctions == Required \cup {"judge", "independent", "ranker"}

-----------------------------------------------------------------------------
(* The calls. *)

(* The entries of a line under a name, and the providers they prefer.      *)
Named(entries, name) == {e \in entries : e.name = name}
Providers(entries) == {e.provider : e \in entries} \ {NoProvider}

(* provider_order_for: a name the line carries, even empty, is not served  *)
(* by the general list.                                                    *)
ProviderOrder(entries, name) ==
  Providers(Named(entries, IF Named(entries, name) = {} THEN General ELSE name))

(* independent_model: never the engineering tier's.                        *)
IndependentModel(models) ==
  LET candidate == IF models["premium"] # Unset THEN models["premium"] ELSE models["architecture"]
  IN IF candidate = models["engineering"] THEN Unset ELSE candidate

(* get_model, Unset where the harness makes no such call.                  *)
CallModel(models, function) ==
  CASE function = "independent" -> IndependentModel(models)
    [] function = "judge" /\ models["judge"] = Unset -> models["engineering"]
    [] OTHER -> models[function]

(* What a chat call must find accepted; a search reply is not JSON, and a  *)
(* rerank takes no chat parameters.                                        *)
RequiredParameters(function) ==
  CASE function = "ranker" -> {}
    [] function = "search" -> {"max_tokens"}
    [] OTHER -> {"response_format", "max_tokens"}

(* With fallbacks off the router serves a pinned call from an endpoint of  *)
(* one of its providers that takes its parameters, or answers 404.         *)
Serves(endpoint, order, function) ==
  endpoint.provider \in order /\ RequiredParameters(function) \subseteq endpoint.takes

Is404(config, function) ==
  LET order == ProviderOrder(ToSet(config.line), function)
  IN order # {} /\ ~\E e \in config.endpoints[CallModel(config.models, function)] :
                      Serves(e, order, function)

-----------------------------------------------------------------------------
(* The gate. *)

(* _pins: the places of a tier's entries that name a provider; the last of *)
(* them is its pin.                                                        *)
Pinned(line, name) ==
  {i \in DOMAIN line : line[i].name = name /\ line[i].provider # NoProvider}
Pins(line) == {e.name : e \in {f \in ToSet(line) : f.provider # NoProvider}} \ {General}
LastPin(line, name) == line[Max(Pinned(line, name))].provider

PinTarget_Configured(models, name) ==
  IF name \in DOMAIN models THEN models[name]
  ELSE IF name = "independent" THEN IndependentModel(models) ELSE Unset

(* _pin_target: the model of the call that reads a pin, Unset for none.    *)
PinTarget(models, name) ==
  CASE name \in Required \cup {"ranker"} -> models[name]
    [] name = "judge" ->
         IF models["judge"] # Unset THEN models["judge"] ELSE models["engineering"]
    [] name = "independent" -> IndependentModel(models)
    [] OTHER -> Unset

(* run asks for the endpoints of the models the pins land on.              *)
Resolved(config) ==
  {m \in {PinTarget(config.models, n) :
            n \in Pins(config.line)
                  \cup (IF Named(ToSet(config.line), General) = {} THEN {} ELSE PinFunctions)} \ {Unset} :
     m \in config.readable}

ModelRefused(config, tier) ==
  LET model == config.models[tier]
  IN model = Unset \/ (model \notin config.catalogue /\ model \notin Resolved(config))

Lists(config, model, providers) ==
  /\ model \in config.readable
  /\ \E e \in config.endpoints[model] : e.provider \in providers

PinRefused(config, name) ==
  LET model == PinTarget(config.models, name)
  IN \/ name \notin PinFunctions \cup Optional
     \/ model = Unset /\ name \in Required
     \/ model # Unset /\ ~Lists(config, model, {LastPin(config.line, name)})

GeneralRefused(config, function) ==
  LET general == Providers(Named(ToSet(config.line), General))
      model == PinTarget(config.models, function)
  IN general # {} /\ model # Unset /\ ~Lists(config, model, general)

(* check_parameters, of the calls as the client resolves them: each        *)
(* provider of the order has an endpoint that takes what is sent.          *)
ParametersRefused(config, function) ==
  LET model == CallModel(config.models, function)
  IN model # Unset /\ RequiredParameters(function) # {}
       /\ \E p \in ProviderOrder(ToSet(config.line), function) :
            \/ model \notin config.readable
            \/ ~\E e \in config.endpoints[model] : Serves(e, {p}, function)

Refused(config) ==
  \/ \E t \in Required : ModelRefused(config, t)
  \/ \E n \in Pins(config.line) : PinRefused(config, n)
  \/ \E f \in PinFunctions \ Pins(config.line) : GeneralRefused(config, f)
  \/ \E f \in PinFunctions : ParametersRefused(config, f)

-----------------------------------------------------------------------------
(* A line the gate reads as the client does: a name carries one provider   *)
(* and so does the general list, and each entry is of a call the gate      *)
(* knows.                                                                  *)
PlainLine(line) ==
  /\ \A e \in ToSet(line) :
       e.name \in PinFunctions \cup {General, "premium"} /\ e.provider # NoProvider
  /\ \A i, j \in DOMAIN line : line[i].name = line[j].name => i = j

CallsOf(config) == {f \in PinFunctions : CallModel(config.models, f) # Unset}

(* A configuration whose models are set, listed and served.                *)
Configured(config) ==
  /\ \A t \in Required : config.models[t] # Unset /\ config.models[t] \in config.catalogue
  /\ \A t \in Required \cup Optional :
       config.models[t] # Unset => config.models[t] \in DOMAIN config.endpoints

(* "The gate refuses exactly what the client would fail on" (A6), of such  *)
(* a configuration: no sweep the gate lets through meets a 404 on a pin;   *)
(* and over the plain lines, when all could be read, no sweep that would   *)
(* meet none is refused.                                                   *)
GateAgrees(config) ==
  LET fails == \E f \in CallsOf(config) : Is404(config, f)
      read == config.readable = DOMAIN config.endpoints
  IN /\ fails => Refused(config)
     /\ PlainLine(config.line) /\ read /\ ~fails => ~Refused(config)
=============================================================================

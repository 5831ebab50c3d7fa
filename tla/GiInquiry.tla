----------------------------- MODULE GiInquiry -----------------------------
(***************************************************************************)
(* The tools over generic inquiries: run (src/src/tools/generic-           *)
(* inquiries.ts), list and describe (generic-inquiry-discovery.ts), and    *)
(* the decisions of src/src/lib/gi-parameters.ts they share.  An inquiry   *)
(* that takes parameters must never be queried by its plain path: Acumatica *)
(* then returns unfiltered rows and no error.  The caches these tools read *)
(* through are GiRegistryCache's.                                          *)
(***************************************************************************)
EXTENDS Naturals, SequencesExt

CONSTANTS
    Worlds,        \* what a tool may meet, sort by sort, see WorldType
    Excluded,      \* EXCLUDED_GI_NAMES
    DefaultTop     \* topN when the model gives none

VARIABLES
    world,         \* what the tool meets
    tool,          \* the tool that ran, "none" before
    reply          \* what it told the model

inquiryVars == <<world, tool, reply>>

-----------------------------------------------------------------------------
(* An inquiry's name: itself; what is left of it without punctuation and   *)
(* case; whether it can stand in a URL.                                    *)
Names == [id: STRING, key: STRING, addressable: BOOLEAN]
NoKey == ""

(* A parameter: its name, with and without case, whether it is required,   *)
(* its type.  A function may have come without a readable definition.      *)
Params == [name: STRING, low: STRING, required: BOOLEAN, type: STRING]
Functions == [parsed: BOOLEAN, params: Seq(Params)]

(* The `parameters' argument; a member of the object it is, if it is one,  *)
(* and the types that the member's value can be written as.                *)
Members == [name: STRING, low: STRING,
            form: {"null", "blank", "list", "scalar"}, fits: SUBSET STRING]
Arguments == [is: {"absent", "garbled", "no object", "object"}, members: Seq(Members)]

(* `takes' is the truth in Acumatica; `metadata' the copy of $metadata that *)
(* is at hand, or that there is none; `registry' the parameters recorded   *)
(* for each exposed inquiry, or that there is none.  Then how the model    *)
(* called run_inquiry, and what Acumatica would answer.                    *)
Described(functions) ==
    /\ IsFiniteSet(DOMAIN functions) /\ DOMAIN functions \subseteq Names
    /\ \A n \in DOMAIN functions : functions[n] \in Functions

WorldType(w) ==
    /\ Described(w.takes) /\ Described(w.metadata.functions)
    /\ w.metadata.read \in BOOLEAN /\ w.registry.built \in BOOLEAN
    /\ DOMAIN w.registry.params \subseteq Names
    /\ w.enabled \in BOOLEAN /\ w.asked \in Names
    /\ w.arg \in Arguments
    /\ \A n \in DOMAIN w.metadata.functions, k \in DOMAIN w.arg.members :
          LET params == w.metadata.functions[n].params
          IN  \A i \in DOMAIN params : params[i].name = w.arg.members[k].name =>
                 params[i].low = w.arg.members[k].low
    /\ w.filter \in {"none", "stored", "calculated", "wrong"} /\ w.flagged \in BOOLEAN
    /\ w.topN \in SUBSET Nat /\ \A m, n \in w.topN : m = n
    /\ w.maxRecords \in Nat \ {0} /\ w.counts \in BOOLEAN
    /\ w.matching \in Nat /\ w.served \in {"rows", "404", "error"}
    /\ w.cached \in BOOLEAN

ASSUME InquiryAssumption ==
    DefaultTop \in Nat /\ \A sort \in DOMAIN Worlds : \A w \in Worlds[sort] : WorldType(w)

NoReply == [kind |-> "none"]
Refusal(why) == [kind |-> "refused", why |-> why]

-----------------------------------------------------------------------------
(* checkGiGate.                                                            *)
Allowed(w, name) ==
    /\ name.id \notin Excluded
    /\ w.registry.built => name \in DOMAIN w.registry.params

Recorded(w, name) == w.registry.built /\ w.registry.params[name] # << >>

(* findGiFunction: the name itself, or the only one with its key.  The     *)
(* mutant looks for the name alone.                                        *)
NamedExactly(w, name) == {f \in DOMAIN w.metadata.functions : f = name}
Named(w, name) ==
    LET functions == DOMAIN w.metadata.functions
    IN  IF name \in functions THEN {name}
        ELSE {f \in functions : f.key = name.key /\ name.key # NoKey}

(* resolveGiRouting: "plain", "function", or why the inquiry is refused.   *)
Routing(w, name) ==
    IF ~w.metadata.read THEN "metadata_unavailable"
    ELSE LET named == Named(w, name)
         IN  IF Cardinality(named) > 1 THEN "ambiguous_inquiry_name"
             ELSE IF (named # {} \/ Recorded(w, name)) /\ ~w.enabled
                  THEN "parameterized_not_supported"
             ELSE IF \E f \in named : ~w.metadata.functions[f].parsed
                  THEN "parameters_unreadable"
             ELSE IF named # {} THEN "function"
             ELSE IF Recorded(w, name) THEN "metadata_mismatch"
             ELSE IF ~name.addressable THEN "unaddressable_inquiry_name"
             ELSE "plain"

ParamsOf(w, name) ==
    w.metadata.functions[CHOOSE f \in Named(w, name) : TRUE].params

-----------------------------------------------------------------------------
(* validateGiParameters.  The parameter a member is for: the last that is  *)
(* named so, else the last that is but for case; 0 if none.                *)
ParamFor(params, member) ==
    LET exact == {i \in DOMAIN params : params[i].name = member.name}
        folded == {i \in DOMAIN params : params[i].low = member.low}
    IN  IF exact # {} THEN Max(exact) ELSE IF folded # {} THEN Max(folded) ELSE 0

Problem(params, given, k) ==
    IF ParamFor(params, given[k]) = 0 THEN "unknown_parameter"
    ELSE IF \/ given[k].form = "list"
            \/ \E j \in 1..k - 1 : ParamFor(params, given[j]) = ParamFor(params, given[k])
         THEN "invalid_parameters"
    ELSE "none"

(* null and a blank string leave a parameter out.                          *)
SuppliedTo(params, given, i) ==
    {k \in DOMAIN given : given[k].form = "scalar" /\ ParamFor(params, given[k]) = i}

Validated(params, arg) ==
    IF arg.is = "absent" THEN Refusal("parameters_required")
    ELSE IF arg.is \in {"garbled", "no object"} THEN Refusal("invalid_parameters")
    ELSE LET given == arg.members
             wrong == {k \in DOMAIN given : Problem(params, given, k) # "none"}
             supplied == {i \in DOMAIN params : SuppliedTo(params, given, i) # {}}
             value(i) == Max(SuppliedTo(params, given, i))
         IN  IF wrong # {} THEN Refusal(Problem(params, given, Min(wrong)))
             ELSE IF \E i \in DOMAIN params : params[i].required /\ i \notin supplied
                  THEN Refusal("missing_required_parameters")
             ELSE IF \E i \in supplied : params[i].type \notin given[value(i)].fits
                  THEN Refusal("invalid_parameter_value")
             ELSE [kind |-> "function", applied |-> [i \in supplied |-> value(i)],
                   defaulted |-> DOMAIN params \ supplied]

(* planGiRequest.  {} and a blank argument carry no value.                 *)
CarriesValues(arg) ==
    arg.is \in {"garbled", "no object"} \/ arg.members # << >>

Plan(w, name) ==
    CASE Routing(w, name) = "function" -> Validated(ParamsOf(w, name), w.arg)
      [] Routing(w, name) = "plain" ->
           IF CarriesValues(w.arg) THEN Refusal("not_parameterized") ELSE [kind |-> "plain"]
      [] OTHER -> Refusal(Routing(w, name))

-----------------------------------------------------------------------------
(* handleRunInquiry, after its arguments were found short enough.  A       *)
(* filter on a column that the registry flags as calculated is refused;    *)
(* unflagged, Acumatica's empty body is an error.                          *)
EffectiveTop(w) ==
    Min({IF w.topN = {} THEN DefaultTop ELSE Max(w.topN), w.maxRecords})

(* The rows, and whether the model is told that there may be more.  The    *)
(* mutant trusts a reply that is just full.                                *)
TruncatedWhenOver(w, rows) ==
    IF w.counts THEN w.matching > rows ELSE rows > EffectiveTop(w)
Truncated(w, rows) ==
    IF w.counts THEN w.matching > rows ELSE rows >= EffectiveTop(w)

Answer404(plan) ==
    IF plan.kind = "function" THEN Refusal("parameterized_inquiry_failed")
    ELSE [kind |-> "error"]

RunReply(w) ==
    LET plan == Plan(w, w.asked)
        rows == Min({w.matching, EffectiveTop(w)})
    IN  IF ~Allowed(w, w.asked) THEN Refusal("gate")
        ELSE IF plan.kind = "refused" THEN plan
        ELSE IF w.filter = "calculated" /\ w.flagged THEN Refusal("invalid_filter")
        ELSE IF w.filter = "calculated" THEN [kind |-> "error"]
        ELSE IF w.filter = "wrong" THEN Refusal("invalid_filter")
        ELSE IF w.served = "404" THEN Answer404(plan)
        ELSE IF w.served = "error" THEN [kind |-> "error"]
        ELSE [kind |-> "rows", plan |-> plan, rows |-> rows, truncated |-> Truncated(w, rows)]

(* handleDescribeInquiry.  With a required parameter there is no sample;   *)
(* a sample of a function is taken with no parameter, and not cached.      *)
DescribeReply(w) ==
    LET routing == Routing(w, w.asked)
        required == routing = "function"
                    /\ \E i \in DOMAIN ParamsOf(w, w.asked) : ParamsOf(w, w.asked)[i].required
        sampled(by, cache) == [kind |-> "schema", sampled |-> by, caches |-> cache]
    IN  IF ~Allowed(w, w.asked) THEN Refusal("gate")
        ELSE IF routing \notin {"plain", "function"} THEN Refusal(routing)
        ELSE IF required THEN sampled("no request", FALSE)
        ELSE IF routing = "plain" /\ w.cached THEN sampled("cache", FALSE)
        ELSE IF w.served # "rows" THEN [kind |-> "error"]
        ELSE IF w.matching = 0 THEN sampled("no row", FALSE)
        ELSE sampled(routing, routing = "plain")

(* handleListGenericInquiries: of the inquiries the service document names, *)
(* those in the registry; those with parameters only if they can be run.   *)
Parameterized(w, name) ==
    (w.metadata.read /\ Named(w, name) # {}) \/ Recorded(w, name)

ListReply(w, served) ==
    IF ~w.registry.built THEN [kind |-> "menu", names |-> {}]
    ELSE [kind |-> "menu",
          names |-> {name \in served :
                       /\ name.id \notin Excluded
                       /\ name \in DOMAIN w.registry.params
                       /\ w.enabled \/ ~Parameterized(w, name)}]

-----------------------------------------------------------------------------
NoWorld == [takes |-> << >>]
InquiryInit == world = NoWorld /\ tool = "none" /\ reply = NoReply

RunInquiry ==
    /\ tool = "none" /\ tool' = "run"
    /\ \E sort \in DOMAIN Worlds : world' \in Worlds[sort]
    /\ reply' = RunReply(world')

DescribeInquiry ==
    /\ tool = "none" /\ tool' = "describe"
    /\ \E sort \in DOMAIN Worlds : world' \in Worlds[sort]
    /\ reply' = DescribeReply(world')

(* The service document has the names that stand in a URL.                 *)
ListInquiries ==
    /\ tool = "none" /\ tool' = "list"
    /\ \E sort \in DOMAIN Worlds : world' \in Worlds[sort]
    /\ reply' = ListReply(world', {name \in world'.names : name.addressable})

InquiryNext == RunInquiry \/ DescribeInquiry \/ ListInquiries
InquirySpec == InquiryInit /\ [][InquiryNext]_inquiryVars
-----------------------------------------------------------------------------
(* The inquiries with parameters that a name may stand for: the service    *)
(* document drops characters that an inquiry's own name keeps.  A name     *)
(* that has no key stands for itself.                                      *)
Alike(m, n) == m = n \/ (m.key = n.key /\ n.key # NoKey)
MeantBy(w, name) ==
    IF name \in DOMAIN w.takes THEN {name} ELSE {n \in DOMAIN w.takes : Alike(n, name)}

(* The copies tell the truth about them: what the copy of $metadata lists  *)
(* for the name is as it lists it, and for what it does not list the       *)
(* registry has parameters under the name.                                 *)
Current(w, name) ==
    /\ \A f \in Named(w, name) : w.metadata.read /\ w.metadata.functions[f].parsed =>
          f \in DOMAIN w.takes /\ w.metadata.functions[f] = w.takes[f]
    /\ \A n \in MeantBy(w, name) :
          \/ w.metadata.read /\ n \in DOMAIN w.metadata.functions
          \/ n = name /\ name \in DOMAIN w.registry.params /\ Recorded(w, name)

(* gi-parameters.ts:444-458: an inquiry that takes parameters is run, or   *)
(* sampled, only through its function, with every value the model gave     *)
(* applied once and to its parameter, no required parameter left out, and  *)
(* the others reported as defaulted; its sample is not shared; and while   *)
(* parameters are off the menu does not offer it.                          *)
AppliedAsGiven(plan, params, members) ==
    /\ Range(plan.applied) = {k \in DOMAIN members : members[k].form = "scalar"}
    /\ \A i \in DOMAIN plan.applied :
          LET member == members[plan.applied[i]]
          IN  /\ params[i].type \in member.fits
              /\ params[i].low = member.low
              /\ \A j \in DOMAIN params : params[j].name = member.name =>
                    params[i].name = member.name
    /\ DOMAIN plan.applied \union plan.defaulted = DOMAIN params
    /\ \A i \in DOMAIN params : params[i].required => i \in DOMAIN plan.applied

NeverUnfiltered ==
    LET meant == MeantBy(world, world.asked)
    IN  CASE tool = "run" /\ reply.kind = "rows" /\ Current(world, world.asked) ->
               IF meant # {}
               THEN /\ reply.plan.kind = "function"
                    /\ \E n \in DOMAIN world.takes :
                          /\ Alike(n, world.asked)
                          /\ meant \subseteq DOMAIN world.metadata.functions => n \in meant
                          /\ AppliedAsGiven(reply.plan, world.takes[n].params, world.arg.members)
               ELSE reply.plan.kind = "plain" => ~CarriesValues(world.arg)
          [] tool = "describe" /\ reply.kind = "schema" /\ Current(world, world.asked) ->
               meant # {} => reply.sampled # "plain" /\ ~reply.caches
          [] tool = "list" ->
               \A name \in reply.names :
                  Allowed(world, name)
                    /\ (~world.enabled /\ Current(world, name) => MeantBy(world, name) = {})
          [] OTHER -> TRUE

(* generic-inquiries.ts:203-239: rows that come without a word on more are *)
(* all there are.                                                          *)
InquiryComplete ==
    tool = "run" /\ reply.kind = "rows" /\ ~reply.truncated => reply.rows = world.matching
=============================================================================

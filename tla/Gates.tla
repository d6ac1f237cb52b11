------------------------------- MODULE Gates -------------------------------
(***************************************************************************)
(* The regime gate of a SIGNAL alpha, from the features of a snapshot to   *)
(* the latch: the ON and OFF conditions a manifest declares (RegimeGate,   *)
(* evaluate), the names they may read (alpha/dependency_graph.py), and     *)
(* what HorizonSignalEngine binds to these names at a boundary.            *)
(*                                                                         *)
(* A condition is the tree ast.parse makes of it: [op, args], a name with  *)
(* its id, a constant with its value, a comparison with its ops.  Numbers  *)
(* are in hundredths, a truth value is one of them, and nothing orders two *)
(* strings.  One behaviour follows one alpha on one symbol.                *)
(***************************************************************************)
EXTENDS Features

CONSTANTS
    GateBlocks,     \* what manifests say: on, off, margins, parameters, engine, reads
    Snapshots,      \* feature -> [warm, stale, value]
    SensorCaches,   \* _sensor_cache as of the boundary: sensor -> value
    RegimeCaches,   \* _regime_cache, in the order of first publication
    FeatureSensor,  \* the features of the horizon, and the sensor each is of
    StateNames,     \* state_names of the engine
    DerivedNames,   \* the names that end in _zscore or _percentile
    Literals,       \* pNN -> NN
    MinDiscriminability

VARIABLES
    block,      \* the gate of the alpha
    latched,    \* RegimeGate._state
    was,        \* the latch before the last boundary
    seen,       \* history: the snapshot and the bindings of the last boundary
    raised,     \* what the evaluation raised, or "nothing"
    close,      \* reason of the SafetyStateChange published, or "none"
    entering    \* the alpha's evaluate was called

gateVars == <<block, latched, was, seen, raised, close, entering>>

Number(n) == <<"num", n>>
Text(s) == <<"str", s>>
Raises(kind) == <<"raises", kind>>
IsError(v) == v[1] = "raises"
Truth(p) == Number(IF p THEN 100 ELSE 0)
Truthy(v) == v # Number(0)

-----------------------------------------------------------------------------
(* Names.                                                                  *)

\* At most one regime is bound; it is told from none by being in the set.
_regime_unusable_reason(r) ==
    ~r.calibrated \/ (MinDiscriminability > 0 /\ r.separation < MinDiscriminability)

Usable(b) == b.regime # {} /\ \A r \in b.regime : ~_regime_unusable_reason(r)

TheRegime(b) == CHOOSE r \in b.regime : TRUE

Bound(values, n) == IF n \in DOMAIN values THEN Number(values[n]) ELSE Raises("missing_binding")

\* A z-score is looked up among the published ones, whatever else has its name.
_resolve_name(n, b) ==
    IF n \in {"dominant", "entropy"} /\ ~Usable(b) THEN Raises("missing_binding")
    ELSE IF n = "dominant" THEN Text(TheRegime(b).dominant)
    ELSE IF n = "entropy" THEN Number(TheRegime(b).entropy)
    ELSE IF n \in DOMAIN Literals
    THEN IF Literals[n] <= 100 THEN Number(Literals[n]) ELSE Raises("gate_error")
    ELSE IF n \in DerivedNames THEN Bound(b.derived, n)
    ELSE Bound(b.values, n)

\* Among usable regimes or not, a state the engine does not have is an error.
_resolve_posterior(state, b) ==
    IF \E r \in b.regime : state \notin DOMAIN r.posteriors THEN Raises("gate_error")
    ELSE IF ~Usable(b) THEN Raises("missing_binding")
    ELSE Number(TheRegime(b).posteriors[state])

-----------------------------------------------------------------------------
(* Conditions.                                                             *)

_compare(op, l, r) ==
    CASE op \in {"==", "!="} -> Truth((l = r) = (op = "=="))
      [] op \notin {"==", "!="} /\ "str" \in {l[1], r[1]} -> Raises("arithmetic_error")
      [] op = "<" -> Truth(l[2] < r[2])
      [] op = "<=" -> Truth(l[2] <= r[2])
      [] op = ">" -> Truth(l[2] > r[2])
      [] op = ">=" -> Truth(l[2] >= r[2])

\* The first operand that decides is the last that is read.
Connect(op, vs) ==
    LET stops == {i \in DOMAIN vs : IsError(vs[i]) \/ Truthy(vs[i]) = (op = "or")}
    IN  IF stops = {} THEN Truth(op = "and")
        ELSE IF IsError(vs[Min(stops)]) THEN vs[Min(stops)] ELSE Truth(op = "or")

\* a < b < c: every link holds; the first that does not ends it.
Link(ops, vs, i) ==
    IF IsError(vs[i]) THEN vs[i] ELSE IF IsError(vs[i + 1]) THEN vs[i + 1]
    ELSE _compare(ops[i], vs[i], vs[i + 1])

Chain(ops, vs) ==
    LET stops == {i \in DOMAIN ops : Link(ops, vs, i) # Truth(TRUE)}
    IN  IF stops = {} THEN Truth(TRUE) ELSE Link(ops, vs, Min(stops))

Divided(a, b) == IF b < 0 THEN (-a) \div (-b) ELSE a \div b

Compute(op, x) ==
    CASE op = "-" /\ Len(x) = 1 -> Number(-x[1])
      [] op = "+" -> Number(x[1] + x[2])
      [] op = "-" /\ Len(x) = 2 -> Number(x[1] - x[2])
      [] op = "*" -> Number((x[1] * x[2]) \div 100)
      [] op \in {"/", "//", "%"} /\ x[2] = 0 -> Raises("arithmetic_error")
      [] op = "/" /\ x[2] # 0 -> Number(Divided(100 * x[1], x[2]))
      [] op = "//" /\ x[2] # 0 -> Number(100 * Divided(x[1], x[2]))
      [] op = "%" /\ x[2] # 0 -> Number(x[1] - Divided(x[1], x[2]) * x[2])
      [] op = "abs" /\ Len(x) = 1 -> Number(Max({x[1], -x[1]}))
      [] op \in {"min", "max"} /\ Len(x) > 1 -> Number(IF op = "min" THEN Min(Range(x)) ELSE Max(Range(x)))
      [] OTHER -> Raises("arithmetic_error")

Operate(op, vs) ==
    LET failed == {i \in DOMAIN vs : IsError(vs[i])}
    IN  IF failed # {} THEN vs[Min(failed)]
        ELSE IF op = "not" THEN Truth(~Truthy(vs[1]))
        ELSE IF \E i \in DOMAIN vs : vs[i][1] = "str" THEN Raises("arithmetic_error")
        ELSE Compute(op, [i \in DOMAIN vs |-> vs[i][2]])

Apply(node, vs) ==
    IF node.op \in {"and", "or"} THEN Connect(node.op, vs)
    ELSE IF node.op = "compare" THEN Chain(node.ops, vs) ELSE Operate(node.op, vs)

RECURSIVE _eval_node(_, _)
_eval_node(node, b) ==
    CASE node.op = "constant" -> node.value
      [] node.op = "name" -> _resolve_name(node.id, b)
      [] node.op = "P" -> _resolve_posterior(node.args[1].id, b)
      [] OTHER -> Apply(node, [i \in DOMAIN node.args |-> _eval_node(node.args[i], b)])

Evaluate(g, on, b) == _eval_node(IF on THEN g.off ELSE g.on, b)

-----------------------------------------------------------------------------
(* What a condition reads.                                                 *)

RECURSIVE Nodes(_)
Nodes(node) == {node} \union UNION {Nodes(node.args[i]) : i \in DOMAIN node.args}

NodesOf(g) == Nodes(g.on) \union Nodes(g.off)
NamesOf(nodes) == {n.id : n \in {m \in nodes : m.op = "name"}}

_p_posterior_argument_names(g) ==
    {n.args[1].id : n \in {m \in NodesOf(g) : m.op = "P"}}

\* A flag or a text among the parameters is no constant of the gate.
numeric_gate_params(params) ==
    [p \in {q \in DOMAIN params : params[q][1] = "num"} |-> params[p][2]]

binding_identifier_names(g) ==
    NamesOf(NodesOf(g)) \ (_p_posterior_argument_names(g) \union {"dominant", "entropy"}
        \union DOMAIN g.margins \union DOMAIN numeric_gate_params(g.parameters)
        \union DOMAIN Literals)

feature_ids_of(s) == {f \in DOMAIN FeatureSensor : FeatureSensor[f] = s}

\* A sensor that is named stands for the features made of it.
Expanded(n) ==
    IF n \in DerivedNames \union DOMAIN FeatureSensor THEN {n} ELSE feature_ids_of(n)

required_warm(g) == g.reads \union UNION {Expanded(n) : n \in binding_identifier_names(g)}

Operators == {"and", "or", "not", "-", "+", "*", "/", "//", "%", "compare", "constant", "name",
              "abs", "min", "max", "P"}

_validate(tree) ==
    \A n \in Nodes(tree) :
        n.op \in Operators /\ (n.op = "P" => Len(n.args) = 1 /\ n.args[1].op = "name")

\* The strict load of the block, and the checks of bootstrap on its names.
Loads(g) ==
    /\ _validate(g.on) /\ _validate(g.off)
    /\ DOMAIN g.margins \subseteq NamesOf(NodesOf(g))
    /\ _p_posterior_argument_names(g) \subseteq StateNames
    /\ DOMAIN g.parameters \intersect
           (DOMAIN FeatureSensor \union {FeatureSensor[f] : f \in DOMAIN FeatureSensor}) = {}
    /\ \A n \in binding_identifier_names(g) :
           Expanded(n) # {} /\ Expanded(n) \subseteq DOMAIN FeatureSensor

-----------------------------------------------------------------------------
(* What the engine binds.                                                  *)

\* Of engines that published at one time, the one that published first.
Newest(cache) ==
    {cache[i] : i \in {k \in DOMAIN cache : \A j \in DOMAIN cache :
        cache[j].at < cache[k].at \/ (cache[j].at = cache[k].at /\ k <= j)}}

_lookup_regime(cache, engine) ==
    IF engine = "any" THEN Newest(cache)
    ELSE {r \in Range(cache) : r.engine = engine}

\* A cold feature has no value; the sensor of its name may have one.
Visible(snap, cached) ==
    [f \in {g \in DOMAIN snap : snap[g].warm} |-> snap[f].value] @@ cached

\* With the margins before the live values and these before the parameters.
_build_bindings(g, values, regime) ==
    [regime |-> regime,
     derived |-> Restrict(values, DOMAIN values \intersect DerivedNames),
     values |-> g.margins @@ values @@ numeric_gate_params(g.parameters)]

Bindings(g, snap, cached, cache) ==
    _build_bindings(g, Visible(snap, cached), _lookup_regime(cache, g.engine))

IsReady(snap, f) == snap[f].warm /\ ~snap[f].stale
Unblocked(g, snap) == \A f \in required_warm(g) \intersect DOMAIN snap : IsReady(snap, f)

-----------------------------------------------------------------------------
Reason(on, v) == IF ~latched \/ on THEN "none" ELSE IF IsError(v) THEN v[2] ELSE "clean_transition"

\* The condition of the other position turns the latch; what it raises turns
\* it off; inputs that are cold or stale do not turn it on.
Settle(v, on, unblocked) ==
    /\ latched' = (on /\ (latched \/ unblocked))
    /\ entering' = (on /\ unblocked)
    /\ close' = Reason(on, v)
    /\ raised' = IF IsError(v) THEN v[2] ELSE "nothing"

Resolve(v, unblocked) == Settle(v, ~IsError(v) /\ Truthy(v) # latched, unblocked)

GateInit ==
    /\ block \in {g \in GateBlocks : Loads(g)}
    /\ latched = FALSE /\ was = FALSE /\ seen = <<>>
    /\ raised = "nothing" /\ close = "none" /\ entering = FALSE

Dispatch ==
    /\ \E snap \in Snapshots, cached \in SensorCaches, cache \in RegimeCaches :
          seen' = <<snap, Bindings(block, snap, cached, cache)>>
    /\ Resolve(Evaluate(block, latched, seen'[2]), Unblocked(block, seen'[1]))
    /\ was' = latched
    /\ UNCHANGED block

GateNext == Dispatch

GateSpec == GateInit /\ [][GateNext]_gateVars
-----------------------------------------------------------------------------
Mentioned(g) ==
    LET ids == NamesOf(NodesOf(g)) \ DOMAIN g.margins
    IN  g.reads \union {f \in DOMAIN FeatureSensor :
                           f \in ids \/ FeatureSensor[f] \in ids \ DOMAIN FeatureSensor}

\* Bindings that have all of b and may have what b lacks.
Completes(c, b) ==
    /\ \A n \in DOMAIN b.values : n \in DOMAIN c.values /\ c.values[n] = b.values[n]
    /\ Usable(b) => c.regime = b.regime

\* No value that was missing could have turned the verdict.
Stands(verdict) ==
    \A snap \in Snapshots, cached \in SensorCaches, cache \in RegimeCaches :
        LET b == Bindings(block, snap, cached, cache)
        IN  Completes(b, seen[2]) => Evaluate(block, was, b) = verdict

\* A signal is asked for only when each feature the alpha or its gate mentions
\* was warm and fresh, although a cold one may be read from its sensor; a gate
\* whose features are all there is not closed for a missing binding; and a
\* verdict is never one that the values missing from it could have turned.
GatesReadWhatIsReady ==
    seen # <<>> =>
        /\ entering => \A f \in Mentioned(block) : IsReady(seen[1], f)
        /\ ((\A f \in Mentioned(block) : IsReady(seen[1], f)) /\ Usable(seen[2])
              /\ binding_identifier_names(block) \subseteq DOMAIN seen[2].values)
           => raised # "missing_binding"
        /\ raised = "nothing" => Stands(Evaluate(block, was, seen[2]))

\* From the event to the latch: what the sensors say of the market, the
\* features of the sensors, and the gates of the features (sensors/impl/,
\* features/impl/, core/regime_gate.py).
ValuesAreDefined == ReadingsAreDefined /\ FeaturesAreDefined /\ GatesReadWhatIsReady
=============================================================================

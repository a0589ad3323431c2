------------------------------- MODULE MCSetUp -------------------------------
(***************************************************************************)
(* SetUp over small tables, classes, signatures, workers and settings.     *)
(***************************************************************************)
EXTENDS SetUp

-----------------------------------------------------------------------------
(* Machines: a key twice, each kind of constraint on a state and on an edge that *)
(* need not exist, and a timeout that is no timeout. *)

Timeout(kind, when, timeout) == [kind |-> kind, when |-> when, timeout |-> timeout]

TheConstraints ==
    {Timeout("heartbeat", "y", 1), Timeout("heartbeat", "y", 2), Timeout("state", "x", 1),
     Timeout("state", "z", 2),
     Timeout("state", "y", 0), Timeout("transition", <<"x", "y">>, 1)}

TheActorSets == {{}, {"y"}, {"y", "z"}}

-----------------------------------------------------------------------------
(* Classes: two hooks, two methods, and the bodies that can tell orders apart. *)

PreRun == <<"pre", "running", "run">>
InRunning == <<"actor", "running">>
TheHooks == {PreRun, InRunning}

Function(m, hs, is_coro) == [method |-> m, hooks |-> hs, is_coro |-> is_coro]

TheBodies ==
    {<<>>,
     <<Function("f", <<PreRun>>, IsAsync)>>,
     <<Function("f", <<>>, ~IsAsync)>>,
     <<Function("g", <<InRunning, PreRun>>, IsAsync), Function("f", <<PreRun>>, IsAsync)>>,
     <<Function("f", <<InRunning>>, IsAsync)>>,
     <<Function("g", <<PreRun>>, ~IsAsync)>>}

-----------------------------------------------------------------------------
(* Clones: signatures of up to five parameters, and calls that may or may not fit. *)

Param(name, kind, default) == [name |-> name, kind |-> kind, default |-> default]

NameParams ==
    {<<>>, <<Param("name", "normal", FALSE)>>, <<Param("name", "normal", TRUE)>>,
     <<Param("name", "positional_only", FALSE)>>}
PathParams == {<<>>, <<Param("path", "normal", FALSE)>>, <<Param("path", "positional_only", TRUE)>>}
ArgsParams == {<<>>, <<Param("args", "var_positional", FALSE)>>}
FsmParams  == {<<>>, <<Param("fsm", "keyword_only", TRUE)>>}
RestParams == {<<>>, <<Param("kwargs", "var_keyword", FALSE)>>}

\* Positional-only parameters come first, those with a default last.
IsSignature(sig) ==
    \A i, j \in DOMAIN sig :
        {sig[i].kind, sig[j].kind} \subseteq {"positional_only", "normal"} /\ i < j =>
            /\ sig[j].kind = "positional_only" => sig[i].kind = "positional_only"
            /\ sig[i].default => sig[j].default

TheSignatures ==
    {sig \in UNION {{n \o p \o a \o f \o r, p \o n \o a \o f \o r} :
                        n \in NameParams, p \in PathParams, a \in ArgsParams,
                        f \in FsmParams, r \in RestParams} : IsSignature(sig)}

Given == [name |-> "w", path |-> "p", fsm |-> "m", extra |-> "e"]

TheCalls ==
    [pos : {<<>>, <<"w">>, <<"w", "p">>, <<"w", "p", "q">>},
     kws : {[k \in ks |-> Given[k]] : ks \in SUBSET DOMAIN Given}]

-----------------------------------------------------------------------------
(* Registration: two workers that clash, one of another name, one of another mode, *)
(* an empty child; or a worker with a name that nobody forbids. *)

Worker(name, mode, empty) == [name |-> name, mode |-> mode, empty |-> empty]

NamedWorkers ==
    {Worker("a", "sync", FALSE), Worker("b", "sync", FALSE), Worker("b", "async", FALSE),
     Worker("b", "sync", TRUE), Worker("c", "sync", FALSE)}

UnnamedWorkers == {Worker("", "sync", FALSE), Worker("b", "sync", FALSE)}

-----------------------------------------------------------------------------
(* Settings: the fields of RunsmithSettings but one of two alike, and one of a *)
(* subclass; strings are "1", "-1", "0.5", "yes" and "maybe". *)

Field(name, type, default) == [name |-> name, type |-> type, default |-> default]
Number(kind, halves) == [kind |-> kind, halves |-> halves]
String(int, float, bool) == [kind |-> "str", int |-> int, float |-> float, bool |-> bool]

NoNumber == 10003

TheFields ==
    << Field("supervision_interval", "float", Number("float", 1)),
       Field("worker_restart_quota", "int", Number("int", 6)),
       Field("activity_queue_maxsize", "int", Number("int", 4)),
       Field("is_enabled", "bool", [kind |-> "missing"]) >>

Strings ==
    {String(2, 2, 2), String(-2, -2, NoNumber), String(NoNumber, 1, NoNumber),
     String(NoNumber, NoNumber, 2), String(NoNumber, NoNumber, NoNumber)}

Numbers ==
    {Number("int", 0), Number("int", -2), Number("float", 1), Number("float", -1),
     Number("bool", 2), Number("float", 10001)}

Partial(keys, range) == UNION {[ks -> range] : ks \in SUBSET keys}

TheOverrides ==
    Partial({"activity_queue_maxsize", "worker_restart_quota", "is_enabled"}, Numbers)
        \cup {[n \in {"mystery"} |-> Number("int", 2)]}

TheEnvironments == Partial({"activity_queue_maxsize", "is_enabled", "unrelated"}, Strings)
=============================================================================

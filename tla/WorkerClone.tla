---------------------------- MODULE WorkerClone -----------------------------
(***************************************************************************)
(* Rebuilding a worker from its template. A supervisor never runs what was *)
(* registered: it runs clones, one per incarnation (supervisor.py:142).    *)
(* clone() replays the constructor with the arguments that wrapped_init    *)
(* has collected into _meta, the name, and the machine where the           *)
(* signature takes one (worker.py:119-137, 175-194, 201-209).              *)
(*                                                                         *)
(* A class is its __init__: the parameters after self, and what it does    *)
(* with the machine and the rest. A parameter is [name, kind, default].    *)
(***************************************************************************)
EXTENDS Naturals, Functions

CONSTANTS
    Signatures,      \* sequences of parameters
    Calls,           \* [pos, kws]: how somebody may construct a worker
    MaxClones        \* bound: clones of clones

(* What __init__ passes to WorkerBase.__init__, besides a name:
     "fsm"       its own parameter of that name
     "none"      nothing: the default machine
     "own"       a machine of its own
     "kwargs"    whatever keyword arguments are left
     "own_kwargs" both of these
   A __init__ without parameter for the name passes one of its own. *)
Supers == {"fsm", "none", "own", "kwargs", "own_kwargs"}

Kinds == {"positional_only", "normal", "keyword_only", "var_positional", "var_keyword"}

VARIABLES
    class,           \* [sig, super]
    worker,          \* the last worker constructed, [name, fsm, fields, _meta]
    template,        \* the first
    clones,          \* how many clones were made in a row
    pc               \* "new", "built", "type_error", "clone_error"

vars == <<class, worker, template, clones, pc>>

Fail == [failed |-> TRUE]
Failed(x) == "failed" \in DOMAIN x

Empty == [k \in {} |-> "nothing"]

\* Fields that are not set yet.
Nobody == [name |-> "nobody", fsm |-> "none", fields |-> Empty, _meta |-> Empty]

-----------------------------------------------------------------------------
(* inspect.Signature.bind, and a call, which binds alike. *)

NamesOf(sig, kinds) == {sig[i].name : i \in {j \in DOMAIN sig : sig[j].kind \in kinds}}

\* Parameters that take an argument by its place; they come first.
Places(sig) == {i \in DOMAIN sig : sig[i].kind \in {"positional_only", "normal"}}

Filled(sig, call) == {sig[i].name : i \in Places(sig) \cap DOMAIN call.pos}

Keywords(sig) == NamesOf(sig, {"normal", "keyword_only"})

Required(sig) ==
    {sig[i].name : i \in {j \in DOMAIN sig : ~sig[j].default /\
                            sig[j].kind \in {"positional_only", "normal", "keyword_only"}}}

Binds(sig, call) ==
    /\ DOMAIN call.pos \subseteq Places(sig) \/ NamesOf(sig, {"var_positional"}) # {}
    /\ Filled(sig, call) \cap Keywords(sig) \cap DOMAIN call.kws = {}
    /\ DOMAIN call.kws \subseteq Keywords(sig) \/ NamesOf(sig, {"var_keyword"}) # {}
    /\ Required(sig) \subseteq Filled(sig, call) \cup (DOMAIN call.kws \cap Keywords(sig))

Argument(sig, call, p) ==
    LET places == {i \in Places(sig) \cap DOMAIN call.pos : sig[i].name = p.name}
    IN IF places # {} THEN call.pos[CHOOSE i \in places : TRUE]
       ELSE IF p.kind # "positional_only" /\ p.name \in DOMAIN call.kws
       THEN call.kws[p.name]
       ELSE "default"

\* The value of a parameter once defaults are applied; *args keep their places.
Value(sig, call, p) ==
    CASE p.kind = "var_positional" -> Restrict(call.pos, DOMAIN call.pos \ Places(sig))
      [] p.kind = "var_keyword" -> Restrict(call.kws, DOMAIN call.kws \ Keywords(sig))
      [] OTHER -> Argument(sig, call, p)

Bound(sig, call) ==
    [n \in {sig[i].name : i \in DOMAIN sig} |->
        Value(sig, call, sig[CHOOSE i \in DOMAIN sig : sig[i].name = n])]

-----------------------------------------------------------------------------
(* Construction. *)

Excluded == {"name", "fsm"}

Merge(f, g) == [k \in DOMAIN f \cup DOMAIN g |-> IF k \in DOMAIN g THEN g[k] ELSE f[k]]

\* *args has no keyword to be replayed by.
CollectInitMeta(sig, call) ==
    LET bound == Bound(sig, call)
        named == Restrict(bound, NamesOf(sig, {"positional_only", "normal", "keyword_only"})
                                    \ Excluded)
        rest  == NamesOf(sig, {"var_keyword"})
    IN IF rest = {} THEN named
       ELSE Merge(named, Restrict(bound[CHOOSE n \in rest : TRUE],
                                  DOMAIN bound[CHOOSE n \in rest : TRUE] \ Excluded))

\* The keyword arguments left over.
Rest(sig, call) ==
    LET rest == NamesOf(sig, {"var_keyword"})
    IN IF rest = {} THEN Empty ELSE Bound(sig, call)[CHOOSE n \in rest : TRUE]

\* What WorkerBase.__init__ is called with, beyond its name.
SuperKeywords(cls, call) ==
    CASE cls.super = "fsm" -> [fsm |-> Bound(cls.sig, call)["fsm"]]
      [] cls.super = "none" -> Empty
      [] cls.super = "own" -> [fsm |-> "own"]
      [] cls.super \in {"kwargs", "own_kwargs"} -> Rest(cls.sig, call)

SuperBinds(cls, call) ==
    /\ DOMAIN SuperKeywords(cls, call) \subseteq {"fsm"}
    /\ cls.super = "own_kwargs" => "fsm" \notin DOMAIN SuperKeywords(cls, call)

MachineOf(cls, call) ==
    IF cls.super = "own_kwargs" THEN "own"
    ELSE IF "fsm" \in DOMAIN SuperKeywords(cls, call) THEN SuperKeywords(cls, call)["fsm"]
    ELSE "default"

\* Every argument that does not go to the base ends in a field.
Kept(cls) ==
    NamesOf(cls.sig, Kinds) \ ({"name", "fsm"} \cup
        IF cls.super \in {"kwargs", "own_kwargs"} THEN NamesOf(cls.sig, {"var_keyword"}) ELSE {})

New(cls, call) ==
    IF ~Binds(cls.sig, call) \/ ~SuperBinds(cls, call) THEN Fail
    ELSE [name   |-> IF "name" \in NamesOf(cls.sig, Kinds)
                     THEN Bound(cls.sig, call)["name"] ELSE "fixed",
          fsm    |-> MachineOf(cls, call),
          fields |-> Restrict(Bound(cls.sig, call), Kept(cls)),
          _meta  |-> CollectInitMeta(cls.sig, call)]

MutAcceptsFsm(cls) == "fsm" \in NamesOf(cls.sig, Kinds)

AcceptsFsm(cls) ==
    "fsm" \in NamesOf(cls.sig, Kinds) \/ NamesOf(cls.sig, {"var_keyword"}) # {}

Replay(cls, w) ==
    [pos |-> <<>>,
     kws |-> Merge(Merge(w._meta, IF AcceptsFsm(cls) THEN [fsm |-> w.fsm] ELSE Empty),
                   [name |-> w.name])]

Clone(cls, w) == New(cls, Replay(cls, w))

-----------------------------------------------------------------------------

\* A class that can be written: a parameter for the machine only if it is passed on,
\* left-over arguments are passed on only if there are any.
IsClass(cls) ==
    /\ cls.super = "fsm" <=> "fsm" \in NamesOf(cls.sig, Kinds)
    /\ cls.super \in {"kwargs", "own_kwargs"} => NamesOf(cls.sig, {"var_keyword"}) # {}

Init ==
    /\ class \in {cls \in [sig : Signatures, super : Supers] : IsClass(cls)}
    /\ worker = Nobody /\ template = Nobody /\ clones = 0 /\ pc = "new"

Construct(call) ==
    /\ pc = "new"
    /\ LET w == New(class, call)
       IN IF Failed(w) THEN pc' = "type_error" /\ UNCHANGED <<worker, template>>
          ELSE pc' = "built" /\ worker' = w /\ template' = w
    /\ UNCHANGED <<class, clones>>

\* A child supervisor's clone clones its templates (supervisor.py:314-318), so
\* clones are cloned.
CloneAgain ==
    /\ pc = "built" /\ clones < MaxClones /\ clones' = clones + 1
    /\ LET w == Clone(class, worker)
       IN IF Failed(w) THEN pc' = "clone_error" /\ UNCHANGED worker
          ELSE worker' = w /\ UNCHANGED pc
    /\ UNCHANGED <<class, template>>

Next ==
    \/ \E call \in Calls : Construct(call)
    \/ CloneAgain
    \/ UNCHANGED vars

Spec == Init /\ [][Next]_vars

-----------------------------------------------------------------------------
(* Properties. *)

Same(v, w) == v.name = w.name /\ v.fsm = w.fsm /\ v.fields = w.fields

\* What can be replayed: arguments with keywords (the name among them), none in *args;
\* and where **kwargs takes the machine, it goes to the base unaccompanied.
IsReplayable(cls, w) ==
    /\ "name" \in Keywords(cls.sig)
    /\ NamesOf(cls.sig, {"positional_only"}) = {}
    /\ \A n \in NamesOf(cls.sig, {"var_positional"}) : DOMAIN w.fields[n] = {}
    /\ NamesOf(cls.sig, {"var_keyword"}) # {} => cls.super \in {"fsm", "kwargs"}

\* An argument that **kwargs took goes by the name of a parameter it cannot be given
\* to, as in C(path="p") for __init__(self, path=None, /, **kwargs).
IsShadowed(cls, w) ==
    \E n \in NamesOf(cls.sig, {"var_keyword"}) \cap DOMAIN w.fields :
        DOMAIN w.fields[n] \cap (NamesOf(cls.sig, {"positional_only"}) \cup Excluded) # {}

IsEquivalent == pc = "built" /\ Same(worker, template)

\* A clone, and a clone of a clone, is equivalent to the template in its name, its
\* machine and every field, exactly if the arguments can be replayed: of any other
\* class the first clone already is a TypeError or another worker, unless a shadowed
\* argument takes what was meant for its parameter (worker.py:119-137, 201-209).
ClonesAreFaithful ==
    clones > 0 =>
        /\ IsReplayable(class, template) => IsEquivalent
        /\ IsEquivalent => IsReplayable(class, template) \/ IsShadowed(class, template)

=============================================================================

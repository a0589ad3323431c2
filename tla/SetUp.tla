-------------------------------- MODULE SetUp --------------------------------
(***************************************************************************)
(* What happens before a supervisor runs: the construction of a machine    *)
(* (MachineBuilder, with the life of a worker on it), the collection of a  *)
(* class's hooks, the cloning of a worker, registration and boot, and the  *)
(* settings. They share nothing: part says which of them a behaviour is    *)
(* about, and the others stay where they began.                            *)
(***************************************************************************)
EXTENDS MachineBuilder

CONSTANTS
    Classes, Plain, Hooks, Methods, Bodies, IsAsync,       \* of HookCollection
    Signatures, Calls, MaxClones,                          \* of WorkerClone
    Candidates, MaxBatch, Mode, RestartQuota,              \* of Registration
    Fields, Overrides, Environments,                       \* of Settings
    Parts            \* the modules a run is about

ASSUME BootAssumption == RestartQuota \in Nat /\ MaxBatch \in Nat

\* A function of a class body has a name and the notes of its decorators.
ASSUME BodiesAssumption ==
    Bodies \subseteq Seq([method : Methods, hooks : Seq(Hooks), is_coro : BOOLEAN])

\* The fields of a class have different names.
ASSUME FieldsAssumption ==
    /\ Len(Fields) \in Nat /\ DOMAIN Fields = 1..Len(Fields)
    /\ \A i, j \in DOMAIN Fields : Fields[i].name = Fields[j].name => i = j

\* What the syntax asks of a signature; a worker's name and machine are no *args or **kwargs.
ASSUME SignatureAssumption ==
    \A sig \in Signatures :
        /\ \A i \in DOMAIN sig :
              /\ sig[i].kind \in {"positional_only", "normal", "keyword_only",
                                  "var_positional", "var_keyword"}
              /\ sig[i].name \in {"name", "fsm"} =>
                    sig[i].kind \notin {"var_positional", "var_keyword"}
        /\ \A i, j \in DOMAIN sig : sig[i].name = sig[j].name => i = j

VARIABLES
    part,
    mro, body, hooks, rejected,
    class, clone, template, clones, clone_pc,
    templates, units, running, starting, booted, error, boot_pc,
    overrides, env, next, values, outcome

Class == INSTANCE HookCollection
Clone == INSTANCE WorkerClone WITH worker <- clone, pc <- clone_pc
Registry == INSTANCE Registration WITH Workers <- Candidates, pc <- boot_pc
Setting == INSTANCE Settings

class_vars   == <<mro, body, hooks, rejected>>
clone_vars   == <<class, clone, template, clones, clone_pc>>
boot_vars    == <<templates, units, running, starting, booted, error, boot_pc>>
setting_vars == <<overrides, env, next, values, outcome>>

all == <<part, vars, class_vars, clone_vars, boot_vars, setting_vars>>

\* A part the behaviour is not about begins in one way, so that it multiplies nothing.
SetUpInit ==
    /\ part \in Parts
    /\ Init /\ (part # "machine" => table = <<>>)
    /\ Class!Init
    /\ IF part = "clone" THEN Clone!Init
       ELSE /\ class = [sig |-> <<>>, super |-> "none"]
            /\ clone = Clone!Nobody /\ template = Clone!Nobody
            /\ clones = 0 /\ clone_pc = "new"
    /\ Registry!Init
    /\ IF part = "settings" THEN Setting!Init
       ELSE /\ overrides = <<>> /\ env = <<>>
            /\ next = 1 /\ values = <<>> /\ outcome = "walking"

InMachine ==
    /\ part = "machine" /\ Next
    /\ UNCHANGED <<part, class_vars, clone_vars, boot_vars, setting_vars>>

InClass ==
    /\ part = "class" /\ Class!Next
    /\ UNCHANGED <<part, vars, clone_vars, boot_vars, setting_vars>>

InClone ==
    /\ part = "clone" /\ Clone!Next
    /\ UNCHANGED <<part, vars, class_vars, boot_vars, setting_vars>>

InBoot ==
    /\ part = "boot" /\ Registry!Next
    /\ UNCHANGED <<part, vars, class_vars, clone_vars, setting_vars>>

InSettings ==
    /\ part = "settings" /\ Setting!Next
    /\ UNCHANGED <<part, vars, class_vars, clone_vars, boot_vars>>

SetUpNext == InMachine \/ InClass \/ InClone \/ InBoot \/ InSettings

SetUpSpec == SetUpInit /\ [][SetUpNext]_all

-----------------------------------------------------------------------------
(* The properties of the instances; those of MachineBuilder are its own. *)

\* Along single inheritance the hooks of the line's bodies add up in order.
HooksAddUpAlongALine == Class!HooksAddUpAlongALine

\* Clones, and clones of clones, are equivalent exactly if arguments can be replayed,
\* a shadowed one excepted.
ClonesAreFaithful == Clone!ClonesAreFaithful

\* Executors, units and templates add up, whoever registers what and when ...
UnitsAreAccounted == Registry!UnitsAreAccounted

\* ... of workers that have a name.
WorkersAreNamed == "" \notin Registry!WorkerNames

\* advanced.md:84: restarts wait for exits, which "prevents overlapping incarnations".
IncarnationsDoNotOverlap == Registry!IncarnationsDoNotOverlap

\* Settings are made exactly if the first source of every field converts to its type.
SettingsAreResolved == Setting!SettingsAreResolved
=============================================================================

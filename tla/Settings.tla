------------------------------ MODULE Settings ------------------------------
(***************************************************************************)
(* runsmith/settings.py: where a setting gets its value, what it is        *)
(* converted to, and when there is none.                                   *)
(*                                                                         *)
(* Numbers are counted in halves, so that 1 is the float 0.5. A raw value  *)
(* is a record: [kind, halves] for bool, int and float, and                *)
(* [kind, int, float, bool] for a string, with what each conversion makes  *)
(* of it.                                                                  *)
(***************************************************************************)
EXTENDS Integers, Sequences

CONSTANTS
    Fields,          \* the fields in the order of the class: [name, type, default]
    Overrides,       \* keyword arguments somebody may pass: name |-> raw value
    Environments     \* environments: name |-> string

Missing == [kind |-> "missing"]

\* Numbers that no setting has: math.inf, and the errors of a conversion.
Inf == 10001
NotConvertible == 10003
Overflow == 10005

VARIABLES
    overrides, env,
    next,            \* the field __init__ is at
    values,          \* the attributes set so far, in halves
    outcome          \* "walking", "made", "TypeError", "ValueError", "OverflowError"

vars == <<overrides, env, next, values, outcome>>

Known == {Fields[i].name : i \in DOMAIN Fields}

Init ==
    /\ overrides \in Overrides /\ env \in Environments
    /\ next = 1 /\ values = [n \in {} |-> 0]
    /\ outcome = IF DOMAIN overrides \subseteq Known THEN "walking" ELSE "TypeError"

MutResolved(field) ==
    IF field.name \in DOMAIN env THEN env[field.name]
    ELSE IF field.name \in DOMAIN overrides THEN overrides[field.name] ELSE field.default

\* overrides, then the environment, then the default of the field.
Resolved(field) ==
    IF field.name \in DOMAIN overrides THEN overrides[field.name]
    ELSE IF field.name \in DOMAIN env THEN env[field.name] ELSE field.default

\* int() cuts off towards zero.
Truncated(halves) == IF halves >= 0 THEN 2 * (halves \div 2) ELSE -2 * ((-halves) \div 2)

\* bool() is not asked: anything but the literals is an error, numbers too.
Coerced(raw, type) ==
    CASE raw.kind = "str" -> IF type = "bool" THEN raw.bool
                             ELSE IF type = "int" THEN raw.int ELSE raw.float
      [] raw.kind # "str" /\ raw.halves = Inf ->
            CASE type = "float" -> Inf [] type = "int" -> Overflow [] OTHER -> NotConvertible
      [] OTHER ->
            CASE type = "bool" -> IF raw.kind \in {"bool", "int"} /\ raw.halves \in {0, 2}
                                  THEN raw.halves ELSE NotConvertible
              [] type = "int" -> Truncated(raw.halves)
              [] OTHER -> raw.halves

Raises(why) == outcome' = why /\ UNCHANGED <<next, values>>

\* OverflowError is none of the errors _coerce translates.
SetField ==
    /\ outcome = "walking" /\ next \in DOMAIN Fields
    /\ LET field == Fields[next]
           raw == Resolved(field)
           value == Coerced(raw, field.type)
       IN IF raw.kind = "missing" THEN Raises("TypeError")
          ELSE CASE value = NotConvertible -> Raises("ValueError")
                 [] value = Overflow -> Raises("OverflowError")
                 [] OTHER ->
                        /\ values' = [n \in DOMAIN values \cup {field.name} |->
                                        IF n = field.name THEN value ELSE values[n]]
                        /\ next' = next + 1 /\ UNCHANGED outcome
    /\ UNCHANGED <<overrides, env>>

Finish ==
    /\ outcome = "walking" /\ next \notin DOMAIN Fields /\ outcome' = "made"
    /\ UNCHANGED <<overrides, env, next, values>>

Next == SetField \/ Finish

Spec == Init /\ [][Next]_vars

-----------------------------------------------------------------------------
(* Properties. *)

\* The three sources laid over each other, the first on top.
Merge(f, g) == [k \in DOMAIN f \cup DOMAIN g |-> IF k \in DOMAIN g THEN g[k] ELSE f[k]]

Defaults ==
    [n \in Known |-> Fields[CHOOSE i \in DOMAIN Fields : Fields[i].name = n].default]

Sources == Merge(Merge(Defaults, [n \in Known \cap DOMAIN env |-> env[n]]), overrides)

IsGood(field) ==
    LET raw == Sources[field.name]
    IN raw.kind # "missing" /\ Coerced(raw, field.type) \notin {NotConvertible, Overflow}

\* The settings are made, with every field, exactly if no override is unknown and each
\* field has, in its first source alone, a value that converts to its type: a bad
\* environment variable behind an override does no harm, and none that counts is
\* passed over for the next source (settings.py:51-92).
SettingsAreResolved ==
    /\ outcome = "made" =>
            /\ DOMAIN overrides \subseteq Known
            /\ \A i \in DOMAIN Fields : IsGood(Fields[i])
                /\ values[Fields[i].name] = Coerced(Sources[Fields[i].name], Fields[i].type)
    /\ outcome \notin {"walking", "made"} /\ DOMAIN overrides \subseteq Known =>
            \E i \in DOMAIN Fields : ~IsGood(Fields[i])

=============================================================================
